---------------------------- MODULE PolicyManifest ----------------------------
(***************************************************************************)
(* The committed baseline of a policy document (harness/ingest): an ingest *)
(* hashes the clauses, compares them with the baseline, says which must be *)
(* read again by the extractor, and may write itself over the baseline.    *)
(*                                                                         *)
(* A document is the sequence of its clauses' content hashes; a position   *)
(* is an ordinal. One ingest runs at a time, and the document may be       *)
(* edited between any two of its steps.                                    *)
(***************************************************************************)
EXTENDS Integers, Sequences, FiniteSets

CONSTANTS
  Hashes,       \* content hashes
  MaxClauses,   \* bound on the clauses of a document
  MaxIngests    \* bound on the ingests

ASSUME ManifestAssumption == {MaxClauses, MaxIngests} \subseteq Nat

Documents == UNION {[1..n -> Hashes] : n \in 0..MaxClauses}

VARIABLES
  doc,         \* the policy on disk
  baseline,    \* its entry in the manifest: NoEntry or [clauses, fetched_at]
  pc,          \* the ingest: "idle", "ingested" or "diffed"
  ingested,    \* the PolicyDocument of this ingest
  diff,        \* its DocumentDiff
  clock        \* ingests so far: the fetched_at of the current one

vars == <<doc, baseline, pc, ingested, diff, clock>>

NoEntry == [clauses |-> <<>>, fetched_at |-> 0]

Known == baseline.fetched_at # 0

(***************************************************************************)
(* diff_document: three passes over the ordinals of the new document. A    *)
(* baseline ordinal is consumed by the first clause that claims it.        *)
(***************************************************************************)
\* Pass 1: the same hash at the same ordinal.
Unchanged(prev, cur) == {i \in DOMAIN cur : i \in DOMAIN prev /\ prev[i] = cur[i]}

\* Pass 2 at ordinal i: the first baseline clause of that hash that is still free.
ClaimMove(prev, cur, moves, i) ==
  LET free == {o \in DOMAIN prev : /\ prev[o] = cur[i]
                                   /\ o \notin Unchanged(prev, cur)
                                   /\ \A m \in moves : m.old # o}
  IN IF free = {} THEN moves
     ELSE moves \cup {[old |-> CHOOSE o \in free : \A q \in free : o <= q, new |-> i]}

\* The clauses left by pass 1 claim one after another, in document order.
Moved(prev, cur) ==
  LET claimed[i \in 0..Len(cur)] ==
        IF i = 0 THEN {}
        ELSE IF i \in Unchanged(prev, cur) THEN claimed[i - 1]
        ELSE ClaimMove(prev, cur, claimed[i - 1], i)
  IN claimed[Len(cur)]

\* Pass 3 and what nothing claimed.
Diff(prev, cur) ==
  LET unchanged == Unchanged(prev, cur)
      moved     == Moved(prev, cur)
      consumed  == unchanged \cup {m.old : m \in moved}
      unclaimed == (DOMAIN cur \ unchanged) \ {m.new : m \in moved}
      changed   == {i \in unclaimed : i \in DOMAIN prev \ consumed}
  IN [unchanged |-> unchanged, moved |-> moved, changed |-> changed,
      added |-> unclaimed \ changed, removed |-> (DOMAIN prev \ consumed) \ changed]

\* A document with no entry yet is all added; that its entry is empty says the same.
NoDiff == Diff(<<>>, <<>>)

IsClean(d) == d.added = {} /\ d.changed = {} /\ d.removed = {}

\* Wrong variant: the extractor reads the edits only.
NeedsExtractionEdited(d) == d.changed

NeedsExtraction(d) == d.added \cup d.changed

(***************************************************************************)
(* Steps.                                                                  *)
(***************************************************************************)
\* Someone edits the policy: any document may come of it.
Edit ==
  /\ doc' \in Documents \ {doc}
  /\ UNCHANGED <<baseline, pc, ingested, diff, clock>>

Ingest ==
  /\ pc = "idle" /\ clock < MaxIngests
  /\ pc' = "ingested"
  /\ ingested' = doc
  /\ clock' = clock + 1
  /\ UNCHANGED <<doc, baseline, diff>>

\* diff_against_manifest.
Compare ==
  /\ pc = "ingested"
  /\ diff' = Diff(baseline.clauses, ingested)
  /\ pc' = "diffed"
  /\ UNCHANGED <<doc, baseline, ingested, clock>>

\* Wrong variant: a clean diff keeps the date, although clauses moved.
KeepsDateWhenClean == Known /\ IsClean(diff)

KeepsDate == Known /\ IsClean(diff) /\ diff.moved = {}

\* update_manifest, with --write-manifest.
WriteBaseline ==
  /\ pc = "diffed"
  /\ baseline' = [clauses |-> ingested,
                  fetched_at |-> IF KeepsDate THEN baseline.fetched_at ELSE clock]
  /\ pc' = "idle"
  /\ UNCHANGED <<doc, ingested, diff, clock>>

\* Without it the diff is only printed, and the exit status tells whether it was clean.
Report ==
  /\ pc = "diffed"
  /\ pc' = "idle"
  /\ UNCHANGED <<doc, baseline, ingested, diff, clock>>

Init ==
  /\ doc \in Documents /\ baseline = NoEntry
  /\ pc = "idle" /\ ingested = <<>> /\ diff = NoDiff /\ clock = 0

Next == Edit \/ Ingest \/ Compare \/ WriteBaseline \/ Report

Spec == Init /\ [][Next]_vars

(***************************************************************************)
(* Properties.                                                             *)
(***************************************************************************)
Count(clauses, ordinals, h) == Cardinality({i \in ordinals : clauses[i] = h})

CountAll(clauses, h) == Count(clauses, DOMAIN clauses, h)

\* The extractor is sent each text the baseline lacks, as often as the baseline lacks
\* it, and no text twice: a clause repeated in the policy, moved, or put where another
\* stood is neither skipped nor paid for again (manifest.py:93-98).
EditsAreExtracted ==
  pc = "diffed" => \A h \in Hashes :
    LET more == CountAll(ingested, h) - CountAll(baseline.clauses, h)
    IN Count(ingested, NeedsExtraction(diff), h) = IF more > 0 THEN more ELSE 0

\* Re-ingesting an unchanged policy leaves the committed file as it was, and its date
\* is that of the ingest that first saw the clauses it lists (manifest.py:288-295).
OnlyContentChangesTheBaseline ==
  [][Known => baseline'.clauses # baseline.clauses /\ baseline'.fetched_at = clock]_baseline
===============================================================================
