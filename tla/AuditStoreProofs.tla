--------------------------- MODULE AuditStoreProofs ---------------------------
(* Theorems about AuditStore, for every number of runs, probes, correctors,   *)
(* gates and row ids.                                                         *)
EXTENDS AuditStore, FiniteSetTheorems, TLAPS

USE NumProbesAssumption, MaxRowIdAssumption, ThresholdAssumption
USE DEF Probes, RowIds, NoId, RunIds

(***************************************************************************)
(* Reads return what their types say.                                      *)
(***************************************************************************)
LEMMA ReadTypes ==
  ASSUME TypeOK, NEW r
  PROVE  /\ IsFiniteSet(db) /\ db \subseteq RowIds /\ db \subseteq Nat
         /\ RowsOf(r) \subseteq db
         /\ LatestRows(r) \subseteq db
         /\ OverPromises(r) \subseteq db
         /\ RunsPresent \subseteq RunIds
         /\ Cardinality(RowsOf(r)) \in Nat
         /\ Cardinality(LatestRows(r)) \in Nat
         /\ Cardinality(OverPromises(r)) \in Nat
<1>1. IsFiniteSet(db)
  <2>1. nextId - 1 \in Int /\ db \subseteq 1..(nextId - 1)
    BY DEF TypeOK
  <2>2. IsFiniteSet(1..(nextId - 1))
    BY <2>1, FS_Interval
  <2>3. QED
    BY <2>1, <2>2, FS_Subset
<1>2. /\ RowsOf(r) \subseteq db
      /\ LatestRows(r) \subseteq db
      /\ OverPromises(r) \subseteq db
  BY DEF RowsOf, LatestRows, OverPromises
<1>3. RunsPresent \subseteq RunIds /\ db \subseteq RowIds /\ db \subseteq Nat
  BY DEF RunsPresent, TypeOK, Row
<1>4. QED
  BY <1>1, <1>2, <1>3, FS_Subset, FS_CardinalityType

(***************************************************************************)
(* The inductive invariant. A type alone is not inductive: supersede()      *)
(* commits the row its caller built two sessions earlier, so it has to be   *)
(* known that the row is minted, that nobody else holds it, and that its    *)
(* target is still in the table.                                            *)
(***************************************************************************)
InFlight(c) == corPc[c] \in {"got", "checked"}

CorrectionsInFlight ==
  \A c \in Correctors : InFlight(c) =>
    /\ fix[c] \in 1..(nextId - 1)
    /\ fix[c] \notin db
    /\ target[c] \in db
    /\ target[c] < fix[c]
    /\ corPc[c] = "checked" => rows[fix[c]].probe = rows[target[c]].probe

\* A minted row has one owner until it is committed.
OneOwner ==
  /\ \A c, d \in Correctors : InFlight(c) /\ InFlight(d) /\ fix[c] = fix[d] => c = d
  /\ \A c \in Correctors, r \in Runs : InFlight(c) => fix[c] \notin batch[r]

\* What a run built is its own and corrects nothing.
BatchesAreFresh ==
  \A r \in Runs : \A i \in batch[r] : rows[i].run = r /\ rows[i].supersedes = NoId

StoreInv == TypeOK /\ CorrectionsInFlight /\ OneOwner /\ BatchesAreFresh /\ CorrectionsResolve

(***************************************************************************)
(* Type correctness.                                                       *)
(***************************************************************************)
\* An empty table and idle processes are well typed.
LEMMA TypeInit == Init => TypeOK
  BY DEF Init, TypeOK, Reconciliation, GateState, NoGate

\* No step of `clauseguard run` breaks the types: ids are minted below nextId.
LEMMA TypeRun ==
  ASSUME TypeOK, NEW r \in Runs, RunStep(r)
  PROVE  TypeOK'
<1>1. CASE BuildRows(r)
  <2>1. PICK v \in [Probes -> Verdicts] :
          rows' = [i \in RowIds |->
                     IF i \in nextId..(nextId + NumProbes - 1)
                     THEN [run |-> r, probe |-> i - nextId + 1,
                           verdict |-> v[i - nextId + 1], supersedes |-> NoId]
                     ELSE rows[i]]
    BY <1>1 DEF BuildRows
  <2>2. ASSUME NEW i \in RowIds, i \in nextId..(nextId + NumProbes - 1)
        PROVE  rows'[i] \in Row
    <3>1. i - nextId + 1 \in Probes
      BY <2>2 DEF TypeOK
    <3>2. QED
      BY <2>1, <2>2, <3>1 DEF Row
  <2>3. ASSUME NEW i \in RowIds, i \notin nextId..(nextId + NumProbes - 1)
        PROVE  rows'[i] = rows[i]
    BY <2>1, <2>3
  <2>4. rows' \in [RowIds -> Row \cup {NoRow}]
    BY <2>1, <2>2, <2>3 DEF TypeOK
  <2>5. nextId' \in 1..(MaxRowId + 1) /\ nextId' = nextId + NumProbes
    BY <1>1 DEF BuildRows, TypeOK
  <2>6. \A i \in 1..(nextId' - 1) : rows'[i] \in Row
    BY <2>2, <2>3, <2>5 DEF TypeOK
  <2>7. db' \in SUBSET (1..(nextId' - 1)) /\ batch' \in [Runs -> SUBSET (1..(nextId' - 1))]
    BY <1>1, <2>5 DEF BuildRows, TypeOK
  <2>8. QED
    BY <1>1, <2>4, <2>5, <2>6, <2>7 DEF BuildRows, TypeOK, corVars, gateVars
<1>2. CASE AppendMany(r)
  BY <1>2 DEF AppendMany, TypeOK, corVars, gateVars
<1>3. CASE ReconcileRows(r)
  BY <1>3, ReadTypes DEF ReconcileRows, TypeOK, corVars, gateVars
<1>4. CASE ReconcileLatest(r)
  <2>1. tally[r] - Cardinality(LatestRows(r)) \in Int
    BY ReadTypes DEF TypeOK
  <2>2. recon' \in [Runs -> Reconciliation]
    BY <1>4, <2>1, ReadTypes DEF ReconcileLatest, TypeOK, Reconciliation
  <2>3. QED
    BY <1>4, <2>2 DEF ReconcileLatest, TypeOK, corVars, gateVars
<1>5. CASE Crash(r)
  BY <1>5 DEF Crash, TypeOK, corVars, gateVars
<1>6. QED
  BY <1>1, <1>2, <1>3, <1>4, <1>5 DEF RunStep

\* No session of supersede() breaks the types: it appends a row already minted.
LEMMA TypeSupersede ==
  ASSUME TypeOK, CorrectionsInFlight, NEW c \in Correctors, SupersedeStep(c)
  PROVE  TypeOK'
<1>1. CASE SupersedeGet(c)
  <2>1. PICK o \in db \cup {NoId} :
          /\ \E x \in CorrectionsOf(o) : rows' = [rows EXCEPT ![nextId] = x]
          /\ IF o \in db
             THEN /\ corPc'  = [corPc EXCEPT ![c] = "got"]
                  /\ target' = [target EXCEPT ![c] = o]
                  /\ fix'    = [fix EXCEPT ![c] = nextId]
             ELSE corPc' = [corPc EXCEPT ![c] = "refused"] /\ Forget(c)
    BY <1>1 DEF SupersedeGet
  <2>2. nextId \in RowIds /\ nextId' = nextId + 1 /\ nextId' \in 1..(MaxRowId + 1)
    BY <1>1 DEF SupersedeGet, TypeOK
  <2>3. CorrectionsOf(o) \subseteq Row
    <3>1. o \in db => rows[o] \in Row
      BY DEF TypeOK
    <3>2. db \subseteq RowIds
      BY DEF TypeOK
    <3>3. QED
      BY <3>1, <3>2 DEF CorrectionsOf, Row
  <2>4. rows' \in [RowIds -> Row \cup {NoRow}] /\ rows'[nextId] \in Row
    BY <2>1, <2>2, <2>3 DEF TypeOK
  <2>5. \A i \in 1..(nextId' - 1) : rows'[i] \in Row
    BY <2>1, <2>2, <2>4 DEF TypeOK
  <2>6. /\ corPc' \in [Correctors -> {"idle", "got", "checked", "refused", "done"}]
        /\ target' \in [Correctors -> RowIds \cup {NoId}]
        /\ fix' \in [Correctors -> RowIds \cup {NoId}]
    <3>1. CASE o \in db
      <4>1. o \in RowIds
        BY <3>1 DEF TypeOK
      <4>2. /\ corPc'  = [corPc EXCEPT ![c] = "got"]
            /\ target' = [target EXCEPT ![c] = o]
            /\ fix'    = [fix EXCEPT ![c] = nextId]
        BY <2>1, <3>1
      <4>3. QED
        BY <2>2, <4>1, <4>2 DEF TypeOK
    <3>2. CASE o \notin db
      BY <2>1, <3>2 DEF TypeOK, Forget
    <3>3. QED
      BY <3>1, <3>2
  <2>7. db' \in SUBSET (1..(nextId' - 1)) /\ batch' \in [Runs -> SUBSET (1..(nextId' - 1))]
    BY <1>1, <2>2 DEF SupersedeGet, TypeOK, runVars
  <2>8. QED
    BY <1>1, <2>2, <2>4, <2>5, <2>6, <2>7 DEF SupersedeGet, TypeOK, runVars, gateVars
<1>2. CASE SupersedeCheck(c)
  BY <1>2 DEF SupersedeCheck, Forget, TypeOK, runVars, gateVars
<1>3. CASE SupersedeAppend(c)
  <2>1. fix[c] \in 1..(nextId - 1) /\ target[c] \in RowIds /\ fix[c] \in RowIds
    BY <1>3 DEF SupersedeAppend, CorrectionsInFlight, InFlight, TypeOK
  <2>2. rows' = [rows EXCEPT ![fix[c]].supersedes = target[c]]
    BY <1>3 DEF SupersedeAppend
  <2>3. rows'[fix[c]] \in Row
    <3>1. rows[fix[c]] \in Row
      BY <2>1 DEF TypeOK
    <3>2. rows'[fix[c]] = [rows[fix[c]] EXCEPT !.supersedes = target[c]]
      BY <2>1, <2>2 DEF TypeOK
    <3>3. QED
      BY <2>1, <3>1, <3>2 DEF Row
  <2>4. \A i \in RowIds : i # fix[c] => rows'[i] = rows[i]
    BY <2>2 DEF TypeOK
  <2>5. rows' \in [RowIds -> Row \cup {NoRow}]
    BY <2>2, <2>3, <2>4 DEF TypeOK
  <2>6. \A i \in 1..(nextId - 1) : rows'[i] \in Row
    BY <2>3, <2>4 DEF TypeOK
  <2>7. QED
    BY <1>3, <2>1, <2>5, <2>6 DEF SupersedeAppend, Forget, TypeOK, runVars, gateVars
<1>4. QED
  BY <1>1, <1>2, <1>3 DEF SupersedeStep

\* No read of the gate breaks the types; it writes nothing but its own state.
LEMMA TypeGate ==
  ASSUME TypeOK, NEW g \in Gates, CheckStep(g)
  PROVE  TypeOK'
<1> DEFINE Pcs == {"start", "raised", "nothing", "chosen", "gate_error", "baseline",
                   "previous", "resolved", "counted", "pass", "fail"}
<1>1. UNCHANGED <<rows, nextId, db, runVars, corVars>>
  BY DEF CheckStep, GateUninitialised, GateEmpty, GateChoose, GateFind, GatePrevious,
         GatePreviousCount, GateCount, GateDecide, GateStep
<1>2. gatePc' \in [Gates -> Pcs]
  <2>1. gatePc \in [Gates -> Pcs]
    BY DEF TypeOK
  <2>2. QED
    BY <2>1 DEF CheckStep, GateUninitialised, GateEmpty, GateChoose, GateFind, GatePrevious,
                GatePreviousCount, GateCount, GateDecide, GateStep
<1>3. gate' \in [Gates -> GateState]
  <2>1. gate \in [Gates -> GateState]
    BY DEF TypeOK
  <2>2. CASE GateUninitialised(g) \/ GateEmpty(g) \/ GateFind(g)
    BY <2>1, <2>2 DEF GateUninitialised, GateEmpty, GateFind
  <2>3. CASE GateChoose(g)
    <3>1. PICK a \in RunIds \cup {NoRun}, b \in BOOLEAN, n \in Thresholds, r \in RunIds :
            gate' = [gate EXCEPT ![g] = [@ EXCEPT !.arg = a, !.baseline = b, !.run = r,
                                                  !.threshold = n]]
      BY <2>3 DEF GateChoose
    <3>2. gate[g] \in GateState
      BY <2>1
    <3>3. [gate[g] EXCEPT !.arg = a, !.baseline = b, !.run = r, !.threshold = n] \in GateState
      BY <3>2 DEF GateState
    <3>4. QED
      BY <2>1, <3>1, <3>3
  <2>4. CASE GatePrevious(g)
    <3>1. CASE Cardinality(RunsPresent) < 2
      BY <2>1, <2>4, <3>1 DEF GatePrevious
    <3>2. CASE ~(Cardinality(RunsPresent) < 2)
      <4>1. PICK q \in RunsPresent : gate' = [gate EXCEPT ![g].prev = q]
        BY <2>4, <3>2 DEF GatePrevious
      <4>2. q \in RunIds
        BY ReadTypes
      <4>3. gate[g] \in GateState
        BY <2>1
      <4>4. [gate[g] EXCEPT !.prev = q] \in GateState
        BY <4>2, <4>3 DEF GateState
      <4>5. QED
        BY <2>1, <4>1, <4>4
    <3>3. QED
      BY <3>1, <3>2
  <2>5. CASE GatePreviousCount(g)
    <3>1. Cardinality(OverPromises(gate[g].prev)) \in Nat
      BY ReadTypes
    <3>2. QED
      BY <2>1, <2>5, <3>1 DEF GatePreviousCount, GateState
  <2>6. CASE GateCount(g)
    <3>1. Cardinality(OverPromises(gate[g].run)) \in Nat
      BY ReadTypes
    <3>2. QED
      BY <2>1, <2>6, <3>1 DEF GateCount, GateState
  <2>7. CASE GateDecide(g)
    <3>1. Cardinality(OverPromises(gate[g].run)) \in Nat
      BY ReadTypes
    <3>2. QED
      BY <2>1, <2>7, <3>1 DEF GateDecide, GateState
  <2>8. QED
    BY <2>2, <2>3, <2>4, <2>5, <2>6, <2>7 DEF CheckStep
<1>4. QED
  BY <1>1, <1>2, <1>3 DEF TypeOK, runVars, corVars

(***************************************************************************)
(* Every step preserves the invariant.                                     *)
(***************************************************************************)
\* A run's step leaves the committed rows and the corrections in flight alone;
\* rows it adds to the table were minted by itself.
LEMMA InvRun ==
  ASSUME StoreInv, NEW r \in Runs, RunStep(r)
  PROVE  StoreInv'
<1> USE DEF StoreInv
<1>1. TypeOK'
  BY TypeRun
<1>2. CASE BuildRows(r)
  <2>1. PICK v \in [Probes -> Verdicts] :
          rows' = [i \in RowIds |->
                     IF i \in nextId..(nextId + NumProbes - 1)
                     THEN [run |-> r, probe |-> i - nextId + 1,
                           verdict |-> v[i - nextId + 1], supersedes |-> NoId]
                     ELSE rows[i]]
    BY <1>2 DEF BuildRows
  <2>2. \A i \in 1..(nextId - 1) : rows'[i] = rows[i]
    BY <2>1 DEF TypeOK
  <2>3. \A i \in nextId..(nextId + NumProbes - 1) :
          rows'[i].run = r /\ rows'[i].supersedes = NoId
    <3>1. \A i \in nextId..(nextId + NumProbes - 1) : i \in RowIds
      BY <1>2 DEF BuildRows, TypeOK
    <3>2. QED
      BY <2>1, <3>1
  <2>4. /\ UNCHANGED <<db, corPc, target, fix>>
        /\ nextId' = nextId + NumProbes
        /\ batch' = [batch EXCEPT ![r] = nextId..(nextId + NumProbes - 1)]
    BY <1>2 DEF BuildRows, corVars
  <2>5. CorrectionsInFlight'
    BY <2>2, <2>4 DEF CorrectionsInFlight, InFlight, TypeOK
  <2>6. OneOwner'
    BY <2>4 DEF OneOwner, CorrectionsInFlight, InFlight, TypeOK
  <2>7. BatchesAreFresh'
    BY <2>2, <2>3, <2>4 DEF BatchesAreFresh, TypeOK
  <2>8. CorrectionsResolve'
    BY <2>2, <2>4 DEF CorrectionsResolve, TypeOK
  <2>9. QED
    BY <1>1, <2>5, <2>6, <2>7, <2>8
<1>3. CASE AppendMany(r)
  <2>1. UNCHANGED <<rows, nextId, batch, corPc, target, fix>> /\ db' = db \cup batch[r]
    BY <1>3 DEF AppendMany, corVars
  <2>2. CorrectionsInFlight' /\ OneOwner' /\ BatchesAreFresh'
    BY <2>1 DEF CorrectionsInFlight, OneOwner, BatchesAreFresh, InFlight
  <2>3. CorrectionsResolve'
    BY <2>1 DEF CorrectionsResolve, BatchesAreFresh
  <2>4. QED
    BY <1>1, <2>2, <2>3
<1>4. CASE ReconcileRows(r) \/ ReconcileLatest(r) \/ Crash(r)
  <2>1. UNCHANGED <<rows, nextId, db, batch, corPc, target, fix>>
    BY <1>4 DEF ReconcileRows, ReconcileLatest, Crash, corVars
  <2>2. QED
    BY <1>1, <2>1 DEF CorrectionsInFlight, OneOwner, BatchesAreFresh, InFlight, CorrectionsResolve
<1>5. QED
  BY <1>2, <1>3, <1>4 DEF RunStep

\* supersede() keeps the strengthening: what it holds between its sessions stays
\* minted, its own, and pointed at a stored row of the same probe.
LEMMA InvSupersede ==
  ASSUME StoreInv, NEW c \in Correctors, SupersedeStep(c)
  PROVE  StoreInv'
<1> USE DEF StoreInv
<1>1. TypeOK'
  BY TypeSupersede
<1>2. CASE SupersedeGet(c)
  <2>1. PICK o \in db \cup {NoId} :
          /\ \E x \in CorrectionsOf(o) : rows' = [rows EXCEPT ![nextId] = x]
          /\ IF o \in db
             THEN /\ corPc'  = [corPc EXCEPT ![c] = "got"]
                  /\ target' = [target EXCEPT ![c] = o]
                  /\ fix'    = [fix EXCEPT ![c] = nextId]
             ELSE corPc' = [corPc EXCEPT ![c] = "refused"] /\ Forget(c)
    BY <1>2 DEF SupersedeGet
  <2>2. \A i \in 1..(nextId - 1) : rows'[i] = rows[i]
    BY <2>1 DEF TypeOK
  <2>3. UNCHANGED <<db, batch>> /\ nextId' = nextId + 1
    BY <1>2 DEF SupersedeGet, runVars
  <2>4. \A d \in Correctors : d # c =>
          corPc'[d] = corPc[d] /\ target'[d] = target[d] /\ fix'[d] = fix[d]
    BY <2>1 DEF Forget, TypeOK
  <2>5. InFlight(c)' => corPc'[c] = "got" /\ o \in db /\ target'[c] = o /\ fix'[c] = nextId
    <3>1. CASE o \in db
      BY <2>1, <3>1 DEF TypeOK
    <3>2. CASE o \notin db
      <4>1. corPc' = [corPc EXCEPT ![c] = "refused"]
        BY <2>1, <3>2
      <4>2. QED
        BY <4>1 DEF InFlight, TypeOK
    <3>3. QED
      BY <3>1, <3>2
  <2>6. /\ nextId \in Nat \ {0}
        /\ db \subseteq 1..(nextId - 1)
        /\ \A r \in Runs : batch[r] \subseteq 1..(nextId - 1)
        /\ \A i \in 1..(nextId - 1) : i < nextId
    BY DEF TypeOK
  <2>7. CorrectionsInFlight'
    <3>1. SUFFICES ASSUME NEW d \in Correctors, InFlight(d)'
                   PROVE  /\ fix'[d] \in 1..(nextId' - 1)
                          /\ fix'[d] \notin db'
                          /\ target'[d] \in db'
                          /\ target'[d] < fix'[d]
                          /\ corPc'[d] = "checked" =>
                               rows'[fix'[d]].probe = rows'[target'[d]].probe
      BY DEF CorrectionsInFlight
    <3>2. CASE d = c
      BY <2>3, <2>5, <2>6, <3>1, <3>2
    <3>3. CASE d # c
      <4>1. InFlight(d)
        BY <2>4, <3>1, <3>3 DEF InFlight
      <4>2. QED
        BY <2>2, <2>3, <2>4, <2>6, <3>3, <4>1 DEF CorrectionsInFlight
    <3>4. QED
      BY <3>2, <3>3
  <2>8. OneOwner'
    <3>1. \A d \in Correctors : InFlight(d)' /\ d # c => InFlight(d) /\ fix[d] < nextId
      BY <2>4, <2>6 DEF InFlight, CorrectionsInFlight
    <3>2. \A r \in Runs : nextId \notin batch[r]
      BY <2>6
    <3>3. QED
      BY <2>3, <2>4, <2>5, <2>6, <3>1, <3>2 DEF OneOwner
  <2>9. BatchesAreFresh'
    BY <2>2, <2>3, <2>6 DEF BatchesAreFresh
  <2>10. CorrectionsResolve'
    BY <2>2, <2>3, <2>6 DEF CorrectionsResolve
  <2>11. QED
    BY <1>1, <2>7, <2>8, <2>9, <2>10
<1>3. CASE SupersedeCheck(c)
  <2>1. UNCHANGED <<rows, nextId, db, batch>>
    BY <1>3 DEF SupersedeCheck, runVars
  <2>2. \A d \in Correctors : d # c =>
          corPc'[d] = corPc[d] /\ target'[d] = target[d] /\ fix'[d] = fix[d]
    BY <1>3 DEF SupersedeCheck, Forget, TypeOK
  <2>3. InFlight(c)' =>
          InFlight(c) /\ Acceptable(c) /\ target'[c] = target[c] /\ fix'[c] = fix[c]
    BY <1>3 DEF SupersedeCheck, InFlight, TypeOK
  <2>4. CorrectionsInFlight'
    BY <2>1, <2>2, <2>3 DEF CorrectionsInFlight, InFlight, Acceptable
  <2>5. OneOwner' /\ BatchesAreFresh' /\ CorrectionsResolve'
    BY <2>1, <2>2, <2>3 DEF OneOwner, InFlight, BatchesAreFresh, CorrectionsResolve
  <2>6. QED
    BY <1>1, <2>4, <2>5
<1>4. CASE SupersedeAppend(c)
  <2>1. /\ fix[c] \in 1..(nextId - 1) /\ fix[c] \notin db
        /\ target[c] \in db /\ target[c] < fix[c]
        /\ rows[fix[c]].probe = rows[target[c]].probe
    BY <1>4 DEF SupersedeAppend, CorrectionsInFlight, InFlight
  <2>2. /\ UNCHANGED <<nextId, batch>> /\ db' = db \cup {fix[c]}
        /\ rows' = [rows EXCEPT ![fix[c]].supersedes = target[c]]
    BY <1>4 DEF SupersedeAppend, runVars
  <2>3. /\ \A i \in RowIds : i # fix[c] => rows'[i] = rows[i]
        /\ \A i \in 1..(nextId - 1) : rows'[i].probe = rows[i].probe
        /\ rows'[fix[c]].supersedes = target[c]
    <3>1. fix[c] \in RowIds /\ rows[fix[c]] \in Row
      BY <2>1 DEF TypeOK
    <3>2. rows'[fix[c]] = [rows[fix[c]] EXCEPT !.supersedes = target[c]]
      BY <2>2, <3>1 DEF TypeOK
    <3>3. rows'[fix[c]].supersedes = target[c] /\ rows'[fix[c]].probe = rows[fix[c]].probe
      BY <3>1, <3>2 DEF Row
    <3>4. \A i \in RowIds : i # fix[c] => rows'[i] = rows[i]
      BY <2>2 DEF TypeOK
    <3>5. QED
      BY <3>3, <3>4 DEF TypeOK
  <2>4. /\ ~InFlight(c)'
        /\ \A d \in Correctors : d # c =>
             corPc'[d] = corPc[d] /\ target'[d] = target[d] /\ fix'[d] = fix[d]
    BY <1>4 DEF SupersedeAppend, Forget, InFlight, TypeOK
  <2>5. \A d \in Correctors : InFlight(d)' => d # c /\ InFlight(d) /\ fix[d] # fix[c]
    <3>1. InFlight(c)
      BY <1>4 DEF InFlight, SupersedeAppend
    <3>2. QED
      BY <2>4, <3>1 DEF OneOwner, InFlight
  <2>6. CorrectionsInFlight'
    <3>1. SUFFICES ASSUME NEW d \in Correctors, InFlight(d)'
                   PROVE  /\ fix'[d] \in 1..(nextId' - 1)
                          /\ fix'[d] \notin db'
                          /\ target'[d] \in db'
                          /\ target'[d] < fix'[d]
                          /\ corPc'[d] = "checked" =>
                               rows'[fix'[d]].probe = rows'[target'[d]].probe
      BY DEF CorrectionsInFlight
    <3>2. d # c /\ InFlight(d) /\ fix[d] # fix[c]
      BY <2>5, <3>1
    <3>3. corPc'[d] = corPc[d] /\ target'[d] = target[d] /\ fix'[d] = fix[d]
      BY <2>4, <3>2
    <3>4. /\ fix[d] \in 1..(nextId - 1) /\ fix[d] \notin db /\ target[d] \in db
          /\ target[d] < fix[d] /\ target[d] \in 1..(nextId - 1)
          /\ corPc[d] = "checked" => rows[fix[d]].probe = rows[target[d]].probe
      BY <3>2 DEF CorrectionsInFlight, TypeOK
    <3>5. QED
      BY <2>2, <2>3, <3>2, <3>3, <3>4
  <2>7. OneOwner'
    BY <2>2, <2>4, <2>5 DEF OneOwner, InFlight
  <2>8. BatchesAreFresh'
    <3>1. \A r \in Runs : fix[c] \notin batch[r] /\ batch[r] \subseteq RowIds
      BY <1>4 DEF OneOwner, InFlight, SupersedeAppend, TypeOK
    <3>2. QED
      BY <2>2, <2>3, <3>1 DEF BatchesAreFresh
  <2>9. CorrectionsResolve'
    <3>1. db \subseteq 1..(nextId - 1) /\ db \subseteq RowIds
      BY DEF TypeOK
    <3>2. QED
      BY <2>1, <2>2, <2>3, <3>1 DEF CorrectionsResolve
  <2>10. QED
    BY <1>1, <2>6, <2>7, <2>8, <2>9
<1>5. QED
  BY <1>2, <1>3, <1>4 DEF SupersedeStep

\* A check reads; it changes nothing a run or a correction depends on.
LEMMA InvGate ==
  ASSUME StoreInv, NEW g \in Gates, CheckStep(g)
  PROVE  StoreInv'
<1>1. UNCHANGED <<rows, nextId, db, runVars, corVars>>
  BY DEF CheckStep, GateUninitialised, GateEmpty, GateChoose, GateFind, GatePrevious,
         GatePreviousCount, GateCount, GateDecide, GateStep
<1>2. TypeOK'
  BY TypeGate DEF StoreInv
<1>3. QED
  BY <1>1, <1>2 DEF StoreInv, CorrectionsInFlight, OneOwner, BatchesAreFresh, InFlight,
                    CorrectionsResolve, runVars, corVars

\* The invariant holds in every state of every behaviour.
THEOREM StoreInvariant == Spec => []StoreInv
<1>1. Init => StoreInv
  BY TypeInit DEF Init, StoreInv, CorrectionsInFlight, OneOwner, BatchesAreFresh, InFlight,
                  CorrectionsResolve
<1>2. StoreInv /\ [Next]_vars => StoreInv'
  <2>1. ASSUME StoreInv, Next
        PROVE  StoreInv'
    BY <2>1, InvRun, InvSupersede, InvGate DEF Next
  <2>2. ASSUME StoreInv, UNCHANGED vars
        PROVE  StoreInv'
    BY <2>2 DEF StoreInv, TypeOK, CorrectionsInFlight, OneOwner, BatchesAreFresh, InFlight,
                CorrectionsResolve, vars, runVars, corVars, gateVars
  <2>3. QED
    BY <2>1, <2>2
<1>3. QED
  BY <1>1, <1>2, PTL DEF Spec

\* TypeOK, for every number of runs, probes, supersede() callers, gates and rows.
THEOREM TypeCorrect == Spec => []TypeOK
<1>1. StoreInv => TypeOK
  BY DEF StoreInv
<1>2. QED
  BY <1>1, StoreInvariant, PTL

\* supersede() never stores a dangling, forward or cross-probe correction,
\* however many callers interleave their sessions with runs and crashes.
THEOREM CorrectionsAlwaysResolve == Spec => []CorrectionsResolve
<1>1. StoreInv => CorrectionsResolve
  BY DEF StoreInv
<1>2. QED
  BY <1>1, StoreInvariant, PTL

(***************************************************************************)
(* What a step does to the table: nothing, the rows of one run, or one     *)
(* correction. The safety properties of the reads follow from these three. *)
(***************************************************************************)
TableUntouched == db' = db /\ \A i \in db : rows'[i] = rows[i]

RowsAdded(r) ==
  /\ db' = db \cup batch[r]
  /\ \A i \in db : rows'[i] = rows[i]
  /\ \A i \in batch[r] : rows'[i] = rows[i] /\ rows[i].run = r /\ rows[i].supersedes = NoId

CorrectionAdded(t, f) ==
  /\ f \notin db
  /\ t \in db
  /\ db' = db \cup {f}
  /\ \A i \in db : rows'[i] = rows[i]
  /\ rows'[f].supersedes = t
  /\ rows'[f].run = rows[f].run
  /\ rows'[f].probe = rows[t].probe

\* A step leaves the table alone, adds one run's rows, or adds one correction.
LEMMA TableSteps ==
  ASSUME StoreInv, [Next]_vars
  PROVE  \/ TableUntouched
         \/ \E r \in Runs : AppendMany(r) /\ RowsAdded(r)
         \/ \E c \in Correctors : SupersedeAppend(c) /\ CorrectionAdded(target[c], fix[c])
<1> USE DEF StoreInv
<1>1. CASE \E r \in Runs : RunStep(r)
  <2>1. PICK r \in Runs : RunStep(r)
    BY <1>1
  <2>2. CASE BuildRows(r)
    <3>1. db' = db /\ \A i \in 1..(nextId - 1) : rows'[i] = rows[i]
      BY <2>2 DEF BuildRows, TypeOK
    <3>2. QED
      BY <3>1 DEF TableUntouched, TypeOK
  <2>3. CASE AppendMany(r)
    BY <2>3 DEF AppendMany, RowsAdded, BatchesAreFresh
  <2>4. CASE ReconcileRows(r) \/ ReconcileLatest(r) \/ Crash(r)
    BY <2>4 DEF ReconcileRows, ReconcileLatest, Crash, TableUntouched
  <2>5. QED
    BY <2>1, <2>2, <2>3, <2>4 DEF RunStep
<1>2. CASE \E c \in Correctors : SupersedeStep(c)
  <2>1. PICK c \in Correctors : SupersedeStep(c)
    BY <1>2
  <2>2. CASE SupersedeGet(c)
    <3>1. db' = db /\ \E x : rows' = [rows EXCEPT ![nextId] = x]
      BY <2>2 DEF SupersedeGet
    <3>2. db \subseteq 1..(nextId - 1) /\ db \subseteq RowIds /\ nextId \notin db
      BY DEF TypeOK
    <3>3. QED
      BY <3>1, <3>2 DEF TableUntouched, TypeOK
  <2>3. CASE SupersedeCheck(c)
    BY <2>3 DEF SupersedeCheck, TableUntouched
  <2>4. CASE SupersedeAppend(c)
    <3>1. /\ fix[c] \notin db /\ target[c] \in db
          /\ fix[c] \in RowIds /\ rows[fix[c]] \in Row
          /\ rows[fix[c]].probe = rows[target[c]].probe
      BY <2>4 DEF SupersedeAppend, CorrectionsInFlight, InFlight, TypeOK
    <3>2. db' = db \cup {fix[c]} /\ rows' = [rows EXCEPT ![fix[c]].supersedes = target[c]]
      BY <2>4 DEF SupersedeAppend
    <3>3. \A i \in db : rows'[i] = rows[i]
      BY <3>1, <3>2 DEF TypeOK
    <3>4. rows'[fix[c]] = [rows[fix[c]] EXCEPT !.supersedes = target[c]]
      BY <3>1, <3>2 DEF TypeOK
    <3>5. /\ rows'[fix[c]].supersedes = target[c]
          /\ rows'[fix[c]].run = rows[fix[c]].run
          /\ rows'[fix[c]].probe = rows[fix[c]].probe
      BY <3>1, <3>4 DEF Row
    <3>6. CorrectionAdded(target[c], fix[c])
      BY <3>1, <3>2, <3>3, <3>5 DEF CorrectionAdded
    <3>7. QED
      BY <2>4, <3>6
  <2>5. QED
    BY <2>1, <2>2, <2>3, <2>4 DEF SupersedeStep
<1>3. CASE \E g \in Gates : CheckStep(g)
  BY <1>3 DEF CheckStep, GateUninitialised, GateEmpty, GateChoose, GateFind, GatePrevious,
              GatePreviousCount, GateCount, GateDecide, GateStep, TableUntouched
<1>4. CASE UNCHANGED vars
  BY <1>4 DEF vars, TableUntouched
<1>5. QED
  BY <1>1, <1>2, <1>3, <1>4 DEF Next

\* How the reads of a run's rows change with the table.
LEMMA ReadsUntouched ==
  ASSUME TableUntouched, NEW q
  PROVE  RowsOf(q)' = RowsOf(q) /\ LatestRows(q)' = LatestRows(q)
  BY DEF TableUntouched, RowsOf, LatestRows, Superseded

\* What append_many does to the reads of each run.
LEMMA ReadsAdded ==
  ASSUME StoreInv, NEW r \in Runs, RowsAdded(r), NEW q
  PROVE  /\ RowsOf(q)' = RowsOf(q) \cup (IF q = r THEN batch[r] ELSE {})
         /\ LatestRows(q)' = LatestRows(q) \cup (IF q = r THEN batch[r] \ Superseded(RowsOf(r)) ELSE {})
         /\ Superseded(RowsOf(q)) \subseteq db
<1>1. RowsOf(q)' = RowsOf(q) \cup (IF q = r THEN batch[r] ELSE {})
  BY DEF RowsAdded, RowsOf
<1>2. Superseded(RowsOf(q))' = Superseded(RowsOf(q))
  BY <1>1 DEF RowsAdded, RowsOf, Superseded
<1>3. Superseded(RowsOf(q)) \subseteq db
  BY DEF Superseded, RowsOf, StoreInv, CorrectionsResolve
<1>4. QED
  BY <1>1, <1>2, <1>3 DEF LatestRows

\* It leaves the reads of the other runs alone.
LEMMA OtherRunsUntouched ==
  ASSUME StoreInv, NEW r \in Runs, RowsAdded(r), NEW q, q # r
  PROVE  RowsOf(q)' = RowsOf(q) /\ LatestRows(q)' = LatestRows(q)
<1>1. /\ RowsOf(q)' = RowsOf(q) \cup (IF q = r THEN batch[r] ELSE {})
      /\ LatestRows(q)' = LatestRows(q) \cup
           (IF q = r THEN batch[r] \ Superseded(RowsOf(r)) ELSE {})
  BY ReadsAdded
<1>2. QED
  BY <1>1

\* What a correction does to the reads of each run.
LEMMA ReadsCorrected ==
  ASSUME StoreInv, NEW t, NEW f, CorrectionAdded(t, f), t # NoId, NEW q
  PROVE  /\ RowsOf(q)' = RowsOf(q) \cup (IF q = rows[f].run THEN {f} ELSE {})
         /\ LatestRows(q)' = IF q = rows[f].run THEN (LatestRows(q) \ {t}) \cup {f}
                                               ELSE LatestRows(q)
<1>1. RowsOf(q)' = RowsOf(q) \cup (IF q = rows[f].run THEN {f} ELSE {})
  BY DEF CorrectionAdded, RowsOf
<1>2. Superseded(RowsOf(q))' = Superseded(RowsOf(q)) \cup (IF q = rows[f].run THEN {t} ELSE {})
  BY <1>1 DEF CorrectionAdded, RowsOf, Superseded
<1>3. f \notin Superseded(RowsOf(q)) /\ f # t
  BY DEF Superseded, RowsOf, StoreInv, CorrectionsResolve, CorrectionAdded
<1>4. QED
  BY <1>1, <1>2, <1>3 DEF LatestRows

\* NoProbeLost, run by run.
ProbesKept(q) == \A i \in RowsOf(q) : \E j \in LatestRows(q) : rows[j].probe = rows[i].probe

\* NoProbeLost, read run by run.
LEMMA ProbesKeptEverywhere ==
  /\ NoProbeLost => \A q : ProbesKept(q)
  /\ (\A q : ProbesKept(q)') => NoProbeLost'
<1>1. NoProbeLost => \A q : ProbesKept(q)
  BY DEF NoProbeLost, ProbesKept, RowsOf
<1>2. ASSUME \A q : ProbesKept(q)'
      PROVE  NoProbeLost'
  <2>1. \A q : \A i \in db' : rows'[i].run = q =>
          \E j \in LatestRows(q)' : rows'[j].probe = rows'[i].probe
    BY <1>2 DEF ProbesKept, RowsOf
  <2>2. QED
    BY <2>1 DEF NoProbeLost, LatestRows, RowsOf, Superseded
<1>3. QED
  BY <1>1, <1>2

\* No interleaving of runs, corrections and crashes makes a probe disappear from
\* a run that has rows about it.
THEOREM NoProbeIsLost == Spec => []NoProbeLost
<1>1. Init => NoProbeLost
  BY DEF Init, NoProbeLost
<1>2. ASSUME StoreInv, NoProbeLost, [Next]_vars
      PROVE  NoProbeLost'
  <2>0. SUFFICES ASSUME NEW q PROVE ProbesKept(q)'
    BY ProbesKeptEverywhere
  <2>1. ProbesKept(q)
    BY <1>2, ProbesKeptEverywhere
  <2>2. CASE TableUntouched
    <3>1. RowsOf(q)' = RowsOf(q) /\ LatestRows(q)' = LatestRows(q)
      BY <2>2, ReadsUntouched
    <3>2. RowsOf(q) \subseteq db /\ LatestRows(q) \subseteq db
      BY DEF LatestRows, RowsOf
    <3>3. \A i \in db : rows'[i] = rows[i]
      BY <2>2 DEF TableUntouched
    <3>4. QED
      BY <2>1, <3>1, <3>2, <3>3 DEF ProbesKept
  <2>3. ASSUME NEW r \in Runs, RowsAdded(r)
        PROVE  ProbesKept(q)'
    <3>1. /\ RowsOf(q)' = RowsOf(q) \cup (IF q = r THEN batch[r] ELSE {})
          /\ LatestRows(q)' = LatestRows(q) \cup
               (IF q = r THEN batch[r] \ Superseded(RowsOf(r)) ELSE {})
          /\ Superseded(RowsOf(q)) \subseteq db
      BY <1>2, <2>3, ReadsAdded
    <3>2. \A i \in db \cup batch[r] : rows'[i] = rows[i]
      BY <2>3 DEF RowsAdded
    <3>3. LatestRows(q) \subseteq db /\ RowsOf(q) = {i \in db : rows[i].run = q}
      BY DEF LatestRows, RowsOf
    <3>4. ASSUME NEW i \in RowsOf(q)'
          PROVE  \E j \in LatestRows(q)' : rows'[j].probe = rows'[i].probe
      <4>1. CASE i \in RowsOf(q)
        BY <2>1, <3>1, <3>2, <3>3, <4>1 DEF ProbesKept
      <4>2. CASE q = r /\ i \in batch[r] /\ i \notin db
        BY <3>1, <4>2
      <4>3. CASE q = r /\ i \in batch[r] /\ i \in db
        <5>1. rows[i].run = r
          BY <2>3, <4>3 DEF RowsAdded
        <5>2. QED
          BY <3>3, <4>1, <4>3, <5>1
      <4>4. QED
        BY <3>1, <3>4, <4>1, <4>2, <4>3
    <3>5. QED
      BY <3>4 DEF ProbesKept
  <2>4. ASSUME NEW c \in Correctors, CorrectionAdded(target[c], fix[c])
        PROVE  ProbesKept(q)'
    <3>1. PICK t, f : t = target[c] /\ f = fix[c]
      OBVIOUS
    <3>2. t # NoId /\ t \in db /\ f \notin db /\ CorrectionAdded(t, f)
      BY <1>2, <2>4, <3>1 DEF CorrectionAdded, StoreInv, TypeOK
    <3>3. /\ RowsOf(q)' = RowsOf(q) \cup (IF q = rows[f].run THEN {f} ELSE {})
          /\ LatestRows(q)' = IF q = rows[f].run THEN (LatestRows(q) \ {t}) \cup {f}
                                                 ELSE LatestRows(q)
      BY <1>2, <3>2, ReadsCorrected
    <3>4. rows'[f].probe = rows[t].probe /\ \A i \in db : rows'[i] = rows[i]
      BY <3>2 DEF CorrectionAdded
    <3>5. LatestRows(q) \subseteq db /\ RowsOf(q) \subseteq db
      BY DEF LatestRows, RowsOf
    <3>6. ASSUME NEW i \in RowsOf(q)'
          PROVE  \E j \in LatestRows(q)' : rows'[j].probe = rows'[i].probe
      <4>1. CASE i \in RowsOf(q)
        <5>1. PICK j \in LatestRows(q) : rows[j].probe = rows[i].probe
          BY <2>1, <4>1 DEF ProbesKept
        <5>2. CASE j = t /\ q = rows[f].run
          BY <3>3, <3>4, <3>5, <4>1, <5>1, <5>2
        <5>3. CASE ~(j = t /\ q = rows[f].run)
          BY <3>3, <3>4, <3>5, <4>1, <5>1, <5>3
        <5>4. QED
          BY <5>2, <5>3
      <4>2. CASE i = f /\ q = rows[f].run
        BY <3>3, <4>2
      <4>3. QED
        BY <3>3, <3>6, <4>1, <4>2
    <3>7. QED
      BY <3>6 DEF ProbesKept
  <2>5. QED
    BY <1>2, <2>2, <2>3, <2>4, TableSteps
<1>3. QED
  BY <1>1, <1>2, StoreInvariant, PTL DEF Spec

(***************************************************************************)
(* Corrections one at a time, each carrying the run id of the row it       *)
(* corrects: what "the current value has one answer" needs and supersede() *)
(* does not enforce.                                                       *)
(***************************************************************************)
OneAtATime == \A c, d \in Correctors : ForeignRuns = {} /\ c = d

CorrectionsInRun ==
  /\ \A i \in db : rows[i].supersedes # NoId => rows[rows[i].supersedes].run = rows[i].run
  /\ \A c \in Correctors : InFlight(c) => rows[fix[c]].run = rows[target[c]].run

CheckedIsCurrent == \A c \in Correctors : corPc[c] = "checked" => ~IsSuperseded(target[c])

\* Nothing of a run is in the table before append_many, and it built one row per probe.
RunsAppendOnce ==
  /\ \A r \in Runs : runPc[r] \in {"judged", "built"} => RowsOf(r) = {}
  /\ \A r \in Runs : \A i, j \in batch[r] : rows[i].probe = rows[j].probe => i = j

SerialInv == CorrectionsInRun /\ CheckedIsCurrent /\ RunsAppendOnce /\ NoFork /\ OneCurrentRow

\* A run appends one row per probe, once, and so keeps the serial invariant.
LEMMA SerialRun ==
  ASSUME StoreInv, SerialInv, NEW r \in Runs, RunStep(r)
  PROVE  SerialInv'
<1> USE DEF SerialInv, StoreInv
<1>0. \A c \in Correctors : InFlight(c) =>
        fix[c] \in 1..(nextId - 1) /\ target[c] \in 1..(nextId - 1) /\ fix[c] \notin batch[r]
  BY DEF CorrectionsInFlight, OneOwner, TypeOK
<1>1. CASE BuildRows(r)
  <2>1. PICK v \in [Probes -> Verdicts] :
          rows' = [i \in RowIds |->
                     IF i \in nextId..(nextId + NumProbes - 1)
                     THEN [run |-> r, probe |-> i - nextId + 1,
                           verdict |-> v[i - nextId + 1], supersedes |-> NoId]
                     ELSE rows[i]]
    BY <1>1 DEF BuildRows
  <2>2. \A i \in 1..(nextId - 1) : rows'[i] = rows[i]
    BY <2>1 DEF TypeOK
  <2>3. \A i \in nextId..(nextId + NumProbes - 1) : rows'[i].probe = i - nextId + 1
    <3>1. \A i \in nextId..(nextId + NumProbes - 1) : i \in RowIds
      BY <1>1 DEF BuildRows, TypeOK
    <3>2. QED
      BY <2>1, <3>1
  <2>4. /\ UNCHANGED <<db, corPc, target, fix>>
        /\ runPc' = [runPc EXCEPT ![r] = "built"] /\ runPc[r] = "judged"
        /\ batch' = [batch EXCEPT ![r] = nextId..(nextId + NumProbes - 1)]
    BY <1>1 DEF BuildRows, corVars
  <2>5. TableUntouched /\ db \subseteq 1..(nextId - 1)
    BY <2>2, <2>4 DEF TableUntouched, TypeOK
  <2>6. CorrectionsInRun'
    <3>1. db' = db /\ \A i \in db : rows'[i] = rows[i]
      BY <2>5 DEF TableUntouched
    <3>2. \A i \in db' : rows'[i].supersedes # NoId =>
            rows'[rows'[i].supersedes].run = rows'[i].run
      BY <3>1 DEF CorrectionsInRun, CorrectionsResolve
    <3>3. \A c \in Correctors : InFlight(c)' =>
            InFlight(c) /\ fix'[c] = fix[c] /\ target'[c] = target[c]
      BY <2>4 DEF InFlight
    <3>4. \A c \in Correctors : InFlight(c)' => rows'[fix'[c]].run = rows'[target'[c]].run
      BY <1>0, <2>2, <3>3 DEF CorrectionsInRun
    <3>5. QED
      BY <3>2, <3>4 DEF CorrectionsInRun
  <2>7. CheckedIsCurrent'
    BY <2>4, <2>5 DEF CheckedIsCurrent, IsSuperseded, TableUntouched
  <2>8. RunsAppendOnce'
    <3>1. \A q \in Runs : runPc'[q] \in {"judged", "built"} => RowsOf(q)' = {}
      BY <2>4, <2>5, ReadsUntouched DEF RunsAppendOnce, TypeOK
    <3>2. \A q \in Runs : q # r => batch'[q] = batch[q] /\ batch[q] \subseteq 1..(nextId - 1)
      BY <2>4 DEF TypeOK
    <3>3. batch'[r] = nextId..(nextId + NumProbes - 1) /\ nextId \in Int
      BY <2>4 DEF TypeOK
    <3>4. \A q \in Runs : \A i, j \in batch'[q] : rows'[i].probe = rows'[j].probe => i = j
      BY <2>2, <2>3, <3>2, <3>3 DEF RunsAppendOnce
    <3>5. QED
      BY <3>1, <3>4 DEF RunsAppendOnce
  <2>9. NoFork' /\ OneCurrentRow'
    <3>1. NoFork'
      BY <2>5 DEF NoFork, TableUntouched
    <3>2. \A q : LatestRows(q)' = LatestRows(q) /\ LatestRows(q) \subseteq db
      BY <2>5, ReadsUntouched DEF LatestRows, RowsOf
    <3>3. QED
      BY <2>5, <3>1, <3>2 DEF OneCurrentRow, TableUntouched
  <2>10. QED
    BY <2>6, <2>7, <2>8, <2>9
<1>2. CASE AppendMany(r)
  <2>1. /\ UNCHANGED <<rows, batch, corPc, target, fix>>
        /\ db' = db \cup batch[r]
        /\ runPc' = [runPc EXCEPT ![r] = "written"] /\ runPc[r] = "built"
    BY <1>2 DEF AppendMany, corVars
  <2>2. RowsAdded(r) /\ RowsOf(r) = {}
    BY <2>1 DEF RowsAdded, BatchesAreFresh, RunsAppendOnce
  <2>3. \A q : /\ RowsOf(q)' = RowsOf(q) \cup (IF q = r THEN batch[r] ELSE {})
                /\ LatestRows(q)' = LatestRows(q) \cup
                     (IF q = r THEN batch[r] \ Superseded(RowsOf(r)) ELSE {})
    BY <2>2, ReadsAdded
  <2>4. CorrectionsInRun' /\ CheckedIsCurrent'
    <3>1. CorrectionsInRun'
      BY <2>1, <2>2 DEF CorrectionsInRun, InFlight, RowsAdded
    <3>2. \A c \in Correctors : corPc[c] = "checked" => target[c] # NoId
      BY <1>0 DEF InFlight
    <3>3. CheckedIsCurrent'
      BY <2>1, <2>2, <3>2 DEF CheckedIsCurrent, IsSuperseded, RowsAdded
    <3>4. QED
      BY <3>1, <3>3
  <2>5. RunsAppendOnce'
    BY <2>1, <2>3 DEF RunsAppendOnce, TypeOK
  <2>6. NoFork'
    BY <2>1, <2>2 DEF NoFork, RowsAdded
  <2>7. OneCurrentRow'
    <3>1. LatestRows(r) = {}
      BY <2>2 DEF LatestRows
    <3>2. QED
      BY <2>1, <2>3, <3>1 DEF OneCurrentRow, RunsAppendOnce
  <2>8. QED
    BY <2>4, <2>5, <2>6, <2>7
<1>3. CASE ReconcileRows(r) \/ ReconcileLatest(r) \/ Crash(r)
  <2>1. /\ UNCHANGED <<rows, db, batch, corPc, target, fix>>
        /\ \A q \in Runs : runPc'[q] \in {"judged", "built"} => runPc[q] \in {"judged", "built"}
    BY <1>3 DEF ReconcileRows, ReconcileLatest, Crash, corVars, TypeOK
  <2>2. QED
    BY <2>1 DEF CorrectionsInRun, CheckedIsCurrent, RunsAppendOnce, NoFork, OneCurrentRow,
                InFlight, IsSuperseded, RowsOf, LatestRows, Superseded
<1>4. QED
  BY <1>1, <1>2, <1>3 DEF RunStep

\* A lone supersede() replaces one current row by one, and keeps the serial invariant.
LEMMA SerialSupersede ==
  ASSUME OneAtATime, StoreInv, SerialInv, NEW c \in Correctors, SupersedeStep(c)
  PROVE  SerialInv'
<1> USE DEF SerialInv, StoreInv
<1>0. /\ \A d \in Correctors : d = c
      /\ nextId \in Nat \ {0} /\ db \subseteq 1..(nextId - 1) /\ db \subseteq RowIds
      /\ \A r \in Runs : batch[r] \subseteq 1..(nextId - 1)
      /\ UNCHANGED <<runPc, batch>>
  BY DEF OneAtATime, TypeOK, SupersedeStep, SupersedeGet, SupersedeCheck, SupersedeAppend, runVars
<1>1. CASE SupersedeGet(c)
  <2>1. PICK o, x :
          /\ o \in db \cup {NoId} /\ x \in CorrectionsOf(o)
          /\ rows' = [rows EXCEPT ![nextId] = x]
          /\ o \in db => /\ corPc'  = [corPc EXCEPT ![c] = "got"]
                         /\ target' = [target EXCEPT ![c] = o]
                         /\ fix'    = [fix EXCEPT ![c] = nextId]
          /\ o \notin db => corPc' = [corPc EXCEPT ![c] = "refused"]
    BY <1>1 DEF SupersedeGet
  <2>2. nextId \in RowIds /\ db' = db
    BY <1>0, <1>1 DEF SupersedeGet
  <2>3. /\ \A i \in 1..(nextId - 1) : rows'[i] = rows[i]
        /\ rows'[nextId] = x
        /\ o \in db => x.run = rows[o].run
    BY <2>1, <2>2 DEF TypeOK, CorrectionsOf, OneAtATime
  <2>4. TableUntouched
    BY <1>0, <2>2, <2>3 DEF TableUntouched
  <2>5. InFlight(c)' => o \in db /\ target'[c] = o /\ fix'[c] = nextId /\ corPc'[c] = "got"
    BY <2>1 DEF InFlight, TypeOK
  <2>6. CorrectionsInRun'
    <3>1. db' = db /\ \A i \in db : rows'[i] = rows[i]
      BY <2>4 DEF TableUntouched
    <3>2. \A i \in db' : rows'[i].supersedes # NoId =>
            rows'[rows'[i].supersedes].run = rows'[i].run
      BY <3>1 DEF CorrectionsInRun, CorrectionsResolve
    <3>3. InFlight(c)' => rows'[fix'[c]].run = rows'[target'[c]].run
      BY <2>3, <2>5, <3>1
    <3>4. QED
      BY <1>0, <3>2, <3>3 DEF CorrectionsInRun
  <2>7. CheckedIsCurrent'
    <3>1. corPc'[c] # "checked"
      BY <2>1 DEF TypeOK
    <3>2. QED
      BY <1>0, <3>1 DEF CheckedIsCurrent
  <2>8. RunsAppendOnce'
    <3>1. \A q \in Runs : RowsOf(q)' = RowsOf(q)
      BY <2>4, ReadsUntouched
    <3>2. QED
      BY <1>0, <2>3, <3>1 DEF RunsAppendOnce
  <2>9. NoFork' /\ OneCurrentRow'
    <3>1. \A q : LatestRows(q)' = LatestRows(q) /\ LatestRows(q) \subseteq db
      BY <2>4, ReadsUntouched DEF LatestRows, RowsOf
    <3>2. QED
      BY <2>4, <3>1 DEF NoFork, OneCurrentRow, TableUntouched
  <2>10. QED
    BY <2>6, <2>7, <2>8, <2>9
<1>2. CASE SupersedeCheck(c)
  <2>1. UNCHANGED <<rows, db>>
    BY <1>2 DEF SupersedeCheck
  <2>2. /\ InFlight(c)' => InFlight(c) /\ target'[c] = target[c] /\ fix'[c] = fix[c]
        /\ corPc'[c] = "checked" => ~IsSuperseded(target[c])
    BY <1>2 DEF SupersedeCheck, InFlight, Acceptable, TypeOK
  <2>3. CorrectionsInRun'
    BY <1>0, <2>1, <2>2 DEF CorrectionsInRun
  <2>4. CheckedIsCurrent'
    <3>1. corPc'[c] = "checked" => InFlight(c)'
      BY DEF InFlight
    <3>2. QED
      BY <1>0, <2>1, <2>2, <3>1 DEF CheckedIsCurrent, IsSuperseded
  <2>5. RunsAppendOnce' /\ NoFork' /\ OneCurrentRow'
    <3>1. \A q : RowsOf(q)' = RowsOf(q) /\ LatestRows(q)' = LatestRows(q)
      BY <2>1 DEF RowsOf, LatestRows, Superseded
    <3>2. RunsAppendOnce'
      BY <1>0, <2>1, <3>1 DEF RunsAppendOnce
    <3>3. NoFork' /\ OneCurrentRow'
      BY <2>1, <3>1 DEF NoFork, OneCurrentRow
    <3>4. QED
      BY <3>2, <3>3
  <2>6. QED
    BY <2>3, <2>4, <2>5
<1>3. CASE SupersedeAppend(c)
  <2>1. PICK t, f : t = target[c] /\ f = fix[c]
    OBVIOUS
  <2>2. /\ f \in 1..(nextId - 1) /\ f \in RowIds /\ f \notin db /\ t \in db /\ t # NoId
        /\ rows[f].probe = rows[t].probe /\ rows[f].run = rows[t].run
        /\ ~IsSuperseded(t)
    BY <1>0, <1>3, <2>1 DEF SupersedeAppend, CorrectionsInFlight, InFlight, TypeOK, CorrectionsInRun,
                            CheckedIsCurrent
  <2>3. rows' = [rows EXCEPT ![f].supersedes = t] /\ db' = db \cup {f}
    BY <1>3, <2>1 DEF SupersedeAppend
  <2>4. /\ rows'[f].supersedes = t /\ rows'[f].run = rows[f].run
        /\ rows'[f].probe = rows[f].probe
        /\ \A i \in RowIds : i # f => rows'[i] = rows[i]
    <3>1. rows[f] \in Row
      BY <2>2 DEF TypeOK
    <3>2. rows'[f] = [rows[f] EXCEPT !.supersedes = t]
      BY <2>2, <2>3 DEF TypeOK
    <3>3. \A i \in RowIds : i # f => rows'[i] = rows[i]
      BY <2>3 DEF TypeOK
    <3>4. QED
      BY <3>1, <3>2, <3>3 DEF Row
  <2>5. CorrectionAdded(t, f)
    BY <1>0, <2>2, <2>3, <2>4 DEF CorrectionAdded
  <2>6. \A q : /\ RowsOf(q)' = RowsOf(q) \cup (IF q = rows[f].run THEN {f} ELSE {})
                /\ LatestRows(q)' = IF q = rows[f].run THEN (LatestRows(q) \ {t}) \cup {f}
                                                      ELSE LatestRows(q)
    BY <2>2, <2>5, ReadsCorrected
  <2>7. ~InFlight(c)' /\ corPc'[c] # "checked"
    BY <1>3 DEF SupersedeAppend, InFlight, TypeOK
  <2>8. CorrectionsInRun'
    BY <1>0, <2>2, <2>3, <2>4, <2>7 DEF CorrectionsInRun, CorrectionsResolve
  <2>9. CheckedIsCurrent'
    BY <1>0, <2>7 DEF CheckedIsCurrent
  <2>10. RunsAppendOnce'
    <3>1. \A q \in Runs : RowsOf(q) = {} => q # rows[f].run
      BY <2>2 DEF RowsOf
    <3>2. \A q \in Runs : f \notin batch[q] /\ batch[q] \subseteq RowIds
      BY <1>3, <2>1 DEF OneOwner, InFlight, SupersedeAppend, TypeOK
    <3>3. QED
      BY <1>0, <2>4, <2>6, <3>1, <3>2 DEF RunsAppendOnce
  <2>11. NoFork'
    BY <1>0, <2>2, <2>3, <2>4 DEF NoFork, IsSuperseded
  <2>12. OneCurrentRow'
    <3>1. t \in LatestRows(rows[f].run)
      BY <2>2 DEF LatestRows, RowsOf, Superseded, IsSuperseded
    <3>2. SUFFICES ASSUME NEW q \in Runs, NEW i \in LatestRows(q)', NEW j \in LatestRows(q)',
                          rows'[i].probe = rows'[j].probe
                   PROVE  i = j
      BY DEF OneCurrentRow
    <3>3. LatestRows(q) \subseteq db /\ db \subseteq RowIds
      BY <1>0 DEF LatestRows, RowsOf
    <3>4. CASE q # rows[f].run
      BY <2>2, <2>4, <2>6, <3>2, <3>3, <3>4 DEF OneCurrentRow
    <3>5. CASE q = rows[f].run
      <4>1. \A k \in LatestRows(q) \ {t} : rows'[k].probe # rows'[f].probe
        BY <2>2, <2>4, <3>1, <3>3, <3>5 DEF OneCurrentRow
      <4>2. \A k, l \in LatestRows(q) : rows'[k].probe = rows'[l].probe => k = l
        BY <2>2, <2>4, <3>3 DEF OneCurrentRow
      <4>3. QED
        BY <2>6, <3>2, <3>5, <4>1, <4>2
    <3>6. QED
      BY <3>4, <3>5
  <2>13. QED
    BY <2>8, <2>9, <2>10, <2>11, <2>12
<1>4. QED
  BY <1>1, <1>2, <1>3 DEF SupersedeStep

\* The serial invariant holds in every state, checks and crashes included.
LEMMA SerialInvariant ==
  ASSUME OneAtATime
  PROVE  Spec => [](StoreInv /\ SerialInv)
<1>1. Init => SerialInv
  BY DEF Init, SerialInv, CorrectionsInRun, CheckedIsCurrent, RunsAppendOnce, NoFork, OneCurrentRow,
         InFlight, RowsOf, LatestRows
<1>2. StoreInv /\ SerialInv /\ [Next]_vars => SerialInv'
  <2>1. ASSUME StoreInv, SerialInv, NEW g \in Gates, CheckStep(g)
        PROVE  SerialInv'
    <3>1. UNCHANGED <<rows, nextId, db, runVars, corVars>>
      BY <2>1 DEF CheckStep, GateUninitialised, GateEmpty, GateChoose, GateFind, GatePrevious,
                  GatePreviousCount, GateCount, GateDecide, GateStep
    <3>2. QED
      BY <2>1, <3>1 DEF SerialInv, CorrectionsInRun, CheckedIsCurrent, RunsAppendOnce, NoFork,
             OneCurrentRow, InFlight, IsSuperseded, RowsOf, LatestRows, Superseded, runVars, corVars
  <2>2. ASSUME SerialInv, UNCHANGED vars
        PROVE  SerialInv'
    BY <2>2 DEF SerialInv, CorrectionsInRun, CheckedIsCurrent, RunsAppendOnce, NoFork, OneCurrentRow,
                InFlight, IsSuperseded, RowsOf, LatestRows, Superseded, vars, runVars, corVars
  <2>3. QED
    BY <2>1, <2>2, SerialRun, SerialSupersede, OneAtATime DEF Next
<1>3. QED
  BY <1>1, <1>2, StoreInvariant, PTL DEF Spec

\* Corrected one at a time and within its run, a row has one successor, a
\* corrected row leaves the headline, and every probe counts once - for any number
\* of runs, crashes and checks going on meanwhile.
THEOREM OneAnswerPerProbe ==
  ASSUME OneAtATime
  PROVE  Spec => []OneAnswer
<1>1. StoreInv /\ SerialInv => OneAnswer
  BY DEF StoreInv, SerialInv, CorrectionsInRun, CorrectionsResolve, CorrectionTakesEffect,
         OneAnswer, LatestRows, RowsOf, Superseded
<1>2. QED
  BY <1>1, SerialInvariant, OneAtATime, PTL

(***************************************************************************)
(* The table is append-only.                                               *)
(***************************************************************************)
AppendOnly == db \subseteq db' /\ \A i \in db : rows'[i] = rows[i]

\* A committed row is neither changed nor removed by any step.
LEMMA TableGrows ==
  ASSUME StoreInv, [Next]_vars
  PROVE  AppendOnly
BY TableSteps DEF TableUntouched, RowsAdded, CorrectionAdded, AppendOnly

\* DESIGN.md 1.6, "append-only": supersede() sets supersedes_id on a row, but
\* only on the caller's copy; whatever processes interleave, a row once committed
\* stays in the table and reads as it was written.
THEOREM StoreIsAppendOnly == Spec => [][AppendOnly]_vars
<1>1. StoreInv /\ [Next]_vars => [AppendOnly]_vars
  BY TableGrows
<1>2. QED
  BY <1>1, StoreInvariant, PTL DEF Spec

(***************************************************************************)
(* Reconciliation: a run that has written its rows has one current row per *)
(* probe, at each of reconcile()'s two reads.                              *)
(***************************************************************************)
Covered(S) == \A p \in Probes : \E i \in S : rows[i].probe = p

RunsComplete ==
  \A r \in Runs : /\ runPc[r] = "built" => Covered(batch[r])
                  /\ runPc[r] \in {"written", "counted", "reconciled"} => Covered(RowsOf(r))

TallyInv == \A r \in Runs : runPc[r] = "counted" => tally[r] >= NumProbes

\* The current rows of a run that covers its probes are as many as the probes.
LEMMA CurrentRowsCount ==
  ASSUME StoreInv, NoProbeLost, OneCurrentRow, NEW r \in Runs, Covered(RowsOf(r))
  PROVE  Cardinality(LatestRows(r)) = NumProbes
<1> DEFINE probeOf == [i \in LatestRows(r) |-> rows[i].probe]
<1>1. LatestRows(r) \subseteq db /\ IsFiniteSet(LatestRows(r))
  BY ReadTypes, FS_Subset DEF StoreInv
<1>2. probeOf \in [LatestRows(r) -> Probes]
  BY <1>1 DEF StoreInv, TypeOK, Row
<1>3. \A i, j \in LatestRows(r) : probeOf[i] = probeOf[j] => i = j
  BY DEF OneCurrentRow
<1>4. \A p \in Probes : \E j \in LatestRows(r) : probeOf[j] = p
  <2>1. SUFFICES ASSUME NEW p \in Probes PROVE \E j \in LatestRows(r) : rows[j].probe = p
    OBVIOUS
  <2>2. PICK i \in RowsOf(r) : rows[i].probe = p
    BY DEF Covered
  <2>3. i \in db /\ rows[i].run = r
    BY <2>2 DEF RowsOf
  <2>4. QED
    BY <2>2, <2>3 DEF NoProbeLost
<1>5. probeOf \in Bijection(LatestRows(r), Probes)
  <2> HIDE DEF probeOf
  <2>1. probeOf \in Injection(LatestRows(r), Probes)
    BY <1>2, <1>3 DEF Injection, IsInjective
  <2>2. probeOf \in Surjection(LatestRows(r), Probes)
    BY <1>2, <1>4 DEF Surjection
  <2>3. QED
    BY <2>1, <2>2 DEF Bijection
<1>6. Cardinality(Probes) = Cardinality(LatestRows(r))
  BY <1>1, <1>5, FS_Bijection DEF ExistsBijection
<1>7. Cardinality(Probes) = NumProbes
  BY FS_Interval
<1>8. QED
  BY <1>6, <1>7

\* While no run steps, what a run has built stays as built: supersede() writes
\* only rows of its own.
LEMMA BatchesUntouched ==
  ASSUME StoreInv, [Next]_vars, UNCHANGED runVars
  PROVE  \A q \in Runs : \A i \in batch[q] : rows'[i] = rows[i]
<1> USE DEF StoreInv
<1>1. \A q \in Runs : \A i \in batch[q] : i \in 1..(nextId - 1) /\ i \in RowIds /\ i # nextId
  BY DEF TypeOK
<1>2. ASSUME NEW r \in Runs, RunStep(r)
      PROVE  rows' = rows
  BY <1>2 DEF RunStep, BuildRows, AppendMany, ReconcileRows, ReconcileLatest, Crash, runVars, TypeOK
<1>3. ASSUME NEW c \in Correctors, SupersedeStep(c)
      PROVE  \A q \in Runs : \A i \in batch[q] : rows'[i] = rows[i]
  <2>1. CASE SupersedeGet(c)
    <3>1. \E x : rows' = [rows EXCEPT ![nextId] = x]
      BY <2>1 DEF SupersedeGet
    <3>2. QED
      BY <1>1, <3>1 DEF TypeOK
  <2>2. CASE SupersedeCheck(c)
    BY <2>2 DEF SupersedeCheck
  <2>3. CASE SupersedeAppend(c)
    <3>1. \A q \in Runs : fix[c] \notin batch[q]
      BY <2>3 DEF SupersedeAppend, OneOwner, InFlight
    <3>2. rows' = [rows EXCEPT ![fix[c]].supersedes = target[c]]
      BY <2>3 DEF SupersedeAppend
    <3>3. QED
      BY <1>1, <3>1, <3>2 DEF TypeOK
  <2>4. QED
    BY <1>3, <2>1, <2>2, <2>3 DEF SupersedeStep
<1>4. ASSUME NEW g \in Gates, CheckStep(g)
      PROVE  rows' = rows
  BY <1>4 DEF CheckStep, GateUninitialised, GateEmpty, GateChoose, GateFind, GatePrevious,
              GatePreviousCount, GateCount, GateDecide, GateStep
<1>5. QED
  BY <1>2, <1>3, <1>4 DEF Next, vars

RunInv == RunsComplete /\ TallyInv /\ ReconcileCounts

\* What a run has written covers its probes, and so does what reconcile() counts.
LEMMA RunInvariant ==
  ASSUME OneAtATime
  PROVE  Spec => []RunInv
<1> DEFINE Inv == StoreInv /\ OneCurrentRow /\ NoProbeLost
<1> USE DEF RunInv
<1>1. Init => RunInv
  BY DEF Init, RunsComplete, TallyInv, ReconcileCounts
<1>2. ASSUME Inv, RunInv, NEW r \in Runs, RunStep(r)
      PROVE  RunInv'
  <2>0. /\ AppendOnly
        /\ \A q \in Runs : q # r => runPc'[q] = runPc[q] /\ batch'[q] = batch[q]
                                    /\ tally'[q] = tally[q] /\ recon'[q] = recon[q]
        /\ \A q \in Runs : batch[q] \subseteq 1..(nextId - 1)
        /\ \A i \in 1..(nextId - 1) : rows'[i] = rows[i]
    <3>1. AppendOnly
      BY <1>2, TableGrows DEF Next
    <3>2. QED
      BY <1>2, <3>1 DEF RunStep, BuildRows, AppendMany, ReconcileRows, ReconcileLatest, Crash, StoreInv, TypeOK
  <2>1. \A q : RowsOf(q) \subseteq RowsOf(q)' /\ RowsOf(q) \subseteq db
    BY <2>0 DEF RowsOf, AppendOnly
  <2>2. \A q : Covered(RowsOf(q)) => Covered(RowsOf(q))'
    BY <2>0, <2>1 DEF Covered, AppendOnly
  <2>3. \A q \in Runs : Covered(batch[q]) /\ batch'[q] = batch[q] => Covered(batch[q])'
    BY <2>0 DEF Covered
  <2>4. \A q \in Runs : q # r =>
          /\ runPc'[q] = "built" => Covered(batch[q])'
          /\ runPc'[q] \in {"written", "counted", "reconciled"} => Covered(RowsOf(q))'
          /\ runPc'[q] = "counted" => tally'[q] >= NumProbes
          /\ runPc'[q] = "reconciled" =>
               recon'[q].attempted = NumProbes /\ recon'[q].superseded >= 0
    BY <1>2, <2>0, <2>2, <2>3 DEF RunsComplete, TallyInv, ReconcileCounts
  <2>5. SUFFICES
          /\ runPc'[r] = "built" => Covered(batch[r])'
          /\ runPc'[r] \in {"written", "counted", "reconciled"} => Covered(RowsOf(r))'
          /\ runPc'[r] = "counted" => tally'[r] >= NumProbes
          /\ runPc'[r] = "reconciled" =>
               recon'[r].attempted = NumProbes /\ recon'[r].superseded >= 0
    BY <2>4 DEF RunsComplete, TallyInv, ReconcileCounts
  <2>6. CASE BuildRows(r)
    <3>1. PICK v \in [Probes -> Verdicts] :
            rows' = [i \in RowIds |->
                       IF i \in nextId..(nextId + NumProbes - 1)
                       THEN [run |-> r, probe |-> i - nextId + 1,
                             verdict |-> v[i - nextId + 1], supersedes |-> NoId]
                       ELSE rows[i]]
      BY <2>6 DEF BuildRows
    <3>2. /\ nextId \in Nat \ {0} /\ nextId + NumProbes - 1 <= MaxRowId
          /\ runPc'[r] = "built" /\ batch'[r] = nextId..(nextId + NumProbes - 1)
      BY <1>2, <2>6 DEF BuildRows, StoreInv, TypeOK
    <3>3. \A p \in Probes : nextId + p - 1 \in batch'[r] /\ rows'[nextId + p - 1].probe = p
      BY <3>1, <3>2
    <3>4. Covered(batch[r])'
      BY <3>3 DEF Covered
    <3>5. QED
      BY <3>2, <3>4
  <2>7. CASE AppendMany(r)
    <3>1. /\ runPc[r] = "built" /\ runPc'[r] = "written"
          /\ rows' = rows /\ db' = db \cup batch[r]
      BY <1>2, <2>7 DEF AppendMany, StoreInv, TypeOK
    <3>2. batch[r] \subseteq RowsOf(r)'
      BY <1>2, <3>1 DEF StoreInv, BatchesAreFresh, RowsOf
    <3>3. Covered(batch[r])
      BY <1>2, <3>1 DEF RunsComplete
    <3>4. Covered(RowsOf(r))'
      BY <3>1, <3>2, <3>3 DEF Covered
    <3>5. QED
      BY <3>1, <3>4
  <2>8. CASE ReconcileRows(r)
    <3>1. /\ runPc[r] = "written" /\ runPc'[r] = "counted"
          /\ tally'[r] = Cardinality(RowsOf(r))
      BY <1>2, <2>8 DEF ReconcileRows, StoreInv, TypeOK
    <3>2. Covered(RowsOf(r))
      BY <1>2, <3>1 DEF RunsComplete
    <3>3. Cardinality(LatestRows(r)) <= Cardinality(RowsOf(r)) /\ Cardinality(RowsOf(r)) \in Nat
      <4>1. IsFiniteSet(db)
        BY <1>2, ReadTypes DEF StoreInv
      <4>2. RowsOf(r) \subseteq db /\ LatestRows(r) \subseteq RowsOf(r)
        BY DEF RowsOf, LatestRows
      <4>3. QED
        BY <4>1, <4>2, FS_Subset, FS_CardinalityType
    <3>4. Cardinality(LatestRows(r)) = NumProbes
      BY <1>2, <3>2, CurrentRowsCount
    <3>5. QED
      BY <2>2, <3>1, <3>2, <3>3, <3>4
  <2>9. CASE ReconcileLatest(r)
    <3>1. /\ runPc[r] = "counted" /\ runPc'[r] = "reconciled" /\ tally[r] \in Nat
          /\ recon'[r].attempted = Cardinality(LatestRows(r))
          /\ recon'[r].superseded = tally[r] - Cardinality(LatestRows(r))
      BY <1>2, <2>9 DEF ReconcileLatest, StoreInv, TypeOK
    <3>2. Covered(RowsOf(r)) /\ tally[r] >= NumProbes
      BY <1>2, <3>1 DEF RunsComplete, TallyInv
    <3>3. Cardinality(LatestRows(r)) = NumProbes
      BY <1>2, <3>2, CurrentRowsCount
    <3>4. QED
      BY <2>2, <3>1, <3>2, <3>3
  <2>10. CASE Crash(r)
    <3>1. runPc'[r] = "crashed"
      BY <1>2, <2>10 DEF Crash, StoreInv, TypeOK
    <3>2. QED
      BY <3>1
  <2>11. QED
    BY <1>2, <2>6, <2>7, <2>8, <2>9, <2>10 DEF RunStep
<1>3. ASSUME Inv, RunInv, [Next]_vars, UNCHANGED runVars
      PROVE  RunInv'
  <2>1. AppendOnly /\ \A q \in Runs : batch[q] \subseteq 1..(nextId - 1)
    BY <1>3, TableGrows DEF StoreInv, TypeOK
  <2>2. \A q : RowsOf(q) \subseteq RowsOf(q)' /\ RowsOf(q) \subseteq db
    BY <2>1 DEF RowsOf, AppendOnly
  <2>3. \A q : Covered(RowsOf(q)) => Covered(RowsOf(q))'
    BY <2>1, <2>2 DEF Covered, AppendOnly
  <2>4. \A q \in Runs : \A i \in batch[q] : rows'[i] = rows[i]
    BY <1>3, BatchesUntouched DEF StoreInv
  <2>5. \A q \in Runs : Covered(batch[q]) => Covered(batch[q])'
    BY <1>3, <2>4 DEF Covered, runVars
  <2>6. QED
    BY <1>3, <2>3, <2>5 DEF RunsComplete, TallyInv, ReconcileCounts, runVars
<1>4. Inv /\ RunInv /\ [Next]_vars => RunInv'
  <2>1. ASSUME [Next]_vars
        PROVE  (\E r \in Runs : RunStep(r)) \/ UNCHANGED runVars
    BY <2>1 DEF Next, SupersedeStep, SupersedeGet, SupersedeCheck, SupersedeAppend, CheckStep,
                GateUninitialised, GateEmpty, GateChoose, GateFind, GatePrevious,
                GatePreviousCount, GateCount, GateDecide, GateStep, vars
  <2>2. QED
    BY <1>2, <1>3, <2>1
<1>5. StoreInv /\ SerialInv /\ NoProbeLost => Inv
  BY DEF SerialInv
<1>6. QED
  BY <1>1, <1>4, <1>5, SerialInvariant, OneAtATime, NoProbeIsLost, PTL DEF Spec

\* reconcile() counts each probe once, and its two reads never disagree so as to
\* make the number of superseded rows negative, with corrections in between.
THEOREM ReconciliationCounts ==
  ASSUME OneAtATime
  PROVE  Spec => []ReconcileCounts
<1>1. RunInv => ReconcileCounts
  BY DEF RunInv
<1>2. QED
  BY <1>1, RunInvariant, OneAtATime, PTL

(***************************************************************************)
(* The gate against runs being written. Its reads are sessions of their    *)
(* own, so what it decides stands only if the rows of a run it has found   *)
(* do not change any more: append_many puts them in the table at once.     *)
(***************************************************************************)
\* What a step of the gate leaves alone: the table, hence every read, and the
\* other gates.
LEMMA GateReadsOnly ==
  ASSUME TypeOK, NEW g \in Gates, CheckStep(g)
  PROVE  /\ UNCHANGED <<rows, db>>
         /\ RunsPresent' = RunsPresent
         /\ \A q : OverPromises(q)' = OverPromises(q)
         /\ \A h \in Gates : h # g => gatePc'[h] = gatePc[h] /\ gate'[h] = gate[h]
<1>1. UNCHANGED <<rows, db>>
  BY DEF CheckStep, GateUninitialised, GateEmpty, GateChoose, GateFind, GatePrevious,
         GatePreviousCount, GateCount, GateDecide, GateStep
<1>2. \A h \in Gates : h # g => gatePc'[h] = gatePc[h] /\ gate'[h] = gate[h]
  BY DEF CheckStep, GateUninitialised, GateEmpty, GateChoose, GateFind, GatePrevious,
         GatePreviousCount, GateCount, GateDecide, GateStep, TypeOK
<1>3. QED
  BY <1>1, <1>2 DEF RunsPresent, OverPromises, LatestRows, RowsOf, Superseded

Found == {"baseline", "previous", "resolved", "counted", "pass", "fail"}

(***************************************************************************)
(* A verdict of the gate, while nobody corrects rows.                      *)
(***************************************************************************)
NobodyCorrects == Correctors = {}

\* The over-promises of a run in the table are what they were: it appended its
\* rows in one transaction, and it appends once.
LEMMA FoundRunsStand ==
  ASSUME NobodyCorrects, StoreInv, SerialInv, [Next]_vars, NEW q \in RunsPresent
  PROVE  OverPromises(q)' = OverPromises(q)
<1>1. RowsOf(q)' = RowsOf(q) /\ LatestRows(q)' = LatestRows(q)
  <2>1. CASE TableUntouched
    BY <2>1, ReadsUntouched
  <2>2. ASSUME NEW s \in Runs, AppendMany(s), RowsAdded(s)
        PROVE  RowsOf(q)' = RowsOf(q) /\ LatestRows(q)' = LatestRows(q)
    <3>1. q # s
      BY <2>2 DEF SerialInv, RunsAppendOnce, AppendMany, RunsPresent, RowsOf
    <3>2. QED
      BY <2>2, <3>1, OtherRunsUntouched
  <2>3. QED
    BY <2>1, <2>2, TableSteps DEF NobodyCorrects
<1>2. \A i \in LatestRows(q) : rows'[i] = rows[i]
  BY TableGrows DEF AppendOnly, LatestRows, RowsOf
<1>3. QED
  BY <1>1, <1>2 DEF OverPromises

Resolved == {"resolved", "counted", "pass", "fail"}

VerdictInv ==
  \A g \in Gates :
    /\ gatePc[g] \in Found => gate[g].run \in RunsPresent
    /\ gatePc[g] \in {"counted", "pass", "fail"} =>
         gate[g].count = Cardinality(OverPromises(gate[g].run))
    /\ gatePc[g] = "pass" => gate[g].count <= gate[g].threshold
    /\ gatePc[g] = "fail" => gate[g].count > gate[g].threshold /\ gate[g].named = gate[g].count
    /\ gatePc[g] = "previous" => gate[g].prev \in RunsPresent
    /\ gatePc[g] \in Resolved /\ gate[g].baseline =>
         /\ gate[g].prev \in RunsPresent
         /\ gate[g].threshold = Cardinality(OverPromises(gate[g].prev))

\* The gate counts, compares and names the same rows.
LEMMA VerdictGate ==
  ASSUME StoreInv, VerdictInv, NEW g \in Gates, CheckStep(g)
  PROVE  VerdictInv'
<1> USE DEF StoreInv
<1>1. /\ RunsPresent' = RunsPresent
      /\ \A q : OverPromises(q)' = OverPromises(q)
      /\ \A h \in Gates : h # g => gatePc'[h] = gatePc[h] /\ gate'[h] = gate[h]
  BY GateReadsOnly
<1>2. SUFFICES
        /\ gatePc'[g] \in Found => gate'[g].run \in RunsPresent
        /\ gatePc'[g] \in {"counted", "pass", "fail"} =>
             gate'[g].count = Cardinality(OverPromises(gate'[g].run))
        /\ gatePc'[g] = "pass" => gate'[g].count <= gate'[g].threshold
        /\ gatePc'[g] = "fail" =>
             gate'[g].count > gate'[g].threshold /\ gate'[g].named = gate'[g].count
        /\ gatePc'[g] = "previous" => gate'[g].prev \in RunsPresent
        /\ gatePc'[g] \in Resolved /\ gate'[g].baseline =>
             /\ gate'[g].prev \in RunsPresent
             /\ gate'[g].threshold = Cardinality(OverPromises(gate'[g].prev))
  BY <1>1 DEF VerdictInv
<1>3. gatePc = [h \in Gates |-> gatePc[h]] /\ gate \in [Gates -> GateState] /\ gate[g] \in GateState
  BY DEF TypeOK
<1>4. CASE GateUninitialised(g) \/ GateEmpty(g) \/ GateChoose(g)
  BY <1>3, <1>4 DEF GateUninitialised, GateEmpty, GateChoose, GateStep, Found, Resolved
<1>5. CASE GateFind(g)
  BY <1>3, <1>5 DEF GateFind, GateStep, Found, Resolved
<1>6. CASE GatePrevious(g)
  <2>1. CASE Cardinality(RunsPresent) < 2
    <3>1. gatePc'[g] = "gate_error"
      BY <1>3, <1>6, <2>1 DEF GatePrevious, GateStep
    <3>2. QED
      BY <3>1 DEF Found, Resolved
  <2>2. CASE ~(Cardinality(RunsPresent) < 2)
    <3>1. PICK q \in RunsPresent : gate' = [gate EXCEPT ![g].prev = q]
      BY <1>6, <2>2 DEF GatePrevious
    <3>2. gate'[g].prev = q /\ gate'[g].run = gate[g].run
      BY <1>3, <3>1 DEF GateState
    <3>3. gatePc[g] = "baseline" /\ gatePc'[g] = "previous"
      BY <1>3, <1>6, <2>2 DEF GatePrevious, GateStep
    <3>4. QED
      BY <3>2, <3>3 DEF VerdictInv, Found, Resolved
  <2>3. QED
    BY <2>1, <2>2
<1>7. CASE GatePreviousCount(g)
  <2>1. /\ gate'[g].run = gate[g].run /\ gate'[g].prev = gate[g].prev
        /\ gate'[g].threshold = Cardinality(OverPromises(gate[g].prev))
    BY <1>3, <1>7 DEF GatePreviousCount, GateState
  <2>2. gatePc[g] = "previous" /\ gatePc'[g] = "resolved"
    BY <1>3, <1>7 DEF GatePreviousCount, GateStep
  <2>3. QED
    BY <2>1, <2>2 DEF VerdictInv, Found, Resolved
<1>8. CASE GateCount(g)
  <2>1. /\ gate'[g].run = gate[g].run /\ gate'[g].count = Cardinality(OverPromises(gate[g].run))
        /\ gate'[g].prev = gate[g].prev /\ gate'[g].threshold = gate[g].threshold
        /\ gate'[g].baseline = gate[g].baseline
    BY <1>3, <1>8 DEF GateCount, GateState
  <2>2. gatePc[g] = "resolved" /\ gatePc'[g] = "counted"
    BY <1>3, <1>8 DEF GateCount, GateStep
  <2>3. QED
    BY <2>1, <2>2 DEF VerdictInv, Found, Resolved
<1>9. CASE GateDecide(g)
  <2>1. /\ gate'[g].run = gate[g].run /\ gate'[g].count = gate[g].count
        /\ gate'[g].threshold = gate[g].threshold
        /\ gate'[g].named = Cardinality(OverPromises(gate[g].run))
        /\ gate[g].count \in Nat /\ gate[g].threshold \in Int
        /\ gate'[g].prev = gate[g].prev /\ gate'[g].baseline = gate[g].baseline
    BY <1>3, <1>9 DEF GateDecide, GateState
  <2>2. /\ gatePc[g] = "counted"
        /\ gatePc'[g] = IF gate[g].count <= gate[g].threshold THEN "pass" ELSE "fail"
    BY <1>3, <1>9 DEF GateDecide, GateStep
  <2>3. QED
    BY <2>1, <2>2 DEF VerdictInv, Found, Resolved
<1>10. QED
  BY <1>4, <1>5, <1>6, <1>7, <1>8, <1>9 DEF CheckStep

\* While nobody corrects rows, the verdict of the gate stays true of the store,
\* whatever runs start, write, crash and finish during and after the check.
THEOREM VerdictsStand ==
  ASSUME NobodyCorrects
  PROVE  Spec => []VerdictStands
<1>1. Init => VerdictInv
  BY DEF Init, VerdictInv, Found, Resolved
<1>2. ASSUME StoreInv, SerialInv, VerdictInv, [Next]_vars, UNCHANGED gateVars
      PROVE  VerdictInv'
  <2>1. \A q \in RunsPresent : OverPromises(q)' = OverPromises(q)
    BY <1>2, FoundRunsStand, NobodyCorrects
  <2>2. \A q \in RunsPresent : q \in RunsPresent'
    BY <1>2, TableGrows DEF AppendOnly, RunsPresent
  <2>3. \A g \in Gates : gatePc[g] \in {"counted", "pass", "fail"} => gatePc[g] \in Found
    BY DEF Found
  <2>4. QED
    BY <1>2, <2>1, <2>2, <2>3 DEF VerdictInv, gateVars
<1>3. StoreInv /\ SerialInv /\ VerdictInv /\ [Next]_vars => VerdictInv'
  <2>1. ASSUME [Next]_vars
        PROVE  (\E g \in Gates : CheckStep(g)) \/ UNCHANGED gateVars
    BY <2>1 DEF Next, RunStep, BuildRows, AppendMany, ReconcileRows, ReconcileLatest, Crash,
                SupersedeStep, SupersedeGet, SupersedeCheck, SupersedeAppend, vars
  <2>2. QED
    BY <1>2, <2>1, VerdictGate
<1>4. VerdictInv => VerdictStands
  BY DEF VerdictInv, VerdictStands, Resolved
<1>5. OneAtATime
  BY NobodyCorrects DEF NobodyCorrects, OneAtATime
<1>6. QED
  BY <1>1, <1>3, <1>4, <1>5, SerialInvariant, PTL DEF Spec

(***************************************************************************)
(* The store implements the ledger.                                        *)
(***************************************************************************)
\* While a probe has one current row, a run reports that row's verdict for it.
ReportsItsRow ==
  OneCurrentRow =>
    \A r \in Runs, p \in Probes :
      /\ \A i \in LatestRows(r) : rows[i].probe = p => Current[r][p] = rows[i].verdict
      /\ (\A i \in LatestRows(r) : rows[i].probe # p) => Current[r][p] = "unknown"

\* The reported verdict is the current row's, in this state and in the next.
LEMMA CurrentVerdict == ReportsItsRow
<1>1. SUFFICES ASSUME OneCurrentRow, NEW r \in Runs, NEW p \in Probes
               PROVE  /\ \A i \in LatestRows(r) :
                           rows[i].probe = p => Current[r][p] = rows[i].verdict
                      /\ (\A i \in LatestRows(r) : rows[i].probe # p) => Current[r][p] = "unknown"
  BY DEF ReportsItsRow
<1> DEFINE about == {i \in LatestRows(r) : rows[i].probe = p}
<1>2. Current[r][p] = IF about = {} THEN "unknown"
                      ELSE IF Cardinality(about) = 1 THEN rows[CHOOSE i \in about : TRUE].verdict
                      ELSE "several"
  BY DEF Current
<1>3. ASSUME NEW i \in about
      PROVE  Current[r][p] = rows[i].verdict
  <2>1. about = {i}
    BY <1>1, <1>3 DEF OneCurrentRow
  <2>2. Cardinality({i}) = 1
    BY FS_Singleton
  <2>3. (CHOOSE k \in {i} : TRUE) = i
    OBVIOUS
  <2>4. QED
    BY <1>2, <2>1, <2>2, <2>3
<1>4. QED
  BY <1>2, <1>3

\* Verdicts are reported run by run, for each probe.
LEMMA CurrentIsAFunction ==
  /\ Current = [r \in Runs |-> Current[r]]
  /\ \A r \in Runs : Current[r] = [p \in Probes |-> Current[r][p]]
BY DEF Current

\* A step that leaves the current rows of a run alone leaves its verdicts alone.
LEMMA CurrentUntouched ==
  ASSUME AppendOnly, OneCurrentRow, OneCurrentRow', NEW r \in Runs, LatestRows(r)' = LatestRows(r)
  PROVE  Current'[r] = Current[r]
<1>1. \A i \in LatestRows(r) : rows'[i] = rows[i]
  BY DEF AppendOnly, LatestRows, RowsOf
<1>2. ReportsItsRow /\ ReportsItsRow'
  BY CurrentVerdict, PTL
<1>3. ASSUME NEW p \in Probes
      PROVE  Current'[r][p] = Current[r][p]
  <2>1. CASE \E i \in LatestRows(r) : rows[i].probe = p
    <3>1. PICK i \in LatestRows(r) : rows[i].probe = p
      BY <2>1
    <3>2. Current[r][p] = rows[i].verdict
      BY <1>2, <3>1 DEF ReportsItsRow
    <3>3. Current'[r][p] = rows'[i].verdict
      BY <1>1, <1>2, <3>1 DEF ReportsItsRow
    <3>4. QED
      BY <1>1, <3>2, <3>3
  <2>2. CASE \A i \in LatestRows(r) : rows[i].probe # p
    BY <1>1, <1>2, <2>2 DEF ReportsItsRow
  <2>3. QED
    BY <2>1, <2>2
<1>4. Current[r] = [p \in Probes |-> Current[r][p]]
  BY CurrentIsAFunction
<1>5. Current'[r] = [p \in Probes |-> Current'[r][p]]
  BY DEF Current
<1>6. QED
  BY <1>3, <1>4, <1>5

\* Appending a run's rows publishes its verdicts: it had none, and has one for
\* each probe afterwards.
LEMMA AppendPublishes ==
  ASSUME StoreInv, SerialInv, RunsComplete, NEW s \in Runs, AppendMany(s), SerialInv'
  PROVE  Ledger!Publish(s)
<1> USE DEF SerialInv
<1>1. RowsAdded(s) /\ RowsOf(s) = {} /\ rows' = rows /\ AppendOnly
  BY DEF StoreInv, BatchesAreFresh, RowsAdded, AppendMany, RunsAppendOnce, AppendOnly
<1>2. LatestRows(s) = {} /\ Superseded(RowsOf(s)) = {}
  BY <1>1 DEF LatestRows, Superseded
<1>3. LatestRows(s)' = LatestRows(s) \cup (batch[s] \ Superseded(RowsOf(s)))
  BY <1>1, ReadsAdded
<1>4. ReportsItsRow /\ ReportsItsRow'
  BY CurrentVerdict, PTL
<1>5. \A p \in Probes : Current[s][p] = "unknown"
  BY <1>2, <1>4 DEF ReportsItsRow
<1>6. ASSUME NEW q \in Runs, q # s
      PROVE  Current'[q] = Current[q]
  <2>1. LatestRows(q)' = LatestRows(q)
    BY <1>1, <1>6, OtherRunsUntouched
  <2>2. QED
    BY <1>1, <2>1, CurrentUntouched
<1>7. Current'[s] \in [Probes -> Verdicts]
  <2>1. ASSUME NEW p \in Probes
        PROVE  Current'[s][p] \in Verdicts
    <3>1. PICK i \in batch[s] : rows[i].probe = p
      BY DEF AppendMany, RunsComplete, Covered
    <3>2. rows[i] \in Row
      BY DEF StoreInv, TypeOK
    <3>3. i \in LatestRows(s)' /\ rows'[i].probe = p
      BY <1>1, <1>2, <1>3, <3>1
    <3>4. Current'[s][p] = rows'[i].verdict
      BY <1>4, <3>3 DEF ReportsItsRow
    <3>5. QED
      BY <1>1, <3>2, <3>4 DEF Row
  <2>2. Current'[s] = [p \in Probes |-> Current'[s][p]]
    BY DEF Current
  <2>3. QED
    BY <2>1, <2>2
<1>8. Current' = [Current EXCEPT ![s] = Current'[s]]
  <2>1. Current' = [r \in Runs |-> Current'[r]]
    BY DEF Current
  <2>2. QED
    BY <1>6, <2>1, CurrentIsAFunction
<1>9. QED
  BY <1>5, <1>7, <1>8 DEF Ledger!Publish

\* A correction replaces one verdict the run had reported, and no other.
LEMMA CorrectionCorrects ==
  ASSUME OneAtATime, "unknown" \notin Verdicts, StoreInv, SerialInv, SerialInv',
         NEW c \in Correctors, SupersedeAppend(c), CorrectionAdded(target[c], fix[c])
  PROVE  \E r \in Runs, p \in Probes : Ledger!Correct(r, p)
<1> USE DEF SerialInv
<1>1. PICK t, f : t = target[c] /\ f = fix[c]
  OBVIOUS
<1>2. /\ t \in db /\ t # NoId /\ f \notin db /\ f \in 1..(nextId - 1)
      /\ f \in RowIds /\ rows[f].run = rows[t].run /\ ~IsSuperseded(t)
  BY <1>1 DEF SupersedeAppend, InFlight, StoreInv, CorrectionsInFlight, TypeOK, CorrectionsInRun,
              CheckedIsCurrent
<1>3. rows[t] \in Row /\ rows[f] \in Row
  BY <1>2 DEF StoreInv, TypeOK
<1>4. PICK r, p : r = rows[t].run /\ p = rows[t].probe
  OBVIOUS
<1>5. r \in Runs /\ p \in Probes /\ rows[t].verdict \in Verdicts
  BY <1>3, <1>4 DEF Row, OneAtATime
<1>6. /\ rows'[f].run = r /\ rows'[f].probe = p /\ rows'[f].verdict \in Verdicts
      /\ AppendOnly
  <2>1. rows'[f] = [rows[f] EXCEPT !.supersedes = t]
    BY <1>1, <1>2 DEF SupersedeAppend, StoreInv, TypeOK
  <2>2. rows'[f].verdict = rows[f].verdict
    BY <1>3, <2>1 DEF Row
  <2>3. QED
    BY <1>1, <1>2, <1>3, <1>4, <2>2 DEF CorrectionAdded, AppendOnly, Row
<1>7. \A q : LatestRows(q)' = IF q = r THEN (LatestRows(q) \ {t}) \cup {f} ELSE LatestRows(q)
  BY <1>1, <1>2, <1>4, ReadsCorrected
<1>8. t \in LatestRows(r)
  BY <1>2, <1>4 DEF LatestRows, RowsOf, Superseded, IsSuperseded
<1>9. ReportsItsRow /\ ReportsItsRow'
  BY CurrentVerdict, PTL
<1>10. Current[r][p] # "unknown"
  BY <1>4, <1>5, <1>8, <1>9 DEF ReportsItsRow
<1>11. ASSUME NEW q \in Runs, q # r
       PROVE  Current'[q] = Current[q]
  <2>1. LatestRows(q)' = LatestRows(q)
    BY <1>7, <1>11
  <2>2. QED
    BY <1>6, <2>1, CurrentUntouched
<1>12. Current'[r][p] = rows'[f].verdict
  <2>1. f \in LatestRows(r)'
    BY <1>7
  <2>2. QED
    BY <1>5, <1>6, <1>9, <2>1 DEF ReportsItsRow
<1>13. ASSUME NEW o \in Probes, o # p
       PROVE  Current'[r][o] = Current[r][o]
  <2>1. \A i \in LatestRows(r) : rows'[i] = rows[i]
    BY <1>6 DEF AppendOnly, LatestRows, RowsOf
  <2>2. LatestRows(r)' = (LatestRows(r) \ {t}) \cup {f}
    BY <1>7
  <2>3. CASE \E i \in LatestRows(r) : rows[i].probe = o
    <3>1. PICK i \in LatestRows(r) : rows[i].probe = o
      BY <2>3
    <3>2. i # t /\ i \in LatestRows(r)'
      BY <1>4, <1>13, <2>2, <3>1
    <3>3. Current[r][o] = rows[i].verdict
      BY <1>5, <1>9, <3>1 DEF ReportsItsRow
    <3>4. Current'[r][o] = rows'[i].verdict
      BY <1>5, <1>9, <2>1, <3>1, <3>2 DEF ReportsItsRow
    <3>5. QED
      BY <2>1, <3>3, <3>4
  <2>4. CASE \A i \in LatestRows(r) : rows[i].probe # o
    <3>1. \A i \in LatestRows(r)' : rows'[i].probe # o
      BY <1>6, <1>13, <2>1, <2>2, <2>4
    <3>2. QED
      BY <1>5, <1>9, <2>4, <3>1 DEF ReportsItsRow
  <2>5. QED
    BY <2>3, <2>4
<1>14. Current' = [Current EXCEPT ![r][p] = rows'[f].verdict]
  <2>1. Current' = [q \in Runs |-> Current'[q]]
    BY DEF Current
  <2>2. Current'[r] = [o \in Probes |-> Current'[r][o]]
    BY <1>5 DEF Current
  <2>3. Current'[r] = [Current[r] EXCEPT ![p] = rows'[f].verdict]
    BY <1>5, <1>12, <1>13, <2>2, CurrentIsAFunction
  <2>4. QED
    BY <1>11, <2>1, <2>3, CurrentIsAFunction
<1>15. Ledger!Correct(r, p)
  BY <1>6, <1>10, <1>14 DEF Ledger!Correct
<1>16. QED
  BY <1>5, <1>15

\* The store implements the ledger: whatever runs, crashes, reads and corrections
\* one at a time interleave, a reader sees the verdicts of a run appear all at
\* once and change one at a time, never an unjudged probe or two answers.
THEOREM StoreImplementsLedger ==
  ASSUME OneAtATime, "unknown" \notin Verdicts
  PROVE  Spec => LedgerSpec
<1>1. Init => Ledger!Init
  <2>1. ASSUME Init
        PROVE  \A r \in Runs : LatestRows(r) = {}
    BY <2>1 DEF Init, LatestRows, RowsOf
  <2>2. QED
    BY <2>1 DEF Ledger!Init, Current
<1>2. ASSUME StoreInv, SerialInv, RunInv, SerialInv', [Next]_vars
      PROVE  [Ledger!Next]_Current
  <2>1. CASE TableUntouched
    <3>1. \A r \in Runs : LatestRows(r)' = LatestRows(r)
      BY <2>1, ReadsUntouched
    <3>2. AppendOnly
      BY <2>1 DEF TableUntouched, AppendOnly
    <3>3. \A r \in Runs : Current'[r] = Current[r]
      BY <1>2, <3>1, <3>2, CurrentUntouched DEF SerialInv
    <3>4. Current' = [r \in Runs |-> Current'[r]]
      BY DEF Current
    <3>5. QED
      BY <3>3, <3>4, CurrentIsAFunction
  <2>2. ASSUME NEW r \in Runs, AppendMany(r)
        PROVE  Ledger!Next
    <3>1. Ledger!Publish(r)
      BY <1>2, <2>2, AppendPublishes DEF RunInv
    <3>2. QED
      BY <3>1 DEF Ledger!Next
  <2>3. ASSUME NEW c \in Correctors, SupersedeAppend(c), CorrectionAdded(target[c], fix[c])
        PROVE  Ledger!Next
    <3>1. \E r \in Runs, p \in Probes : Ledger!Correct(r, p)
      BY <1>2, <2>3, CorrectionCorrects, OneAtATime
    <3>2. QED
      BY <3>1 DEF Ledger!Next
  <2>4. QED
    BY <1>2, <2>1, <2>2, <2>3, TableSteps
<1>3. QED
  BY <1>1, <1>2, SerialInvariant, RunInvariant, OneAtATime, PTL DEF Spec, LedgerSpec, Ledger!Spec
===============================================================================
