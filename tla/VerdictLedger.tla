---------------------------- MODULE VerdictLedger -----------------------------
(***************************************************************************)
(* What the audit store promises a reader of a run: nothing is known of a  *)
(* run until all of its probes have a verdict, from then on every probe    *)
(* has exactly one current verdict, and a correction replaces one of them. *)
(* DESIGN.md 1.6 and 5.1; AuditStore implements it.                        *)
(***************************************************************************)
CONSTANTS Runs, Probes, Verdicts, Unknown

VARIABLE current    \* current[r][p]: the verdict run r reports for probe p

Init == current = [r \in Runs |-> [p \in Probes |-> Unknown]]

Publish(r) ==
  /\ \A p \in Probes : current[r][p] = Unknown
  /\ \E v \in [Probes -> Verdicts] : current' = [current EXCEPT ![r] = v]

Correct(r, p) ==
  /\ current[r][p] # Unknown
  /\ \E v \in Verdicts : current' = [current EXCEPT ![r][p] = v]

Next == \E r \in Runs : Publish(r) \/ \E p \in Probes : Correct(r, p)

Spec == Init /\ [][Next]_current
===============================================================================
