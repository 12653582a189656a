---------------------------- MODULE MCPolicyLocks ----------------------------
(* Two rules of different effect that quote the same words with and without     *)
(* punctuation, and one that awaits review.                                     *)
EXTENDS PolicyLocks, TLC

Draft(ordinal, words, marks, flagged, grants) ==
  [ordinal |-> ordinal, span |-> [words |-> words, marks |-> marks],
   flagged |-> flagged, grants |-> grants]

MCDrafts ==
  {Draft(1, "refund", "comma", FALSE, {"fresh"}),
   Draft(1, "refund", Plain, FALSE, {}),
   Draft(1, "fee", "comma", TRUE, {})}

Either == Permutations(Jobs)
===============================================================================
