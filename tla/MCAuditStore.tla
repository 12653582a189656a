----------------------------- MODULE MCAuditStore -----------------------------
(* AuditStore for TLC. Runs take the same steps and are told apart by nothing *)
(* but their id, so permuting them is sound for the invariants of these runs. *)
EXTENDS AuditStore, TLC

RunSymmetry == Permutations(Runs)

ZeroOrInvalid == {-1, 0}
===============================================================================
