----------------------------- MODULE MCScanLoop -----------------------------
(* ScanLoop for TLC. *)
EXTENDS ScanLoop, TLC

Symmetry == Permutations(Deposit) \cup Permutations(Loops)
=============================================================================
