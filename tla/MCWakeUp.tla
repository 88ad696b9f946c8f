------------------------------ MODULE MCWakeUp ------------------------------
(* WakeUp for TLC. *)
EXTENDS WakeUp
=============================================================================
