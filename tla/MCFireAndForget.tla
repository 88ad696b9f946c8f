--------------------------- MODULE MCFireAndForget ---------------------------
(* FireAndForget for TLC. *)
EXTENDS FireAndForget
=============================================================================
