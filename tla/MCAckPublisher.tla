--------------------------- MODULE MCAckPublisher ---------------------------
(* AckPublisher for TLC. *)
EXTENDS AckPublisher
=============================================================================
