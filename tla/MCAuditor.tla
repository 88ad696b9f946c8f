------------------------------ MODULE MCAuditor ------------------------------
(* Instances of Auditor for TLC. *)
EXTENDS Auditor

Tx(b, n, to) ==
  [kind |-> "tx", block |-> b, tx |-> n, pos |-> 0, to |-> to,
   contract |-> "none", topic |-> "none", fit |-> TRUE]

Log(b, n, p, to, topic, fit) ==
  [kind |-> "log", block |-> b, tx |-> n, pos |-> p, to |-> to,
   contract |-> "token", topic |-> topic, fit |-> fit]

InternalCall(b, n, p, to) ==
  [kind |-> "call", block |-> b, tx |-> n, pos |-> p, to |-> to,
   contract |-> "none", topic |-> "none", fit |-> TRUE]

\* Block 0, before the first block a loop scans, has the logs of one transaction: a
\* private transfer, a token transfer and a log that is not a transfer.  Block 1 has two
\* transfers, the second at the end of the range of native log indexes; its receiver is
\* a contract that passes something on.
MCItems ==
  { Log(0, 0, 0, "a", "PrivateTransfer", TRUE),
    Log(0, 0, 1, "b", "Transfer", TRUE), Log(0, 0, 2, "a", "Transfer", FALSE),
    Tx(1, 0, "a"), Tx(1, 9998, "b"),
    InternalCall(1, 9998, 1, "a") }

MCErrors ==
  { [kind |-> "net", code |-> 0], [kind |-> "rpc", code |-> -32000],
    [kind |-> "rpc", code |-> -32003] }

MCTransient == {e \in MCErrors : e.code # -32003}
=============================================================================
