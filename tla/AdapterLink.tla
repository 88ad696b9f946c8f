----------------------------- MODULE AdapterLink -----------------------------
(***************************************************************************)
(* The WebSocket between the publisher and the Adapter, and the Adapter.   *)
(* Neither is in this repository: this is what internal/publisher relies   *)
(* on.  A message written to a working connection reaches the Adapter or   *)
(* is lost with the connection; the Adapter acknowledges only what it has, *)
(* in any order, perhaps twice, perhaps not at all.  A dead connection is  *)
(* noticed later, so a write to it may still succeed.                      *)
(***************************************************************************)
EXTENDS Integers, FiniteSets, Sequences

CONSTANTS
  Deposit,    \* deposits, numbered by the id of their row in deposit_buffer
  MaxFaults,  \* bound: failures of the network, the Adapter, the database
  MaxDups     \* bound: superfluous ACKs of the Adapter

ASSUME LinkAssumption ==
  /\ Deposit \in SUBSET Nat
  /\ MaxFaults \in Nat
  /\ MaxDups \in Nat

VARIABLES
  conn,       \* "none", "up", or "broken": dead and not yet noticed
  wire,       \* messages on their way to the Adapter
  owed,       \* messages the Adapter has received and not yet acknowledged
  ackWire,    \* ACKs on their way to the listener
  delivered,  \* deposits the Adapter has received, ever
  dups,       \* superfluous ACKs so far
  faults      \* faults so far

link == <<conn, wire, owed, ackWire>>
linkVars == <<conn, wire, owed, ackWire, delivered, dups, faults>>

LinkInit ==
  /\ conn = "none"
  /\ wire = {} /\ owed = {} /\ ackWire = {}
  /\ delivered = {}
  /\ dups = 0
  /\ faults = 0

LinkTypeOK ==
  /\ conn \in {"none", "up", "broken"}
  /\ wire \in SUBSET Deposit
  /\ owed \in SUBSET Deposit
  /\ ackWire \in SUBSET Deposit
  /\ delivered \in SUBSET Deposit
  /\ dups \in Nat
  /\ faults \in Nat

Fault ==
  /\ faults < MaxFaults
  /\ faults' = faults + 1

\* Nothing in transit survives the connection.
LoseTransit == wire' = {} /\ owed' = {} /\ ackWire' = {}

Open == conn' = "up" /\ UNCHANGED <<wire, owed, ackWire>>

Close == conn' = "none" /\ LoseTransit

\* A successful WriteMessage.
Write(d) ==
  /\ wire' = IF conn = "up" THEN wire \cup {d} ELSE wire
  /\ UNCHANGED <<conn, owed, ackWire>>

\* A failed WriteMessage or PING.
WriteError ==
  \/ conn = "broken" /\ UNCHANGED faults
  \/ conn = "up" /\ Fault

Receive(d) ==
  /\ d \in wire
  /\ wire' = wire \ {d}
  /\ owed' = owed \cup {d}
  /\ delivered' = delivered \cup {d}
  /\ UNCHANGED <<conn, ackWire, dups, faults>>

SendAck(d) ==
  /\ d \in owed
  /\ owed' = owed \ {d}
  /\ ackWire' = ackWire \cup {d}
  /\ UNCHANGED <<conn, wire, delivered, dups, faults>>

ForgetAck(d) ==
  /\ d \in owed
  /\ owed' = owed \ {d}
  /\ Fault
  /\ UNCHANGED <<conn, wire, ackWire, delivered, dups>>

RepeatAck(d) ==
  /\ conn = "up"
  /\ d \in delivered \ ackWire
  /\ dups < MaxDups
  /\ dups' = dups + 1
  /\ ackWire' = ackWire \cup {d}
  /\ UNCHANGED <<conn, wire, owed, delivered, faults>>

Break ==
  /\ conn = "up"
  /\ Fault
  /\ conn' = "broken"
  /\ LoseTransit
  /\ UNCHANGED <<delivered, dups>>

AdapterStep(d) == Receive(d) \/ SendAck(d) \/ ForgetAck(d) \/ RepeatAck(d)
=============================================================================
