------------------------------- MODULE Outbox -------------------------------
(***************************************************************************)
(* What the listener promises of a recorded deposit (README, rule 3): its  *)
(* row stays until the Adapter has the deposit, the Adapter only gets      *)
(* deposits that were recorded, and in the end it gets every one of them   *)
(* and the row goes.  A deposit may reach the Adapter more than once.      *)
(***************************************************************************)
CONSTANT Deposit

VARIABLES
  pending,    \* deposits with a row in deposit_buffer
  delivered   \* deposits the Adapter has received

vars == <<pending, delivered>>

Init ==
  /\ pending = {}
  /\ delivered = {}

Record(S) ==
  /\ pending' = pending \cup S
  /\ UNCHANGED delivered

Deliver(d) ==
  /\ d \in pending
  /\ delivered' = delivered \cup {d}
  /\ UNCHANGED pending

Retire(d) ==
  /\ d \in pending
  /\ d \in delivered
  /\ pending' = pending \ {d}
  /\ UNCHANGED delivered

Next ==
  \/ \E S \in SUBSET Deposit : Record(S)
  \/ \E d \in Deposit : Deliver(d) \/ Retire(d)

Spec == Init /\ [][Next]_vars

FairSpec ==
  /\ Spec
  /\ \A d \in Deposit : WF_vars(Deliver(d)) /\ WF_vars(Retire(d))
=============================================================================
