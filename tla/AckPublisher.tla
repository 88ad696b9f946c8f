---------------------------- MODULE AckPublisher ----------------------------
(***************************************************************************)
(* The publisher with RequireACK = true (internal/publisher/publisher.go,  *)
(* drainWithACK): at most MaxInFlight messages await an ACK, a row is      *)
(* deleted when its ACK is handled, and a message whose ACK does not come  *)
(* ends the connection, after which everything still in the buffer is      *)
(* sent again.                                                             *)
(***************************************************************************)
EXTENDS PublisherRun

CONSTANT MaxInFlight    \* Config.MaxInFlight

ASSUME WindowAssumption == MaxInFlight \in Nat \ {0}

VARIABLES
  out,    \* the outstanding map: sent on this connection, no ACK handled
  ackCh,  \* the buffered channel from the read loop
  todo    \* rows of topUp's query that are still to be sent

local == <<out, ackCh, todo>>
vars == <<linkVars, runVars, local>>

\* "topup" and "send" are the query and the loop of topUp, "select" the select
\* of drainWithACK, "graceful" the loop of gracefulACK.
PC == {"exited", "dial", "topup", "send", "select", "graceful"}

NoLocals == out' = {} /\ ackCh' = <<>> /\ todo' = {}

Init ==
  /\ RunInit
  /\ out = {} /\ ackCh = <<>> /\ todo = {}

Goto(label) == pc' = label

\* drainWithACK returns: the connection is closed, its state is gone.
EndDrain(label) ==
  /\ Close
  /\ NoLocals
  /\ Goto(label)
  /\ UNCHANGED <<rows, ctxDone>>

Reconnect == EndDrain("dial")
Exit == EndDrain("exited")
-----------------------------------------------------------------------------
(* topUp.                                                                  *)

Window == Cardinality(out)

\* Slip: asks for the free slots only, not for the rows in flight as well.
LimitOfFreeSlots ==
  IF MaxInFlight - Window > MaxBatchSize THEN MaxBatchSize ELSE MaxInFlight - Window

Limit ==
  LET wanted == (MaxInFlight - Window) + Window
  IN  IF wanted > MaxBatchSize THEN MaxBatchSize ELSE wanted

\* The window is full: topUp returns without a query.
WindowFull ==
  /\ pc = "topup"
  /\ Window >= MaxInFlight
  /\ Goto("select")
  /\ UNCHANGED <<linkVars, buffer, recorded, ctxDone, local>>

Query ==
  /\ pc = "topup"
  /\ Window < MaxInFlight
  /\ ~ctxDone
  /\ todo' = PendingAll(Limit) \ out
  /\ Goto("send")
  /\ UNCHANGED <<linkVars, buffer, recorded, ctxDone, out, ackCh>>

\* An error of the query ends the drain.  Run returns when it is a cancellation
\* or a deadline (publisher.go:122), else it dials again.
QueryFails ==
  /\ pc = "topup"
  /\ Window < MaxInFlight
  /\ \/ ctxDone /\ Exit /\ UNCHANGED faults
     \/ ~ctxDone /\ Fault /\ (Exit \/ Reconnect)

\* Slip: does not count the messages sent by this call.
SendUncounted ==
  /\ pc = "send"
  /\ todo # {}
  /\ LET d == First(todo)
     IN  /\ Write(d)
         /\ out' = out \cup {d}
         /\ todo' = todo \ {d}
  /\ UNCHANGED <<rows, pc, ctxDone, faults, ackCh>>

Send ==
  /\ pc = "send"
  /\ todo # {}
  /\ Window < MaxInFlight
  /\ LET d == First(todo)
     IN  /\ Write(d)
         /\ out' = out \cup {d}
         /\ todo' = todo \ {d}
  /\ UNCHANGED <<rows, pc, ctxDone, faults, ackCh>>

SendFails ==
  /\ pc = "send"
  /\ todo # {}
  /\ Window < MaxInFlight
  /\ WriteError
  /\ Reconnect

SendDone ==
  /\ pc = "send"
  /\ todo = {} \/ Window >= MaxInFlight
  /\ todo' = {}
  /\ Goto("select")
  /\ UNCHANGED <<linkVars, buffer, recorded, ctxDone, out, ackCh>>
-----------------------------------------------------------------------------
(* The select of drainWithACK, the read loop and gracefulACK.              *)

\* Slip: a channel without a capacity.
ReadAckUnbounded(d) ==
  /\ d \in ackWire
  /\ ackWire' = ackWire \ {d}
  /\ ackCh' = Append(ackCh, d)
  /\ UNCHANGED <<conn, wire, owed, delivered, dups, faults, runVars, out, todo>>

\* startReadLoop: an ACK that finds the channel full is dropped.
ReadAck(d) ==
  /\ d \in ackWire
  /\ ackWire' = ackWire \ {d}
  /\ ackCh' = IF Len(ackCh) < MaxInFlight THEN Append(ackCh, d) ELSE ackCh
  /\ UNCHANGED <<conn, wire, owed, delivered, dups, faults, runVars, out, todo>>

\* Slip: the row is deleted for any message sent, acknowledged or not.
TakeAckAny(d, cancelled) ==
  /\ out' = {}
  /\ buffer' = buffer \ out
  /\ UNCHANGED faults

\* handleAck: an ACK for a message that is not outstanding is ignored.  When the
\* database fails the row stays while the message is no longer outstanding.
TakeAck(d, cancelled) ==
  /\ out' = out \ {d}
  /\ IF d \in out
     THEN \/ ~cancelled /\ DeleteRow(d)
          \/ DeleteFails(cancelled)
     ELSE UNCHANGED <<buffer, faults>>

HandleAck ==
  /\ pc = "select"
  /\ ackCh # <<>>
  /\ ackCh' = Tail(ackCh)
  /\ TakeAck(Head(ackCh), ctxDone)
  /\ Goto("topup")
  /\ UNCHANGED <<link, delivered, dups, recorded, ctxDone, todo>>

\* The poll ticker, or a wake-up from LISTEN/NOTIFY.
PollTick ==
  /\ pc = "select"
  /\ Goto("topup")
  /\ UNCHANGED <<linkVars, buffer, recorded, ctxDone, local>>

\* The read loop has ended, or a PING cannot be written.
ReadError ==
  /\ pc = "select"
  /\ WriteError
  /\ Reconnect

\* No ACK of d is on its way any more.
AckLost(d) == d \notin wire \cup owed \cup ackWire /\ \A i \in DOMAIN ackCh : ackCh[i] # d

\* Slip: looks for an overdue message only while the window is full.
AckTimeoutWhenFull(d) ==
  /\ pc = "select"
  /\ d \in out
  /\ Window >= MaxInFlight
  /\ IF AckLost(d) THEN UNCHANGED faults ELSE Fault
  /\ Reconnect

\* oldestAge > ACKTimeout because of d.  Unless its ACK is lost, the Adapter was
\* slower than ACKTimeout, which is a fault.
AckTimeout(d) ==
  /\ pc = "select"
  /\ d \in out
  /\ IF AckLost(d) THEN UNCHANGED faults ELSE Fault
  /\ Reconnect

CtxDone ==
  /\ pc = "select"
  /\ ctxDone
  /\ Goto("graceful")
  /\ UNCHANGED <<linkVars, buffer, recorded, ctxDone, local>>

\* gracefulACK handles ACKs on a context of its own.
GracefulAck ==
  /\ pc = "graceful"
  /\ out # {}
  /\ ackCh # <<>>
  /\ ackCh' = Tail(ackCh)
  /\ TakeAck(Head(ackCh), FALSE)
  /\ UNCHANGED <<link, delivered, dups, recorded, pc, ctxDone, todo>>

\* Every ACK has come, or the deadline has.
GracefulEnd ==
  /\ pc = "graceful"
  /\ Exit
  /\ UNCHANGED faults

\* Run tests its context before it dials.
DialCancelled ==
  /\ pc = "dial"
  /\ ctxDone
  /\ Goto("exited")
  /\ UNCHANGED <<linkVars, buffer, recorded, ctxDone, local>>

Crash ==
  /\ pc # "exited"
  /\ Exit
  /\ Fault
-----------------------------------------------------------------------------
TopUpStep == WindowFull \/ Query \/ QueryFails \/ Send \/ SendFails \/ SendDone

GracefulStep == GracefulAck \/ GracefulEnd

Link ==
  \/ Break /\ UNCHANGED runVars
  \/ \E d \in Deposit : AdapterStep(d) /\ UNCHANGED runVars

\* What happens while Run is running.
Work ==
  \/ (Link \/ Dial("topup")) /\ UNCHANGED local
  \/ \E d \in Deposit : ReadAck(d) \/ AckTimeout(d)
  \/ TopUpStep \/ GracefulStep
  \/ HandleAck \/ PollTick \/ ReadError \/ CtxDone \/ DialCancelled

Arrive == \E S \in SUBSET Deposit : Insert(S)

Next ==
  \/ (Arrive \/ Shutdown \/ Restart) /\ UNCHANGED local
  \/ Work
  \/ Crash

Spec == Init /\ [][Next]_vars

\* Fairness: the process is restarted, a connection is got in the end, goroutines
\* and tickers run, and select, choosing at random among the ready cases, does
\* not pass over one for ever.  The Adapter reads and acknowledges, faults
\* excepted.
FairSpec ==
  /\ Spec
  /\ WF_vars((Dial("topup") \/ Restart) /\ UNCHANGED local)
  /\ WF_vars(TopUpStep) /\ WF_vars(GracefulStep) /\ WF_vars(DialCancelled)
  /\ WF_vars(PollTick)
  /\ SF_vars(HandleAck) /\ SF_vars(ReadError) /\ SF_vars(CtxDone)
  /\ \A d \in Deposit :
       /\ SF_vars(AckTimeout(d))
       /\ WF_vars(ReadAck(d))
       /\ WF_vars(Receive(d) /\ UNCHANGED <<runVars, local>>)
       /\ WF_vars(SendAck(d) /\ UNCHANGED <<runVars, local>>)
-----------------------------------------------------------------------------
TypeOK ==
  /\ RunTypeOK
  /\ pc \in PC
  /\ out \in SUBSET Deposit
  /\ todo \in SUBSET Deposit
  /\ ackCh \in Seq(Deposit) /\ Len(ackCh) <= MaxInFlight

\* README rule 3 and migrations/0001_init.up.sql:15, "the row is not deleted
\* before the Adapter's ACK": a recorded deposit has its row until the Adapter
\* has received it.
NotDeletedBeforeDelivery == recorded \subseteq buffer \cup delivered

\* publisher.go:398, "flow control protects the channel": against an Adapter
\* that acknowledges each message once, what the Adapter has been sent and not
\* seen handled never exceeds MaxInFlight, so the channel has room for every ACK
\* and none is dropped.
FlowControl ==
  dups = 0 => Cardinality(wire \cup owed \cup ackWire) + Len(ackCh) <= MaxInFlight

\* publisher.go:265 and 272: with a free slot, topUp's query yields a row to send
\* as long as the buffer holds one that is not in flight.  MaxBatchSize rows in
\* flight are the exception: they are all that the query returns, so a window
\* larger than a batch is never filled.
TopUpFindsWork ==
  [][pc = "topup" /\ pc' = "send" /\ Window < MaxBatchSize /\ buffer \ out # {}
       => todo' # {}]_vars

\* README rule 6: told to shut down, the publisher leaves only after the wait of
\* gracefulACK, or with nothing outstanding.
GracefulWait ==
  [][pc # "exited" /\ pc' = "exited" /\ faults' = faults
       => pc = "graceful" \/ out = {}]_vars

O == INSTANCE Outbox WITH pending <- buffer

\* drainWithACK implements the promise of README rule 3.
OutboxSpec == O!Spec
OutboxFairSpec == O!FairSpec
=============================================================================
