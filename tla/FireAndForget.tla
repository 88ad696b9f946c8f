---------------------------- MODULE FireAndForget ----------------------------
(***************************************************************************)
(* The publisher with RequireACK = false, the default                      *)
(* (internal/publisher/publisher.go, drainFireAndForget): the buffer is    *)
(* flushed in batches, and a row is deleted as soon as its message has     *)
(* been written to the connection.                                         *)
(***************************************************************************)
EXTENDS PublisherRun

VARIABLES
  todo,      \* rows of the batch that are still to be sent, or to be deleted
  full,      \* the batch had MaxBatchSize rows
  draining,  \* final flush: "no", "yes", or "late" once its deadline has passed
  lost       \* history: messages that died with a connection

local == <<todo, full, draining>>
vars == <<linkVars, runVars, local, lost>>

\* "flush" is the query of flushUntilEmpty, "write" and "ack" are the two halves
\* of an iteration of sendBatch, "select" the select of drainFireAndForget.
PC == {"exited", "dial", "flush", "write", "ack", "select"}

Init ==
  /\ RunInit
  /\ todo = {} /\ full = FALSE /\ draining = "no"
  /\ lost = {}

Goto(label) == pc' = label

\* Slip: the batch outlives its connection.
EndDrainKeepsBatch(label) ==
  /\ Close
  /\ lost' = lost \cup wire
  /\ full' = FALSE /\ draining' = "no"
  /\ Goto(label)
  /\ UNCHANGED <<rows, ctxDone, todo>>

\* drainFireAndForget returns: the connection is closed, its batch forgotten.
EndDrain(label) ==
  /\ Close
  /\ lost' = lost \cup wire
  /\ todo' = {} /\ full' = FALSE /\ draining' = "no"
  /\ Goto(label)
  /\ UNCHANGED <<rows, ctxDone>>

Reconnect == EndDrain("dial")
Exit == EndDrain("exited")

\* An error ends the drain; in the final flush it ends Run.
DrainError == IF draining = "no" THEN Reconnect ELSE Exit
-----------------------------------------------------------------------------
(* flushUntilEmpty and sendBatch.                                          *)

\* The context flushUntilEmpty was called with: that of Run, or drainCtx.
Cancelled == IF draining = "no" THEN ctxDone ELSE draining = "late"

Query ==
  /\ pc = "flush"
  /\ ~Cancelled
  /\ todo' = PendingAll(MaxBatchSize)
  /\ full' = (Cardinality(todo') = MaxBatchSize)
  /\ todo' # {}
  /\ Goto("write")
  /\ UNCHANGED <<linkVars, buffer, recorded, ctxDone, draining, lost>>

\* flushUntilEmpty returns without an error.
EndFlush ==
  IF draining = "no"
  THEN Goto("select") /\ UNCHANGED <<link, rows, ctxDone, local, lost>>
  ELSE Exit

Empty ==
  /\ pc = "flush"
  /\ ~Cancelled
  /\ buffer = {}
  /\ EndFlush
  /\ UNCHANGED faults

\* ctx.Err(), or an error of the query.  Run returns on a cancellation or a
\* deadline (publisher.go:122), else it dials again.
FlushFails ==
  /\ pc = "flush"
  /\ \/ Cancelled /\ Exit /\ UNCHANGED faults
     \/ ~Cancelled /\ Fault /\ (Exit \/ DrainError)

WriteMessage ==
  /\ pc = "write"
  /\ todo # {}
  /\ Write(First(todo))
  /\ lost' = IF conn = "up" THEN lost ELSE lost \cup {First(todo)}
  /\ Goto("ack")
  /\ UNCHANGED <<rows, ctxDone, faults, local>>

WriteFails ==
  /\ pc = "write"
  /\ todo # {}
  /\ WriteError
  /\ DrainError

\* Slip: the whole batch is deleted once its first message has been written.
AckBatch ==
  /\ pc = "ack"
  /\ buffer' = buffer \ todo
  /\ UNCHANGED faults
  /\ todo' = {}
  /\ Goto("write")
  /\ UNCHANGED <<link, recorded, delivered, dups, ctxDone, full, draining, lost>>

\* The row is deleted.  When that fails, sendBatch goes on with the next one.
AckRow ==
  LET d == First(todo)
  IN  /\ pc = "ack"
      /\ \/ ~Cancelled /\ DeleteRow(d)
         \/ DeleteFails(Cancelled)
      /\ todo' = todo \ {d}
      /\ Goto("write")
      /\ UNCHANGED <<link, recorded, delivered, dups, ctxDone, full, draining, lost>>

\* After a full batch flushUntilEmpty goes round again.
BatchDone ==
  /\ pc = "write"
  /\ todo = {}
  /\ IF full
     THEN Goto("flush") /\ UNCHANGED <<link, rows, ctxDone, local, lost>>
     ELSE EndFlush
  /\ UNCHANGED faults
-----------------------------------------------------------------------------
(* The select of drainFireAndForget.                                       *)

\* Slip: the tick is taken from the channel and nothing is done about it.
PollTickIgnored == pc = "select" /\ UNCHANGED vars

\* The poll ticker, or a wake-up from LISTEN/NOTIFY.
PollTick ==
  /\ pc = "select"
  /\ Goto("flush")
  /\ UNCHANGED <<linkVars, buffer, recorded, ctxDone, local, lost>>

ReadError ==
  /\ pc = "select"
  /\ WriteError
  /\ Reconnect

CtxDone ==
  /\ pc = "select"
  /\ ctxDone
  /\ draining' = "yes"
  /\ Goto("flush")
  /\ UNCHANGED <<linkVars, buffer, recorded, ctxDone, todo, full, lost>>

\* DrainTimeoutMs has passed.
DrainDeadline ==
  /\ draining = "yes"
  /\ draining' = "late"
  /\ UNCHANGED <<linkVars, runVars, todo, full, lost>>

DialCancelled ==
  /\ pc = "dial"
  /\ ctxDone
  /\ Goto("exited")
  /\ UNCHANGED <<linkVars, buffer, recorded, ctxDone, local, lost>>

Crash ==
  /\ pc # "exited"
  /\ Exit
  /\ Fault
-----------------------------------------------------------------------------
FlushStep ==
  \/ Query \/ Empty \/ FlushFails
  \/ WriteMessage \/ WriteFails \/ AckRow \/ BatchDone

\* The Adapter of this mode only receives; startReadLoop ignores what it sends.
Env ==
  \/ \E S \in SUBSET Deposit : Insert(S) /\ UNCHANGED lost
  \/ Break /\ UNCHANGED runVars /\ lost' = lost \cup wire
  \/ \E d \in Deposit : Receive(d) /\ UNCHANGED <<runVars, lost>>

Run == Dial("flush") \/ Shutdown \/ Restart

Next ==
  \/ Env /\ UNCHANGED local
  \/ Run /\ UNCHANGED <<local, lost>>
  \/ FlushStep
  \/ PollTick \/ ReadError \/ CtxDone \/ DrainDeadline
  \/ DialCancelled \/ Crash

Spec == Init /\ [][Next]_vars

\* Fairness as in AckPublisher.
FairSpec ==
  /\ Spec
  /\ WF_vars((Dial("flush") \/ Restart) /\ UNCHANGED <<local, lost>>)
  /\ WF_vars(FlushStep) /\ WF_vars(DialCancelled) /\ WF_vars(PollTick)
  /\ SF_vars(ReadError) /\ SF_vars(CtxDone) /\ WF_vars(DrainDeadline)
-----------------------------------------------------------------------------
TypeOK ==
  /\ RunTypeOK
  /\ pc \in PC
  /\ todo \in SUBSET Deposit
  /\ todo # {} => pc \in {"write", "ack"}
  /\ full \in BOOLEAN
  /\ draining \in {"no", "yes", "late"}
  /\ lost \in SUBSET Deposit

\* The residual risk that config.go:32 names, and no more: a recorded deposit
\* that has no row and has not been received is on the wire, or was when its
\* connection died.
LostOnlyInTransit == recorded \subseteq buffer \cup delivered \cup wire \cup lost

\* publisher.go:9: a row that is waiting is sent and deleted in the end.
EventuallySent == \A d \in Deposit : (d \in buffer) ~> (d \notin buffer)
=============================================================================
