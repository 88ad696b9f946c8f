------------------------------ MODULE Pipeline ------------------------------
(***************************************************************************)
(* From the chain to the Adapter: a scan loop and the publisher in ACK     *)
(* mode, which share the table deposit_buffer, as goroutines of one        *)
(* process (cmd/listener/main.go, run).                                    *)
(*                                                                         *)
(* The loop is ScanLoop with one goroutine, the publisher AckPublisher.    *)
(* What is one step of the process is a step of both: the rows of a commit *)
(* arrive at the publisher, a row the publisher deletes is gone for the    *)
(* loop, and errgroup ends every component when one of them ends or the    *)
(* process is told to stop.  The instances are of the modules with the     *)
(* proofs, which define the same actions, so that their theorems can be    *)
(* used.                                                                   *)
(***************************************************************************)
EXTENDS Integers, FiniteSets, Sequences

CONSTANTS
  Deposit, loop,
  MinConfirmations, MaxBlocksPerPoll, ReorgDepth, FirstHead, MaxHead,
  MaxInFlight, MaxBatchSize,
  MaxFaults,      \* bound: faults of the loop
  MaxPubFaults,   \* bound: faults of the publisher, its connection and the Adapter
  MaxDups         \* bound: superfluous ACKs

ASSUME PipelineAssumption ==
  /\ Deposit \in SUBSET Nat
  /\ MinConfirmations \in Nat /\ ReorgDepth \in Nat /\ ReorgDepth <= MinConfirmations
  /\ FirstHead \in Nat /\ MaxHead \in Nat /\ FirstHead <= MaxHead
  /\ MaxBlocksPerPoll \in Nat \ {0}
  /\ MaxInFlight \in Nat \ {0} /\ MaxBatchSize \in Nat \ {0}
  /\ MaxFaults \in Nat /\ MaxPubFaults \in Nat /\ MaxDups \in Nat

VARIABLES
  head, chain, cursor, dropped, base, pc, ctxDone, frame, faults,   \* ScanLoop
  buffer, acked,                                                    \* deposit_buffer
  conn, wire, owed, ackWire, delivered, dups,                       \* AdapterLink
  recorded, pubPc, pubDone, pubFaults, out, ackCh, todo             \* AckPublisher

L == INSTANCE ScanLoopProofs WITH Loops <- {loop}

P == INSTANCE AckPublisherProofs
       WITH pc <- pubPc, ctxDone <- pubDone,
            faults <- pubFaults, MaxFaults <- MaxPubFaults

loopOnly == <<head, chain, cursor, dropped, base, pc, ctxDone, frame, faults>>
pubLocal == <<out, ackCh, todo>>
pubOnly == <<conn, wire, owed, ackWire, delivered, dups, recorded, pubPc, pubDone, pubFaults,
             pubLocal>>
vars == <<loopOnly, buffer, acked, pubOnly>>

Init == L!Init /\ P!Init

-----------------------------------------------------------------------------
(* Steps of one component                                                  *)

\* A step of the loop or of the chain.  The rows it commits arrive at the publisher.
Loop(A) ==
  /\ A
  /\ IF buffer' = buffer THEN UNCHANGED pubOnly ELSE P!Arrive /\ UNCHANGED pubLocal

\* The goroutine of Run lives as long as the process; the supervisor starts loops
\* unless its context is done.
Start ==
  /\ pubPc # "exited" /\ ~pubDone
  /\ Loop(L!Start(loop))

Told == pc[loop] = "stopped" \/ ctxDone[loop]

\* Slip: the goroutines are started without the context of the group.
CancelLoopNot == UNCHANGED loopOnly

\* The context of the loop is a child of the one errgroup cancels.
CancelLoop ==
  IF Told THEN UNCHANGED loopOnly
          ELSE L!Cancel(loop)

\* A step of the publisher, its connection or the Adapter.  When Run returns an error
\* of its own, errgroup cancels the rest.
Publish(A) ==
  /\ A
  /\ acked' = acked \cup (buffer \ buffer')
  /\ IF pubPc' = "exited" /\ ~pubDone THEN CancelLoop ELSE UNCHANGED loopOnly

-----------------------------------------------------------------------------
(* Steps of the process                                                    *)

\* SIGTERM, or the HTTP server cannot listen.
Shutdown ==
  /\ UNCHANGED <<buffer, acked>>
  /\ P!Shutdown /\ UNCHANGED pubLocal
  /\ CancelLoop

Kill ==
  /\ UNCHANGED <<buffer, acked>>
  /\ P!Crash
  /\ IF pc[loop] = "stopped" THEN UNCHANGED loopOnly ELSE L!Crash(loop)

\* g.Wait returns when every component has; the process is started again.
Boot ==
  /\ pc[loop] = "stopped"
  /\ UNCHANGED <<loopOnly, buffer, acked>>
  /\ P!Restart /\ UNCHANGED pubLocal

-----------------------------------------------------------------------------
Next ==
  \/ Loop(\E S \in SUBSET Deposit : L!Mine(S) \/ \E b \in L!Blocks : L!Reorg(b, S))
  \/ Loop(L!Step(loop) \/ L!ScanPartly(loop) \/ L!Fail(loop) \/ L!Stop(loop))
  \/ Loop(L!Cancel(loop) \/ L!Crash(loop))
  \/ Start
  \/ Publish(P!Work)
  \/ Shutdown \/ Kill \/ Boot

Spec == Init /\ [][Next]_vars

\* Fairness: a goroutine that can run does, the ticker keeps firing, a call made with a
\* cancelled context returns, the supervisor restarts a dead chain and the process is
\* restarted; that of the publisher is the one of AckPublisher.  Calls fail finitely
\* often (MaxFaults, MaxPubFaults).
FairSpec ==
  /\ Spec
  /\ WF_vars(Loop(L!Step(loop)))
  /\ WF_vars(ctxDone[loop] /\ Loop(L!Fail(loop)))
  /\ WF_vars(Loop(L!Stop(loop)))
  /\ WF_vars(Start) /\ WF_vars(Boot)
  /\ WF_vars(Publish(P!Dial("topup") /\ UNCHANGED pubLocal))
  /\ WF_vars(Publish(P!TopUpStep)) /\ WF_vars(Publish(P!GracefulStep))
  /\ WF_vars(Publish(P!DialCancelled)) /\ WF_vars(Publish(P!PollTick))
  /\ SF_vars(Publish(P!HandleAck)) /\ SF_vars(Publish(P!ReadError))
  /\ SF_vars(Publish(P!CtxDone))
  /\ \A d \in Deposit :
       /\ SF_vars(Publish(P!AckTimeout(d)))
       /\ WF_vars(Publish(P!ReadAck(d)))
       /\ WF_vars(Publish(P!Receive(d) /\ UNCHANGED <<buffer, recorded, pubPc, pubDone, pubLocal>>))
       /\ WF_vars(Publish(P!SendAck(d) /\ UNCHANGED <<buffer, recorded, pubPc, pubDone, pubLocal>>))

-----------------------------------------------------------------------------
(* Properties                                                              *)

\* README rules 2 and 3 together: a deposit of a block the cursor has passed is with the
\* Adapter or in deposit_buffer, through crashes of the process at any point of the scan,
\* the commit, the delivery and the delete, unless the scan left it out.
NothingLost ==
  \A b \in L!Blocks :
    base < b /\ b <= cursor => chain[b] \subseteq buffer \cup delivered \cup dropped

\* README rules 1 and 3 together: what the Adapter is told of is in a confirmed block of
\* the canonical chain, and stays there.
OnlyConfirmed ==
  \A d \in delivered : \E b \in L!Blocks : L!Confirmed(b) /\ d \in chain[b]

\* The listener does its work: again and again it has delivered everything, that is,
\* every deposit of a confirmed block past the starting point, unless the scan of its
\* block left it out.  Such a deposit stays in its block, so each one gets its turn.
EventuallyDelivered ==
  []<>(\A b \in L!Blocks :
         0 < base /\ base < b /\ L!Confirmed(b) => chain[b] \subseteq delivered \cup dropped)

\* main.go:135, "when one dies everything is cleaned up": once the publisher has returned
\* or the process has been told to stop, both components end, so that the process exits.
AllEnd ==
  (pubPc = "exited" \/ pubDone) ~> (pubPc = "exited" /\ pc[loop] = "stopped")

\* README rule 5, "resumes exactly at scan_cursor": through errors, crashes and restarts
\* the cursor moves one block at a time, except when it is set for the first time.
CursorAdvancesByOne == L!CursorAdvancesByOne

\* loop.go:112: jumping to the confirmed head is for a new chain only, also after a
\* restart of the process.
InitialisedOnce == L!InitialisedOnce
=============================================================================
