--------------------------- MODULE PipelineProofs ---------------------------
(***************************************************************************)
(* Proofs about Pipeline.  Each step of the process is a step or a stutter *)
(* of the loop and of the publisher, so what ScanLoopProofs and            *)
(* AckPublisherProofs establish holds of the process; Linked joins them.   *)
(***************************************************************************)
EXTENDS Pipeline, TLAPS

\* The rows the loop committed are the ones the publisher was given, and the Adapter has
\* only such deposits.
Linked ==
  /\ recorded = buffer \cup acked
  /\ delivered \subseteq recorded

\* The assumptions of the two components follow from those of the process.
LEMMA Assumptions ==
  /\ L!ScanAssumption
  /\ P!LinkAssumption /\ P!BatchAssumption /\ P!WindowAssumption
BY PipelineAssumption
DEF L!ScanAssumption, P!LinkAssumption, P!BatchAssumption, P!WindowAssumption

\* What the publisher does with the table: no step gives a deposit a row, at most one
\* row is deleted, and none by the step that ends Run.  A deposit reaches the Adapter
\* from the wire.
LEMMA WorkOnRows ==
  ASSUME P!Work
  PROVE  /\ recorded' = recorded
         /\ delivered' = delivered \/ \E d \in wire : delivered' = delivered \cup {d}
         /\ \/ buffer' = buffer
            \/ pubPc' # "exited" /\ \E d \in buffer : buffer' = buffer \ {d}
<1>1. ASSUME NEW d, NEW c, P!TakeAck(d, c)
      PROVE  buffer' = buffer \/ (d \in buffer /\ buffer' = buffer \ {d})
  BY <1>1 DEF P!TakeAck, P!DeleteRow, P!DeleteFails
<1>2. CASE P!HandleAck
  BY <1>1, <1>2 DEF P!HandleAck, P!Goto
<1>3. CASE P!GracefulAck
  BY <1>1, <1>3 DEF P!GracefulAck
<1>4. ASSUME NEW d \in Deposit, P!AdapterStep(d), UNCHANGED P!runVars
      PROVE  /\ recorded' = recorded /\ buffer' = buffer
             /\ delivered' = delivered \/ \E e \in wire : delivered' = delivered \cup {e}
  BY <1>4 DEF P!AdapterStep, P!Receive, P!SendAck, P!ForgetAck, P!RepeatAck, P!runVars
<1>5. CASE \E d \in Deposit : P!AdapterStep(d) /\ UNCHANGED P!runVars
  BY <1>4, <1>5
<1>6. CASE UNCHANGED <<recorded, buffer, delivered>>
  BY <1>6
<1>7. \/ P!HandleAck \/ P!GracefulAck
      \/ \E d \in Deposit : P!AdapterStep(d) /\ UNCHANGED P!runVars
      \/ UNCHANGED <<recorded, buffer, delivered>>
  BY DEF P!Work, P!Link, P!TopUpStep, P!GracefulStep, P!Break, P!Dial, P!ReadAck,
     P!AckTimeout, P!WindowFull, P!Query, P!QueryFails, P!Send, P!SendFails, P!SendDone,
     P!GracefulEnd, P!PollTick, P!ReadError, P!CtxDone, P!DialCancelled, P!Reconnect,
     P!Exit, P!EndDrain, P!linkVars, P!runVars, P!rows
<1> QED BY <1>2, <1>3, <1>5, <1>6, <1>7

\* A step of the loop leaves the deleted rows alone and adds rows.
LEMMA LoopOnRows ==
  ASSUME \/ \E S \in SUBSET Deposit : L!Mine(S) \/ \E b \in L!Blocks : L!Reorg(b, S)
         \/ L!Step(loop) \/ L!ScanPartly(loop) \/ L!Fail(loop) \/ L!Stop(loop)
         \/ L!Cancel(loop) \/ L!Crash(loop) \/ L!Start(loop)
  PROVE  acked' = acked
BY DEF L!Mine, L!Reorg, L!Step, L!Poll, L!InitCursor, L!NothingNew, L!PlanBlocks, L!ScanBlock,
   L!BeginTx, L!Commit, L!NextBlock, L!ScanPartly, L!Fail, L!Stop, L!Cancel, L!Crash, L!Start,
   L!db

\* A cancellation by errgroup is one of the loop, or finds it cancelled or gone.
LEMMA CancelIsStep ==
  ASSUME CancelLoop, UNCHANGED <<buffer, acked>>
  PROVE  [L!Next]_(L!vars)
BY DEF CancelLoop, L!Next, L!vars, loopOnly

\* A step of the process is a step of the loop, or none.
LEMMA LoopStep == L!TypeOK /\ [Next]_vars => [L!Next]_(L!vars)
<1> SUFFICES ASSUME L!TypeOK, [Next]_vars PROVE [L!Next]_(L!vars)
  OBVIOUS
<1>1. CASE UNCHANGED vars
  BY <1>1 DEF vars, loopOnly, L!vars
<1>2. CASE Loop(\E S \in SUBSET Deposit : L!Mine(S) \/ \E b \in L!Blocks : L!Reorg(b, S))
  BY <1>2 DEF Loop, L!Next
<1>3. CASE Loop(L!Step(loop) \/ L!ScanPartly(loop) \/ L!Fail(loop) \/ L!Stop(loop))
  BY <1>3 DEF Loop, L!Next
<1>4. CASE Loop(L!Cancel(loop) \/ L!Crash(loop)) \/ Start
  BY <1>4 DEF Loop, Start, L!Next
<1>5. CASE Publish(P!Work)
  <2>1. P!Work /\ acked' = acked \cup (buffer \ buffer')
    BY <1>5 DEF Publish
  <2>2. CASE buffer' = buffer
    <3>1. acked' = acked
      BY <2>1, <2>2
    <3>2. CASE CancelLoop
      BY <2>2, <3>1, <3>2, CancelIsStep
    <3>3. CASE UNCHANGED loopOnly
      BY <2>2, <3>1, <3>3 DEF loopOnly, L!vars
    <3> QED BY <1>5, <3>2, <3>3 DEF Publish
  <2>3. CASE pubPc' # "exited" /\ \E d \in buffer : buffer' = buffer \ {d}
    <3>1. PICK d \in buffer : buffer' = buffer \ {d}
      BY <2>3
    <3>2. acked' = acked \cup {d}
      BY <2>1, <3>1
    <3>3. UNCHANGED loopOnly
      BY <1>5, <2>3 DEF Publish
    <3>4. L!Ack(d)
      BY <3>1, <3>2, <3>3 DEF L!Ack, loopOnly, L!net
    <3> QED BY <3>1, <3>4 DEF L!Next, L!TypeOK
  <2> QED BY <2>1, <2>2, <2>3, WorkOnRows
<1>6. CASE Shutdown
  BY <1>6, CancelIsStep DEF Shutdown
<1>7. CASE Kill
  BY <1>7 DEF Kill, L!Next, L!vars, loopOnly
<1>8. CASE Boot
  BY <1>8 DEF Boot, L!vars, loopOnly
<1> QED BY <1>1, <1>2, <1>3, <1>4, <1>5, <1>6, <1>7, <1>8 DEF Next

\* A step of the process is a step of the publisher, or none.
LEMMA PublisherStep == [Next]_vars => [P!Next]_(P!vars)
<1> SUFFICES ASSUME [Next]_vars PROVE [P!Next]_(P!vars)
  OBVIOUS
<1> USE DEF pubOnly, pubLocal, P!vars, P!linkVars, P!runVars, P!local
<1>1. CASE UNCHANGED vars
  BY <1>1 DEF vars
<1>2. ASSUME NEW A, Loop(A) PROVE [P!Next]_(P!vars)
  BY <1>2 DEF Loop, P!Next
<1>3. CASE Publish(P!Work)
  BY <1>3 DEF Publish, P!Next
<1>4. CASE Shutdown \/ Kill \/ Boot
  BY <1>4 DEF Shutdown, Kill, Boot, P!Next
<1> QED BY <1>1, <1>2, <1>3, <1>4 DEF Next, Start

\* Commits and deletes keep the two views of the table together.
LEMMA LinkedStep == P!Inv /\ Linked /\ [Next]_vars => Linked'
<1> SUFFICES ASSUME P!Inv, Linked, [Next]_vars PROVE Linked'
  OBVIOUS
<1>1. CASE UNCHANGED vars
  BY <1>1 DEF vars, pubOnly, Linked
<1>2. ASSUME acked' = acked,
             IF buffer' = buffer THEN UNCHANGED pubOnly ELSE P!Arrive /\ UNCHANGED pubLocal
      PROVE  Linked'
  BY <1>2 DEF Linked, pubOnly, P!Arrive, P!Insert
<1>3. CASE Publish(P!Work)
  <2>1. wire \subseteq buffer \cup delivered
    BY DEF P!Inv
  <2>2. P!Work /\ acked' = acked \cup (buffer \ buffer')
    BY <1>3 DEF Publish
  <2>3. recorded' = buffer' \cup acked'
    BY <2>2, WorkOnRows DEF Linked
  <2>4. delivered' \subseteq recorded'
    BY <2>1, <2>2, WorkOnRows DEF Linked
  <2> QED BY <2>3, <2>4 DEF Linked
<1>4. CASE Shutdown \/ Kill \/ Boot
  BY <1>4 DEF Shutdown, Kill, Boot, Linked, P!Shutdown, P!Crash, P!Restart, P!Exit, P!EndDrain,
     P!rows
<1>5. CASE Publish(P!Work) \/ Shutdown \/ Kill \/ Boot \/ UNCHANGED vars
  BY <1>1, <1>3, <1>4, <1>5
<1> QED BY <1>2, <1>5, LoopOnRows DEF Next, Start, Loop

\* The invariants of the components and the link between them hold of the process.
THEOREM Invariance == Spec => [](L!Inv /\ P!Inv /\ Linked)
<1>1. Init => L!Inv /\ P!Inv /\ Linked
  BY L!InitInv, P!InitInv, Assumptions DEF Init, Linked, L!Init, P!Init, P!RunInit, P!LinkInit
<1>2. L!Inv /\ P!Inv /\ Linked /\ [Next]_vars => (L!Inv /\ P!Inv /\ Linked)'
  BY LoopStep, PublisherStep, LinkedStep, L!NextInv, P!NextInv, Assumptions DEF L!Inv
<1> QED BY <1>1, <1>2, PTL DEF Spec

\* The process with one loop refines the scan loop that is checked by itself.
THEOREM RunsTheLoop == Spec => L!Spec
<1>1. Init => L!Init
  BY DEF Init
<1>2. L!Inv => L!TypeOK
  BY DEF L!Inv
<1> QED BY <1>1, <1>2, LoopStep, Invariance, PTL DEF Spec, L!Spec

\* The process refines the publisher that is checked by itself, and so the outbox.
THEOREM RunsThePublisher == Spec => P!Spec /\ P!OutboxSpec
<1>1. Init => P!Init
  BY DEF Init
<1>2. Spec => P!Spec
  BY <1>1, PublisherStep, PTL DEF Spec, P!Spec
<1> QED BY <1>2, P!ImplementsOutbox, Assumptions, PTL

\* README rules 2 and 3 together: whatever fails between the scan of a block and the
\* delete of its rows, a deposit of a block the cursor has passed is in deposit_buffer or
\* with the Adapter, unless the scan left it out.
THEOREM NothingIsLost == Spec => []NothingLost
<1>1. L!Inv /\ P!Inv /\ Linked => NothingLost
  BY DEF L!Inv, P!Inv, Linked, NothingLost, L!NoDepositSkipped, L!Covered, L!Captured,
     P!NotDeletedBeforeDelivery
<1> QED BY <1>1, Invariance, PTL

\* README rules 1 and 3 together: the Adapter is only told of deposits in confirmed blocks
\* of the canonical chain.
THEOREM OnlyConfirmedDelivered == Spec => []OnlyConfirmed
<1>1. L!Inv /\ P!Inv /\ Linked => OnlyConfirmed
  BY DEF L!Inv, Linked, OnlyConfirmed, L!NoPhantomDeposit, L!Captured
<1> QED BY <1>1, Invariance, PTL

\* With one goroutine the cursor is where the loop left it: a block being scanned or
\* recorded is the one after it, and it is initialised only while it is 0.
OneLoopInv ==
  LET f == frame[loop]
      at == pc[loop]
  IN  /\ cursor = 0 => base <= 0
      /\ f.fresh => at \in {"begin", "commit"} /\ cursor = 0 /\ f.block = f.endBlock
      /\ ~f.fresh /\ at \in {"scan", "begin", "commit"} => f.block = cursor + 1
      /\ at = "delay" => f.block = cursor

\* What a step may do with the cursor and with its starting point.
CursorStep ==
  /\ cursor' # cursor => cursor = 0 \/ cursor' = cursor + 1
  /\ base > 0 => base' = base

\* The loop's own steps.
LEMMA OneLoopStep ==
  ASSUME L!TypeOK, OneLoopInv, L!Step(loop)
  PROVE  OneLoopInv' /\ CursorStep
<1> DEFINE f == frame[loop]
<1>0. /\ f \in L!Frame /\ cursor \in Nat /\ base \in Nat \cup {-1}
      /\ pc \in [{loop} -> L!PC] /\ frame \in [{loop} -> L!Frame]
  BY DEF L!TypeOK
<1> USE <1>0 DEF OneLoopInv, CursorStep, L!Goto, L!db, L!Frame
<1>1. CASE L!Poll(loop)
  BY <1>1 DEF L!Poll
<1>2. CASE L!InitCursor(loop)
  BY <1>2 DEF L!InitCursor, L!SaveConfirmedHead
<1>3. CASE L!NothingNew(loop)
  BY <1>3 DEF L!NothingNew, L!Return, L!NoFrame
<1>4. CASE L!PlanBlocks(loop)
  BY <1>4 DEF L!PlanBlocks, L!StartBlock
<1>5. CASE L!ScanBlock(loop)
  BY <1>5 DEF L!ScanBlock
<1>6. CASE L!BeginTx(loop)
  BY <1>6 DEF L!BeginTx
<1>7. CASE L!Commit(loop)
  <2>1. CursorStep
    BY <1>7 DEF L!Commit, L!AdvanceCursor
  <2>2. cursor' = f.block /\ (cursor' = 0 => base' <= 0)
    BY <1>7 DEF L!Commit, L!AdvanceCursor
  <2>3. CASE f.block < f.endBlock
    <3>1. /\ pc'[loop] = "delay"
          /\ frame'[loop] = [f EXCEPT !.events = {}, !.left = {}, !.ins = {}]
      BY <1>7, <2>3 DEF L!Commit
    <3>2. frame'[loop].block = f.block /\ frame'[loop].fresh = f.fresh
      BY <3>1
    <3>3. ~f.fresh
      BY <2>3
    <3> QED BY <2>1, <2>2, <3>1, <3>2, <3>3
  <2>4. CASE ~(f.block < f.endBlock)
    BY <1>7, <2>1, <2>2, <2>4 DEF L!Commit, L!Return, L!NoFrame
  <2> QED BY <2>1, <2>3, <2>4
<1>8. CASE L!NextBlock(loop)
  BY <1>8 DEF L!NextBlock
<1> QED BY <1>1, <1>2, <1>3, <1>4, <1>5, <1>6, <1>7, <1>8 DEF L!Step

\* Every step of the loop's specification.
LEMMA OneLoopNext == L!TypeOK /\ OneLoopInv /\ [L!Next]_(L!vars) => OneLoopInv' /\ CursorStep
<1> SUFFICES ASSUME L!TypeOK, OneLoopInv, [L!Next]_(L!vars) PROVE OneLoopInv' /\ CursorStep
  OBVIOUS
<1>0. /\ cursor \in Nat /\ base \in Nat \cup {-1}
      /\ pc \in [{loop} -> L!PC] /\ frame \in [{loop} -> L!Frame]
  BY DEF L!TypeOK
<1> USE <1>0 DEF OneLoopInv, CursorStep, L!Goto, L!db, L!Frame
<1>1. CASE UNCHANGED <<cursor, base, pc, frame>>
  BY <1>1
<1>2. CASE L!ScanPartly(loop)
  BY <1>2 DEF L!ScanPartly
<1>3. CASE L!Fail(loop)
  BY <1>3 DEF L!Fail, L!Return, L!NoFrame
<1>4. CASE L!Stop(loop) \/ L!Crash(loop)
  BY <1>4 DEF L!Stop, L!Crash, L!Exit, L!NoFrame
<1>5. CASE L!Start(loop)
  BY <1>5 DEF L!Start
<1>6. \/ L!Step(loop) \/ L!ScanPartly(loop) \/ L!Fail(loop) \/ L!Stop(loop) \/ L!Crash(loop)
      \/ L!Start(loop) \/ UNCHANGED <<cursor, base, pc, frame>>
  BY DEF L!Next, L!Mine, L!Reorg, L!Ack, L!Cancel, L!vars
<1> QED BY <1>1, <1>2, <1>3, <1>4, <1>5, <1>6, OneLoopStep

\* One goroutine and its cursor, in the process.
LEMMA OneLoop == Spec => [](L!Inv /\ OneLoopInv)
<1>1. Init => OneLoopInv
  BY DEF Init, L!Init, OneLoopInv, L!NoFrame
<1>2. L!Inv /\ OneLoopInv /\ [Next]_vars => OneLoopInv'
  BY LoopStep, OneLoopNext DEF L!Inv
<1> QED BY <1>1, <1>2, Invariance, PTL DEF Spec

\* README rule 5: the cursor moves one block at a time whatever fails or restarts, and
\* jumps only while there is none.
THEOREM CursorDiscipline == Spec => CursorAdvancesByOne
<1>1. L!Inv /\ OneLoopInv /\ [Next]_vars
        => [cursor' # cursor => cursor = 0 \/ cursor' = cursor + 1]_(L!vars)
  BY LoopStep, OneLoopNext DEF L!Inv, CursorStep
<1> QED BY <1>1, OneLoop, PTL DEF Spec, CursorAdvancesByOne, L!CursorAdvancesByOne

\* loop.go:112: a cursor past block 0 is never initialised again, also after restarts.
THEOREM StartsOnce == Spec => InitialisedOnce
<1>1. L!Inv /\ OneLoopInv /\ [Next]_vars => [base > 0 => base' = base]_(L!vars)
  BY LoopStep, OneLoopNext DEF L!Inv, CursorStep
<1> QED BY <1>1, OneLoop, PTL DEF Spec, InitialisedOnce, L!InitialisedOnce
=============================================================================
