--------------------------- MODULE ScanLoopProofs ---------------------------
(***************************************************************************)
(* Proofs about ScanLoop, for every number of loops, every chain and every *)
(* choice of MinConfirmations, MaxBlocksPerPoll and the bounds.            *)
(***************************************************************************)
EXTENDS ScanLoop, TLAPS

\* What a loop knows at each point of pollOnce.
LoopInv(l) ==
  LET f == frame[l]
  IN  /\ pc[l] \in {"cursor", "scan", "begin", "commit", "delay"}
           => MinConfirmations <= f.latest /\ f.latest <= head
      /\ pc[l] \in {"scan", "begin", "commit", "delay"}
           => f.block <= f.endBlock /\ f.endBlock + MinConfirmations <= f.latest
      /\ f.fresh => pc[l] \in {"begin", "commit"} /\ f.events = {} /\ f.block = f.endBlock
      /\ pc[l] \in {"scan", "begin", "commit", "delay"} /\ ~f.fresh => f.block # 0
      /\ pc[l] \in {"scan", "begin", "commit"} /\ ~f.fresh => Covered(f.block - 1)
      /\ pc[l] = "delay" => f.block < f.endBlock /\ Covered(f.block)
      /\ pc[l] = "begin" /\ ~f.fresh /\ ~ctxDone[l]
           => chain[f.block] \subseteq f.events \cup f.left
      /\ pc[l] = "commit" /\ ~f.fresh => chain[f.block] \subseteq f.events \cup f.left
      /\ pc[l] = "commit" => f.events \subseteq f.ins \cup Captured
      /\ pc[l] \notin {"begin", "commit"} => f.events = {}
      /\ f.ins \subseteq f.events
      /\ f.fresh \/ f.events = {} \/ f.events \subseteq chain[f.block]

CursorInv == cursor = 0 \/ Confirmed(cursor)

\* The inductive invariant.
Inv ==
  /\ TypeOK
  /\ CursorInv
  /\ NoDepositSkipped
  /\ NoPhantomDeposit
  /\ \A l \in Loops : LoopInv(l)

\* What every step leaves alone: confirmed blocks stay as they are, recorded
\* deposits stay recorded, dropped ones dropped, and the starting point only moves up.
Stable ==
  /\ head <= head'
  /\ base <= base'
  /\ Captured \subseteq Captured'
  /\ dropped \subseteq dropped'
  /\ \A b \in Blocks : Confirmed(b) => chain'[b] = chain[b]

\* Nothing of loop l changes, except that it may be cancelled.
Unmoved(l) ==
  /\ pc'[l] = pc[l]
  /\ frame'[l] = frame[l]
  /\ ctxDone[l] => ctxDone'[l]
-----------------------------------------------------------------------------
\* A block number reached by a loop is the number of a block.
LEMMA BlockIsBlock ==
  ASSUME Inv, NEW l \in Loops,
         pc[l] \in {"scan", "begin", "commit", "delay"}, ~frame[l].fresh
  PROVE  frame[l].block \in Blocks /\ Confirmed(frame[l].block)
BY ScanAssumption DEF Inv, TypeOK, LoopInv, Frame, Blocks, Confirmed

\* A frame stays a frame when block numbers are assigned to its fields.
LEMMA FrameNumbers ==
  ASSUME NEW f \in Frame, NEW n \in Nat, NEW m \in Nat
  PROVE  /\ [f EXCEPT !.latest = n] \in Frame
         /\ [f EXCEPT !.block = n] \in Frame
         /\ [f EXCEPT !.block = n, !.endBlock = m] \in Frame
         /\ [f EXCEPT !.block = n, !.endBlock = m, !.fresh = TRUE] \in Frame
BY DEF Frame

\* A frame stays a frame when sets of deposits are assigned to its fields.
LEMMA FrameSets ==
  ASSUME NEW f \in Frame, NEW S \in SUBSET Deposit, NEW T \in SUBSET Deposit
  PROVE  /\ [f EXCEPT !.events = S] \in Frame
         /\ [f EXCEPT !.ins = S] \in Frame
         /\ [f EXCEPT !.events = S, !.left = T] \in Frame
         /\ [f EXCEPT !.events = {}, !.left = {}, !.ins = {}] \in Frame
BY DEF Frame

\* Step types: every action keeps the variables in their domains.
LEMMA TypeStep == Inv /\ [Next]_vars => TypeOK'
<1> SUFFICES ASSUME Inv, [Next]_vars PROVE TypeOK'
  OBVIOUS
<1> USE ScanAssumption DEF Inv, TypeOK, Blocks
<1>1. ASSUME NEW S \in SUBSET Deposit, Mine(S) PROVE TypeOK'
  BY <1>1 DEF Mine, db
<1>2. ASSUME NEW b \in Blocks, NEW S \in SUBSET Deposit, Reorg(b, S) PROVE TypeOK'
  BY <1>2 DEF Reorg, db
<1>3. ASSUME NEW d \in Deposit, Ack(d) PROVE TypeOK'
  BY <1>3 DEF Ack, net
<1>4. ASSUME NEW l \in Loops, Poll(l) PROVE TypeOK'
  <2>1. frame' \in [Loops -> Frame]
    <3>1. [frame[l] EXCEPT !.latest = head] \in Frame
      BY FrameNumbers
    <3> QED BY <1>4, <3>1 DEF Poll
  <2> QED BY <1>4, <2>1 DEF Poll, Goto, net, db, PC
<1>5. ASSUME NEW l \in Loops, InitCursor(l) PROVE TypeOK'
  <2>1. MaxConfirmed(frame[l].latest) \in Nat
    BY <1>5 DEF InitCursor, LoopInv, MaxConfirmed, Frame
  <2>2. frame' \in [Loops -> Frame]
    <3> DEFINE m == MaxConfirmed(frame[l].latest)
    <3>1. [frame[l] EXCEPT !.block = m, !.endBlock = m, !.fresh = TRUE] \in Frame
      BY <2>1, FrameNumbers
    <3> QED BY <1>5, <3>1 DEF InitCursor, SaveConfirmedHead
  <2> QED BY <1>5, <2>2 DEF InitCursor, SaveConfirmedHead, Goto, net, db, PC
<1>6. ASSUME NEW l \in Loops, NothingNew(l) PROVE TypeOK'
  BY <1>6 DEF NothingNew, Return, Goto, net, db, Frame, NoFrame, PC
<1>7. ASSUME NEW l \in Loops, PlanBlocks(l) PROVE TypeOK'
  <2>1. StartBlock(cursor) \in Nat
    BY DEF StartBlock
  <2>2. EndBlock(StartBlock(cursor), MaxConfirmed(frame[l].latest)) \in Nat
    <3>1. frame[l].latest \in Nat /\ MinConfirmations <= frame[l].latest
      BY <1>7 DEF PlanBlocks, LoopInv, Frame
    <3> QED BY <2>1, <3>1 DEF MaxConfirmed, EndBlock
  <2>3. frame' \in [Loops -> Frame]
    <3> DEFINE start == StartBlock(cursor)
               end   == EndBlock(start, MaxConfirmed(frame[l].latest))
    <3>1. [frame[l] EXCEPT !.block = start, !.endBlock = end] \in Frame
      BY <2>1, <2>2, FrameNumbers
    <3> QED BY <1>7, <3>1 DEF PlanBlocks
  <2> QED BY <1>7, <2>3 DEF PlanBlocks, Goto, net, db, PC
<1>8. ASSUME NEW l \in Loops, ScanBlock(l) PROVE TypeOK'
  <2>1. chain[frame[l].block] \in SUBSET Deposit
    BY <1>8, BlockIsBlock DEF ScanBlock, LoopInv
  <2>2. PICK evs \in SUBSET Deposit : frame' = [frame EXCEPT ![l].events = evs]
    BY <1>8, <2>1 DEF ScanBlock, ScanResults
  <2>3. frame' \in [Loops -> Frame]
    <3>1. [frame[l] EXCEPT !.events = evs] \in Frame
      BY FrameSets
    <3> QED BY <2>2, <3>1
  <2> QED BY <1>8, <2>3 DEF ScanBlock, Goto, net, db, PC
<1>9. ASSUME NEW l \in Loops, BeginTx(l) PROVE TypeOK'
  <2>1. frame[l].events \ buffer \in SUBSET Deposit
    BY DEF Frame
  <2>2. frame' \in [Loops -> Frame]
    <3>1. [frame[l] EXCEPT !.ins = frame[l].events \ buffer] \in Frame
      BY <2>1, FrameSets
    <3> QED BY <1>9, <3>1 DEF BeginTx
  <2> QED BY <1>9, <2>2 DEF BeginTx, Goto, net, db, PC
<1>10. ASSUME NEW l \in Loops, Commit(l) PROVE TypeOK'
  <2>1. frame[l] \in Frame
    OBVIOUS
  <2>2. cursor' \in Nat /\ base' \in Nat \cup {-1} /\ buffer' \in SUBSET Deposit
        /\ dropped' \in SUBSET Deposit
    BY <1>10, <2>1 DEF Commit, AdvanceCursor, Frame
  <2>3. frame' \in [Loops -> Frame]
    <3>1. [frame[l] EXCEPT !.events = {}, !.left = {}, !.ins = {}] \in Frame /\ NoFrame \in Frame
      BY <2>1, FrameSets DEF Frame, NoFrame
    <3> QED BY <1>10, <3>1 DEF Commit, Return
  <2>4. pc' \in [Loops -> PC]
    BY <1>10 DEF Commit, Return, Goto, PC
  <2> QED BY <1>10, <2>2, <2>3, <2>4 DEF Commit, net
<1>11. ASSUME NEW l \in Loops, NextBlock(l) PROVE TypeOK'
  <2>1. frame[l] \in Frame /\ frame[l].block + 1 \in Nat
    BY DEF Frame
  <2>2. frame' \in [Loops -> Frame]
    <3>1. [frame[l] EXCEPT !.block = frame[l].block + 1] \in Frame
      BY <2>1, FrameNumbers
    <3> QED BY <1>11, <3>1 DEF NextBlock
  <2> QED BY <1>11, <2>2 DEF NextBlock, Goto, net, db, PC
<1>12. ASSUME NEW l \in Loops, Fail(l) PROVE TypeOK'
  BY <1>12 DEF Fail, Fault, Return, Goto, net, db, Frame, NoFrame, PC
<1>13. ASSUME NEW l \in Loops, Cancel(l) PROVE TypeOK'
  BY <1>13 DEF Cancel, Fault, net, db
<1>14. ASSUME NEW l \in Loops, Stop(l) PROVE TypeOK'
  BY <1>14 DEF Stop, Exit, Goto, net, db, Frame, NoFrame, PC
<1>15. ASSUME NEW l \in Loops, Crash(l) PROVE TypeOK'
  BY <1>15 DEF Crash, Exit, Fault, Goto, net, db, Frame, NoFrame, PC
<1>16. ASSUME NEW l \in Loops, Start(l) PROVE TypeOK'
  BY <1>16 DEF Start, Goto, net, db, PC
<1>17. CASE UNCHANGED vars
  BY <1>17 DEF vars
<1>18. ASSUME NEW l \in Loops, ScanPartly(l) PROVE TypeOK'
  <2>1. chain[frame[l].block] \in SUBSET Deposit
    BY <1>18, BlockIsBlock DEF ScanPartly, LoopInv
  <2>2. PICK evs \in SUBSET Deposit :
          frame' = [frame EXCEPT ![l] = [frame[l] EXCEPT !.events = evs,
                                           !.left = chain[frame[l].block] \ evs]]
    BY <1>18, <2>1 DEF ScanPartly
  <2>3. frame' \in [Loops -> Frame]
    <3>1. [frame[l] EXCEPT !.events = evs, !.left = chain[frame[l].block] \ evs] \in Frame
      BY <2>1, FrameSets
    <3> QED BY <2>2, <3>1
  <2> QED BY <1>18, <2>3 DEF ScanPartly, Fault, Goto, net, db, PC
<1> QED
  BY <1>1, <1>2, <1>3, <1>4, <1>5, <1>6, <1>7, <1>8, <1>9, <1>10, <1>11, <1>12,
     <1>13, <1>14, <1>15, <1>16, <1>17, <1>18 DEF Next, Step
-----------------------------------------------------------------------------
\* No step touches a confirmed block or forgets a recorded deposit.
LEMMA StableStep == Inv /\ [Next]_vars => Stable
<1> SUFFICES ASSUME Inv, [Next]_vars PROVE Stable
  OBVIOUS
<1> USE ScanAssumption DEF Inv, TypeOK, Blocks, Stable, Captured, Confirmed
<1>1. ASSUME NEW S \in SUBSET Deposit, Mine(S) PROVE Stable
  BY <1>1 DEF Mine, db
<1>2. ASSUME NEW b \in Blocks, NEW S \in SUBSET Deposit, Reorg(b, S) PROVE Stable
  BY <1>2 DEF Reorg, db
<1>3. ASSUME NEW d \in Deposit, Ack(d) PROVE Stable
  BY <1>3 DEF Ack, net
<1>4. ASSUME NEW l \in Loops, Commit(l) PROVE Stable
  <2>1. frame[l].block \in Nat
    BY DEF Frame
  <2> QED BY <1>4, <2>1 DEF Commit, net
<1>5. CASE UNCHANGED <<net, db>>
  BY <1>5 DEF net, db
<1> QED
  BY <1>1, <1>2, <1>3, <1>4, <1>5 DEF Next, Step, Poll, InitCursor, NothingNew,
     PlanBlocks, ScanBlock, ScanPartly, BeginTx, NextBlock, Fail, Cancel, Stop, Crash,
     Start, vars, net, db

\* So what is covered up to a confirmed block stays covered.
LEMMA CoveredStable ==
  ASSUME TypeOK, TypeOK', Stable, NEW n \in Nat, n = 0 \/ Confirmed(n), Covered(n)
  PROVE  Covered(n)'
<1> SUFFICES ASSUME NEW b \in Blocks, base' < b, b <= n
             PROVE  chain'[b] \subseteq Captured' \cup dropped'
  BY DEF Covered, Blocks
<1>1. base < b /\ Confirmed(b)
  BY ScanAssumption DEF TypeOK, Stable, Confirmed, Blocks
<1> QED BY <1>1 DEF Covered, Stable

\* A loop that does not move keeps its invariant.
LEMMA UnmovedStep ==
  ASSUME Inv, TypeOK', Stable, NEW l \in Loops, Unmoved(l)
  PROVE  LoopInv(l)'
<1> DEFINE f == frame[l]
<1>1. f \in Frame /\ frame'[l] = f /\ LoopInv(l) /\ TypeOK
  BY DEF Inv, TypeOK, Unmoved
<1>2. f.latest \in Nat /\ f.block \in Nat /\ f.endBlock \in Nat /\ head \in Nat /\ head' \in Nat
  BY <1>1 DEF Frame, TypeOK
<1>3. head <= head'
  BY DEF Stable
<1>4. pc[l] \in {"scan", "begin", "commit", "delay"} /\ ~f.fresh
        => f.block \in Blocks /\ Confirmed(f.block) /\ chain'[f.block] = chain[f.block]
  BY BlockIsBlock DEF Stable
<1>5. pc[l] \in {"scan", "begin", "commit"} /\ ~f.fresh => Covered(f.block - 1)'
  <2> SUFFICES ASSUME pc[l] \in {"scan", "begin", "commit"}, ~f.fresh
               PROVE  Covered(f.block - 1)'
    OBVIOUS
  <2>1. Covered(f.block - 1)
    BY <1>1 DEF LoopInv
  <2>2. f.block - 1 \in Nat /\ Confirmed(f.block - 1)
    BY <1>2, <1>4, ScanAssumption DEF Blocks, Confirmed
  <2>3. \A n \in Nat : Confirmed(n) /\ Covered(n) => Covered(n)'
    BY <1>1, CoveredStable
  <2> QED BY <2>1, <2>2, <2>3, <1>1
<1>6. pc[l] = "delay" => Covered(f.block)'
  BY <1>1, <1>2, <1>4, CoveredStable DEF LoopInv
<1> QED
  BY <1>1, <1>2, <1>3, <1>4, <1>5, <1>6, ScanAssumption
  DEF LoopInv, Unmoved, Stable
-----------------------------------------------------------------------------
\* A commit covers its block.
LEMMA CommitCovers ==
  ASSUME Inv, TypeOK', Stable, NEW l \in Loops, Commit(l), ~frame[l].fresh,
         NEW n \in Nat, n = frame[l].block
  PROVE  Covered(n)'
<1>0. TypeOK /\ head \in Nat
  BY DEF Inv, TypeOK
<1>1. /\ n \in Blocks /\ Confirmed(n) /\ Covered(n - 1)
      /\ chain[n] \subseteq frame[l].events \cup frame[l].left
      /\ frame[l].events \subseteq frame[l].ins \cup Captured
  BY BlockIsBlock DEF Commit, Inv, LoopInv
<1>2. chain'[n] \subseteq Captured' \cup dropped'
  BY <1>1 DEF Commit, Captured, Stable
<1>3. n - 1 \in Nat /\ Confirmed(n - 1)
  BY <1>0, <1>1, ScanAssumption DEF Blocks, Confirmed
<1>4. Covered(n - 1)'
  <2> DEFINE k == n - 1
  <2>1. k \in Nat /\ Confirmed(k) /\ Covered(k)
    BY <1>1, <1>3
  <2> HIDE DEF k
  <2>2. Covered(k)'
    BY <1>0, <2>1, CoveredStable
  <2> QED BY <2>2 DEF k
<1> QED BY <1>2, <1>4 DEF Covered, Blocks

\* The loop that moves keeps its invariant, action by action.
LEMMA MovedStep ==
  ASSUME Inv, TypeOK', Stable, NEW l \in Loops,
         Step(l) \/ ScanPartly(l) \/ Fail(l) \/ Stop(l) \/ Crash(l) \/ Start(l)
  PROVE  LoopInv(l)'
<1> DEFINE f == frame[l]
<1>0. /\ f \in Frame /\ LoopInv(l) /\ TypeOK /\ pc[l] \in PC
      /\ f.latest \in Nat /\ f.block \in Nat /\ f.endBlock \in Nat
      /\ f.events \in SUBSET Deposit /\ f.ins \in SUBSET Deposit
      /\ head \in Nat /\ cursor \in Nat
  BY DEF Inv, TypeOK, Frame
<1> USE ScanAssumption
<1>1. ASSUME NEW label \in {"idle", "stopped"},
             pc' = [pc EXCEPT ![l] = label], frame' = [frame EXCEPT ![l] = NoFrame]
      PROVE  LoopInv(l)'
  <2>1. frame'[l] = NoFrame /\ pc'[l] = label
    BY <1>0, <1>1 DEF TypeOK
  <2> QED BY <2>1 DEF LoopInv, NoFrame
<1>2. CASE Poll(l)
  <2>1. frame'[l] = [f EXCEPT !.latest = head] /\ pc'[l] = "cursor"
    BY <1>0, <1>2 DEF Poll, Goto, TypeOK
  <2>2. f.events = {} /\ f.ins = {} /\ ~f.fresh
    BY <1>0, <1>2 DEF Poll, LoopInv
  <2>3. frame'[l].latest = head /\ frame'[l].events = {} /\ frame'[l].ins = {} /\ ~frame'[l].fresh
    BY <1>0, <2>1, <2>2 DEF Frame
  <2> QED BY <1>0, <1>2, <2>1, <2>3 DEF Poll, LoopInv, net
<1>3. CASE InitCursor(l)
  <2> DEFINE m == MaxConfirmed(f.latest)
  <2>1. frame'[l] = [f EXCEPT !.block = m, !.endBlock = m, !.fresh = TRUE]
        /\ pc'[l] = "begin"
    BY <1>0, <1>3 DEF InitCursor, SaveConfirmedHead, Goto, TypeOK
  <2>2. f.events = {} /\ f.ins = {} /\ m + MinConfirmations = f.latest
    BY <1>0, <1>3 DEF InitCursor, LoopInv, MaxConfirmed
  <2>3. m \in Nat
    BY <1>0, <1>3 DEF InitCursor, LoopInv, MaxConfirmed
  <2>4. head' = head /\ MinConfirmations <= f.latest /\ f.latest <= head
    BY <1>0, <1>3 DEF InitCursor, LoopInv, net
  <2> HIDE DEF m
  <2>5. /\ frame'[l].block = m /\ frame'[l].endBlock = m /\ frame'[l].fresh
        /\ frame'[l].latest = f.latest /\ frame'[l].events = {} /\ frame'[l].ins = {}
    BY <1>0, <2>1, <2>2 DEF Frame
  <2> QED BY <1>0, <2>1, <2>2, <2>3, <2>4, <2>5 DEF LoopInv
<1>4. CASE NothingNew(l)
  BY <1>1, <1>4 DEF NothingNew, Return, Goto
<1>5. CASE PlanBlocks(l)
  <2> DEFINE start == StartBlock(cursor)
             end == EndBlock(start, MaxConfirmed(f.latest))
  <2>1. frame'[l] = [f EXCEPT !.block = start, !.endBlock = end] /\ pc'[l] = "scan"
    BY <1>0, <1>5 DEF PlanBlocks, Goto, TypeOK
  <2>2. start - 1 = cursor /\ start # 0 /\ start <= end /\ end + MinConfirmations <= f.latest
    BY <1>0, <1>5 DEF PlanBlocks, LoopInv, StartBlock, EndBlock, NewBlocks, MaxConfirmed
  <2>3. Covered(cursor)'
    <3>1. Covered(cursor) /\ (cursor = 0 \/ Confirmed(cursor))
      BY DEF Inv, NoDepositSkipped, CursorInv
    <3>2. cursor' = cursor
      BY <1>5 DEF PlanBlocks, db
    <3> QED BY <1>0, <3>1, <3>2, CoveredStable
  <2>4. f.events = {} /\ f.ins = {} /\ ~f.fresh
    BY <1>0, <1>5 DEF PlanBlocks, LoopInv
  <2>5. cursor' = cursor /\ head' = head /\ start \in Nat /\ end \in Nat
    BY <1>0, <1>5, <2>2 DEF PlanBlocks, db, net, StartBlock, EndBlock, MaxConfirmed
  <2> HIDE DEF start, end
  <2>6. /\ frame'[l].block = start /\ frame'[l].endBlock = end
        /\ frame'[l].latest = f.latest /\ frame'[l].fresh = f.fresh
        /\ frame'[l].events = f.events /\ frame'[l].ins = f.ins
    BY <1>0, <2>1 DEF Frame
  <2>7. Covered(frame[l].block - 1)'
    BY <2>2, <2>3, <2>5, <2>6
  <2> QED BY <1>0, <1>5, <2>1, <2>2, <2>4, <2>5, <2>6, <2>7 DEF PlanBlocks, LoopInv
<1>6. CASE ScanBlock(l)
  <2>1. PICK evs \in ScanResults(l) : frame' = [frame EXCEPT ![l].events = evs]
    BY <1>6 DEF ScanBlock
  <2>2. frame'[l] = [f EXCEPT !.events = evs] /\ pc'[l] = "begin" /\ ctxDone' = ctxDone
    BY <1>0, <1>6, <2>1 DEF ScanBlock, Goto, TypeOK
  <2>3. evs \subseteq chain[f.block] /\ (ctxDone[l] \/ evs = chain[f.block])
    BY <2>1 DEF ScanResults
  <2>4. f.ins = {} /\ ~f.fresh /\ f.block # 0 /\ Covered(f.block - 1)
        /\ f.block <= f.endBlock /\ f.endBlock + MinConfirmations <= f.latest
        /\ MinConfirmations <= f.latest /\ f.latest <= head
    BY <1>0, <1>6 DEF ScanBlock, LoopInv
  <2>5. /\ frame'[l].block = f.block /\ frame'[l].endBlock = f.endBlock
        /\ frame'[l].latest = f.latest /\ frame'[l].fresh = f.fresh
        /\ frame'[l].events = evs /\ frame'[l].ins = f.ins
    BY <1>0, <2>2 DEF Frame
  <2>6. head' = head /\ chain' = chain /\ base' = base /\ buffer' = buffer /\ acked' = acked
        /\ dropped' = dropped
    BY <1>6 DEF ScanBlock, net, db
  <2>7. Covered(frame[l].block - 1)'
    BY <2>4, <2>5, <2>6 DEF Covered, Captured
  <2> QED BY <1>0, <2>2, <2>3, <2>4, <2>5, <2>6, <2>7 DEF LoopInv
<1>7. CASE BeginTx(l)
  <2>1. frame'[l] = [f EXCEPT !.ins = f.events \ buffer] /\ pc'[l] = "commit"
    BY <1>0, <1>7 DEF BeginTx, Goto, TypeOK
  <2>2. /\ frame'[l].block = f.block /\ frame'[l].endBlock = f.endBlock
        /\ frame'[l].latest = f.latest /\ frame'[l].fresh = f.fresh
        /\ frame'[l].events = f.events /\ frame'[l].ins = f.events \ buffer
        /\ frame'[l].left = f.left
    BY <1>0, <2>1 DEF Frame
  <2>3. head' = head /\ chain' = chain /\ base' = base /\ buffer' = buffer /\ acked' = acked
        /\ dropped' = dropped
    BY <1>7 DEF BeginTx, net, db
  <2>4. ~f.fresh => Covered(frame[l].block - 1)'
    BY <1>0, <1>7, <2>2, <2>3 DEF BeginTx, LoopInv, Covered, Captured
  <2> QED BY <1>0, <1>7, <2>1, <2>2, <2>3, <2>4 DEF BeginTx, LoopInv, Captured
<1>8. CASE Commit(l)
  <2>1. CASE f.block < f.endBlock
    <3>1. frame'[l] = [f EXCEPT !.events = {}, !.left = {}, !.ins = {}] /\ pc'[l] = "delay"
      BY <1>0, <1>8, <2>1 DEF Commit, Goto, TypeOK
    <3>2. /\ frame'[l].block = f.block /\ frame'[l].endBlock = f.endBlock
          /\ frame'[l].latest = f.latest /\ frame'[l].fresh = f.fresh
          /\ frame'[l].events = {} /\ frame'[l].ins = {}
      BY <1>0, <3>1 DEF Frame
    <3>3. pc[l] = "commit" /\ ~f.fresh
      BY <1>0, <1>8, <2>1 DEF Commit, LoopInv
    <3>4. Covered(frame[l].block)'
      BY <1>0, <1>8, <3>2, <3>3, CommitCovers
    <3>5. head' = head
      BY <1>8 DEF Commit, net
    <3> QED BY <1>0, <2>1, <3>1, <3>2, <3>3, <3>4, <3>5 DEF LoopInv
  <2>2. CASE ~(f.block < f.endBlock)
    BY <1>1, <1>8, <2>2 DEF Commit, Return, Goto
  <2> QED BY <2>1, <2>2
<1>9. CASE NextBlock(l)
  <2>1. frame'[l] = [f EXCEPT !.block = f.block + 1] /\ pc'[l] = "scan"
    BY <1>0, <1>9 DEF NextBlock, Goto, TypeOK
  <2>2. /\ frame'[l].block = f.block + 1 /\ frame'[l].endBlock = f.endBlock
        /\ frame'[l].latest = f.latest /\ frame'[l].fresh = f.fresh
        /\ frame'[l].events = f.events /\ frame'[l].ins = f.ins
    BY <1>0, <2>1 DEF Frame
  <2>3. head' = head /\ chain' = chain /\ base' = base /\ buffer' = buffer /\ acked' = acked
        /\ dropped' = dropped
    BY <1>9 DEF NextBlock, net, db
  <2>4. f.block < f.endBlock /\ ~f.fresh /\ f.events = {} /\ f.ins = {} /\ Covered(f.block)
    BY <1>0, <1>9 DEF NextBlock, LoopInv
  <2>5. Covered(frame[l].block - 1)'
    BY <1>0, <2>2, <2>3, <2>4 DEF Covered, Captured
  <2> QED BY <1>0, <1>9, <2>1, <2>2, <2>3, <2>4, <2>5 DEF NextBlock, LoopInv
<1>10. CASE Fail(l)
  BY <1>1, <1>10 DEF Fail, Return, Goto
<1>11. CASE Stop(l)
  BY <1>1, <1>11 DEF Stop, Exit, Goto
<1>12. CASE Crash(l)
  BY <1>1, <1>12 DEF Crash, Exit, Goto
<1>13. CASE Start(l)
  <2>1. frame' = frame /\ pc'[l] = "idle"
    BY <1>0, <1>13 DEF Start, Goto, TypeOK
  <2> QED BY <1>0, <1>13, <2>1 DEF Start, LoopInv
<1>14. CASE ScanPartly(l)
  <2>1. PICK evs \in SUBSET chain[f.block] :
          frame' = [frame EXCEPT ![l] = [frame[l] EXCEPT !.events = evs,
                                           !.left = chain[f.block] \ evs]]
    BY <1>14 DEF ScanPartly
  <2>2. frame'[l] = [f EXCEPT !.events = evs, !.left = chain[f.block] \ evs]
        /\ pc'[l] = "begin"
    BY <1>0, <1>14, <2>1 DEF ScanPartly, Goto, TypeOK
  <2>3. f.ins = {} /\ ~f.fresh /\ f.block # 0 /\ Covered(f.block - 1)
        /\ f.block <= f.endBlock /\ f.endBlock + MinConfirmations <= f.latest
        /\ MinConfirmations <= f.latest /\ f.latest <= head
    BY <1>0, <1>14 DEF ScanPartly, LoopInv
  <2>4. /\ frame'[l].block = f.block /\ frame'[l].endBlock = f.endBlock
        /\ frame'[l].latest = f.latest /\ frame'[l].fresh = f.fresh
        /\ frame'[l].events = evs /\ frame'[l].ins = f.ins
        /\ frame'[l].left = chain[f.block] \ evs
    BY <1>0, <2>2 DEF Frame
  <2>5. head' = head /\ chain' = chain /\ base' = base /\ buffer' = buffer /\ acked' = acked
        /\ dropped' = dropped
    BY <1>14 DEF ScanPartly, net, db
  <2>6. Covered(frame[l].block - 1)'
    BY <2>3, <2>4, <2>5 DEF Covered, Captured
  <2> QED BY <1>0, <2>2, <2>3, <2>4, <2>5, <2>6 DEF LoopInv
<1> QED
  BY <1>2, <1>3, <1>4, <1>5, <1>6, <1>7, <1>8, <1>9, <1>10, <1>11, <1>12, <1>13,
     <1>14 DEF Step
-----------------------------------------------------------------------------
\* Init establishes the invariant.
LEMMA InitInv == Init => Inv
<1> SUFFICES ASSUME Init PROVE Inv
  OBVIOUS
<1>1. TypeOK
  BY ScanAssumption DEF Init, TypeOK, NoFrame, Frame, PC
<1>2. CursorInv /\ NoDepositSkipped /\ NoPhantomDeposit
  BY ScanAssumption DEF Init, CursorInv, NoDepositSkipped, NoPhantomDeposit, Covered,
     Captured, Blocks
<1>3. ASSUME NEW l \in Loops PROVE LoopInv(l)
  BY DEF Init, LoopInv, NoFrame
<1> QED BY <1>1, <1>2, <1>3 DEF Inv

\* Every step keeps it: the acting loop by MovedStep, the others by UnmovedStep,
\* the database by CoveredStable and, for a commit, CommitCovers.
LEMMA NextInv == Inv /\ [Next]_vars => Inv'
<1> SUFFICES ASSUME Inv, [Next]_vars PROVE Inv'
  OBVIOUS
<1>1. TypeOK' /\ Stable /\ TypeOK
  BY TypeStep, StableStep DEF Inv
<1>2. ASSUME NEW l \in Loops PROVE LoopInv(l)'
  <2>1. CASE Unmoved(l)
    BY <1>1, <2>1, UnmovedStep
  <2>2. CASE Step(l) \/ ScanPartly(l) \/ Fail(l) \/ Stop(l) \/ Crash(l) \/ Start(l)
    BY <1>1, <2>2, MovedStep
  <2>3. ASSUME NEW m \in Loops, m # l,
               Step(m) \/ ScanPartly(m) \/ Fail(m) \/ Stop(m) \/ Crash(m) \/ Start(m)
        PROVE  Unmoved(l)
    BY <1>1, <2>3 DEF TypeOK, Unmoved, Step, Poll, InitCursor, SaveConfirmedHead,
       NothingNew, PlanBlocks, ScanBlock, ScanPartly, BeginTx, Commit, NextBlock, Fail,
       Stop, Crash, Start, Exit, Return, Goto
  <2>4. ASSUME NEW m \in Loops, Cancel(m) PROVE Unmoved(l)
    BY <1>1, <2>4 DEF TypeOK, Unmoved, Cancel
  <2>5. CASE \/ \E S \in SUBSET Deposit : Mine(S)
             \/ \E b \in Blocks, S \in SUBSET Deposit : Reorg(b, S)
             \/ \E d \in Deposit : Ack(d)
    BY <2>1, <2>5 DEF Unmoved, Mine, Reorg, Ack
  <2>6. CASE UNCHANGED vars
    BY <2>6, <2>1 DEF Unmoved, vars
  <2> QED
    BY <2>1, <2>2, <2>3, <2>4, <2>5, <2>6 DEF Next
<1>3. CursorInv' /\ NoDepositSkipped' /\ NoPhantomDeposit'
  <2>1. ASSUME cursor' = cursor, Captured' \subseteq Captured
        PROVE  CursorInv' /\ NoDepositSkipped' /\ NoPhantomDeposit'
    <3>1. CursorInv'
      BY <1>1, <2>1, ScanAssumption DEF Inv, CursorInv, Confirmed, Stable, TypeOK
    <3>2. Covered(cursor)'
      BY <1>1, <2>1, CoveredStable DEF Inv, CursorInv, NoDepositSkipped, TypeOK
    <3>3. NoPhantomDeposit'
      BY <1>1, <2>1, ScanAssumption
      DEF Inv, NoPhantomDeposit, Confirmed, Stable, TypeOK, Blocks
    <3> QED BY <3>1, <3>2, <3>3 DEF NoDepositSkipped
  <2>2. ASSUME NEW l \in Loops, Commit(l)
        PROVE  CursorInv' /\ NoDepositSkipped' /\ NoPhantomDeposit'
    <3> DEFINE f == frame[l]
    <3>1. /\ f.block \in Nat /\ f.endBlock \in Nat /\ f.latest \in Nat /\ base \in Nat \cup {-1}
          /\ LoopInv(l) /\ pc[l] = "commit" /\ head' = head /\ cursor' = f.block
      BY <1>1, <2>2 DEF Inv, TypeOK, Frame, Commit, AdvanceCursor, net
    <3>2. Confirmed(f.block)
      BY <1>1, <3>1, ScanAssumption DEF LoopInv, Confirmed, TypeOK
    <3>3. CursorInv'
      BY <3>1, <3>2 DEF CursorInv, Confirmed
    <3>4. NoDepositSkipped'
      <4>1. CASE f.fresh
        <5>1. cursor' <= base'
          BY <2>2, <3>1, <4>1 DEF Commit
        <5> QED BY <1>1, <5>1 DEF NoDepositSkipped, Covered, TypeOK, Blocks
      <4>2. CASE ~f.fresh
        BY <1>1, <2>2, <3>1, <4>2, CommitCovers DEF NoDepositSkipped
      <4> QED BY <4>1, <4>2
    <3>5. NoPhantomDeposit'
      <4> SUFFICES ASSUME NEW d \in Captured'
                   PROVE  \E b \in Blocks : Confirmed(b)' /\ d \in chain'[b]
        BY DEF NoPhantomDeposit
      <4>1. CASE d \in Captured
        BY <1>1, <3>1, <4>1 DEF Inv, NoPhantomDeposit, Confirmed, Stable
      <4>2. CASE d \notin Captured
        <5>1. d \in f.events /\ ~f.fresh
          BY <2>2, <3>1, <4>2 DEF Commit, Captured, LoopInv
        <5>2. f.block \in Blocks /\ d \in chain[f.block]
          BY <3>1, <5>1, BlockIsBlock DEF LoopInv
        <5> QED BY <1>1, <3>1, <3>2, <5>2 DEF Stable, Confirmed
      <4> QED BY <4>1, <4>2
    <3> QED BY <3>3, <3>4, <3>5
  <2>3. ASSUME NEW d \in Deposit, Ack(d) PROVE cursor' = cursor /\ Captured' \subseteq Captured
    BY <2>3 DEF Ack, Captured
  <2>4. CASE UNCHANGED db
    BY <2>1, <2>4 DEF db, Captured
  <2> QED
    BY <2>1, <2>2, <2>3, <2>4 DEF Next, Step, Mine, Reorg, Poll, InitCursor, NothingNew,
       PlanBlocks, ScanBlock, ScanPartly, BeginTx, NextBlock, Fail, Cancel, Stop, Crash,
       Start, vars, db
<1> QED BY <1>1, <1>2, <1>3 DEF Inv

\* The strengthened invariant of the loop, its cursor and the buffer always holds.
THEOREM Invariance == Spec => []Inv
BY InitInv, NextInv, PTL DEF Spec

\* Type correctness of loop, cursor and buffer.
THEOREM TypeCorrect == Spec => []TypeOK
<1>1. Inv => TypeOK
  BY DEF Inv
<1> QED BY <1>1, Invariance, PTL

\* README rule 2: no deposit between the starting block and scan_cursor is ever
\* missing from deposit_buffer, unless the publisher has deleted its row or the scan
\* of its block reported success without it, for any
\* number of overlapping loops and any pattern of failures.
THEOREM NothingSkipped == Spec => []NoDepositSkipped
<1>1. Inv => NoDepositSkipped
  BY DEF Inv
<1> QED BY <1>1, Invariance, PTL

\* README rule 1: as long as no reorganisation is deeper than MinConfirmations,
\* every recorded deposit is in a confirmed block of the canonical chain.
THEOREM NothingPhantom == Spec => []NoPhantomDeposit
<1>1. Inv => NoPhantomDeposit
  BY DEF Inv
<1> QED BY <1>1, Invariance, PTL
=============================================================================
