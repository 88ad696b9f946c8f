------------------------------ MODULE ScanLoop ------------------------------
(***************************************************************************)
(* One (chain, scanner) pair: the polling loop of internal/scanner/loop.go *)
(* and the transaction by which it records deposits and moves its cursor   *)
(* (internal/database/buffer_repo.go, SaveAndAdvance).                     *)
(*                                                                         *)
(* Around the loop: a chain that grows and reorganises, RPC and database   *)
(* errors, panics and process crashes, cancellation by the supervisor, and *)
(* the publisher deleting rows.  Loops is the set of goroutines that may   *)
(* run the pair.  More than one of them is alive when the supervisor has   *)
(* cancelled a chain's loop without waiting for it (supervisor.go:113-119) *)
(* and the chain comes back while the old transaction is in flight.        *)
(***************************************************************************)
EXTENDS Integers, FiniteSets

CONSTANTS
  Deposit,            \* deposits, by their key (chain_id, tx_hash, log_index)
  Loops,              \* goroutines that may run this (chain, scanner) pair
  MinConfirmations,   \* LoopConfig.MinConfirmations
  MaxBlocksPerPoll,   \* LoopConfig.MaxBlocksPerPoll
  ReorgDepth,         \* the deepest reorganisation of the chain
  FirstHead,          \* height of the chain when the listener first starts
  MaxHead,            \* bound: height at which the chain stops growing
  MaxFaults           \* bound: errors, cancellations, panics and crashes

ASSUME ScanAssumption ==
  /\ MinConfirmations \in Nat
  /\ MaxBlocksPerPoll \in Nat \ {0}
  /\ ReorgDepth \in Nat
  /\ ReorgDepth <= MinConfirmations
  /\ FirstHead \in Nat
  /\ MaxHead \in Nat
  /\ FirstHead <= MaxHead
  /\ MaxFaults \in Nat

VARIABLES
  head,     \* height of the canonical chain
  chain,    \* the deposits in each block of it
  cursor,   \* scan_cursor.last_block, 0 when there is no row
  buffer,   \* rows of deposit_buffer
  acked,    \* deposits whose row the publisher has deleted
  dropped,  \* history: deposits that committed scans left out without an error
  base,     \* history: highest block a cursor initialisation wrote, or -1
  pc,       \* where each loop is
  ctxDone,  \* whether each loop's context has been cancelled
  frame,    \* the local variables of each loop's pollOnce
  faults    \* faults so far

db == <<cursor, buffer, acked, dropped, base>>
net == <<head, chain>>
vars == <<head, chain, cursor, buffer, acked, dropped, base, pc, ctxDone, frame,
          faults>>

Blocks == 1..MaxHead

\* "idle" is the select of Run, "cursor" the call to Cursor, "scan" the call to
\* ScanBlock, "begin" the call to SaveAndAdvance, "commit" its COMMIT in flight,
\* "delay" the select between two blocks.
PC == {"stopped", "idle", "cursor", "scan", "begin", "commit", "delay"}

Frame == [latest : Nat, block : Nat, endBlock : Nat, fresh : BOOLEAN,
          events : SUBSET Deposit, left : SUBSET Deposit, ins : SUBSET Deposit]

NoFrame == [latest |-> 0, block |-> 0, endBlock |-> 0, fresh |-> FALSE,
            events |-> {}, left |-> {}, ins |-> {}]

Init ==
  /\ head = FirstHead
  /\ chain = [b \in Blocks |-> {}]
  /\ cursor = 0
  /\ buffer = {}
  /\ acked = {}
  /\ dropped = {}
  /\ base = -1
  /\ pc = [l \in Loops |-> "stopped"]
  /\ ctxDone = [l \in Loops |-> FALSE]
  /\ frame = [l \in Loops |-> NoFrame]
  /\ faults = 0

Fault ==
  /\ faults < MaxFaults
  /\ faults' = faults + 1

-----------------------------------------------------------------------------
(* The chain and the publisher, as the loop meets them.                    *)

OnChain == UNION {chain[b] : b \in Blocks}

\* A block is mined with the deposits S; a deposit is in one block at a time.
Mine(S) ==
  /\ head < MaxHead
  /\ S \cap OnChain = {}
  /\ head' = head + 1
  /\ chain' = [chain EXCEPT ![head + 1] = S]
  /\ UNCHANGED <<db, pc, ctxDone, frame, faults>>

\* A reorganisation replaces a block among the ReorgDepth newest ones.
Reorg(b, S) ==
  /\ head - ReorgDepth < b
  /\ b <= head
  /\ S \cap (OnChain \ chain[b]) = {}
  /\ chain' = [chain EXCEPT ![b] = S]
  /\ UNCHANGED <<head, db, pc, ctxDone, frame, faults>>

\* The publisher deletes the row of a deposit (BufferRepo.Ack).
Ack(d) ==
  /\ d \in buffer
  /\ buffer' = buffer \ {d}
  /\ acked' = acked \cup {d}
  /\ UNCHANGED <<net, cursor, dropped, base, pc, ctxDone, frame, faults>>
-----------------------------------------------------------------------------
(* pollOnce.                                                               *)

Goto(l, label) == pc' = [pc EXCEPT ![l] = label]

\* pollOnce returns; Run waits for the next tick.
Return(l) ==
  /\ Goto(l, "idle")
  /\ frame' = [frame EXCEPT ![l] = NoFrame]

\* Slip: counts the head itself as a confirmation.
MaxConfirmedOffByOne(latest) == latest - MinConfirmations + 1

MaxConfirmed(latest) == latest - MinConfirmations

StartBlock(c) == c + 1

\* Slip: the newest confirmed block is taken for an unconfirmed one.
NewBlocksOffByOne(start, maxConfirmed) == start < maxConfirmed

NewBlocks(start, maxConfirmed) == start <= maxConfirmed

EndBlock(start, maxConfirmed) ==
  LET last == start + MaxBlocksPerPoll - 1
  IN  IF last > maxConfirmed THEN maxConfirmed ELSE last

\* Slip: no test before the unsigned subtraction.
PollWithoutGate(l) ==
  /\ pc[l] = "idle"
  /\ ~ctxDone[l]
  /\ Goto(l, "cursor")
  /\ frame' = [frame EXCEPT ![l].latest = head]
  /\ UNCHANGED <<net, db, ctxDone, faults>>

\* The head is read.  Below MinConfirmations pollOnce returns at once.
Poll(l) ==
  /\ pc[l] = "idle"
  /\ ~ctxDone[l]
  /\ MinConfirmations <= head
  /\ Goto(l, "cursor")
  /\ frame' = [frame EXCEPT ![l].latest = head]
  /\ UNCHANGED <<net, db, ctxDone, faults>>

\* The call SaveAndAdvance(maxConfirmed, nil).
SaveConfirmedHead(l) ==
  LET m == MaxConfirmed(frame[l].latest)
  IN  /\ Goto(l, "begin")
      /\ frame' = [frame EXCEPT ![l] = [@ EXCEPT !.block = m, !.endBlock = m,
                                                 !.fresh = TRUE]]

\* Slip: a loop that lags a whole poll behind jumps to the head.
InitCursorWhenBehind(l) ==
  /\ pc[l] = "cursor"
  /\ cursor = 0 \/ cursor + MaxBlocksPerPoll <= MaxConfirmed(frame[l].latest)
  /\ SaveConfirmedHead(l)
  /\ UNCHANGED <<net, db, ctxDone, faults>>

\* No cursor yet: SaveAndAdvance is called for the confirmed head, no deposits.
InitCursor(l) ==
  /\ pc[l] = "cursor"
  /\ cursor = 0
  /\ SaveConfirmedHead(l)
  /\ UNCHANGED <<net, db, ctxDone, faults>>

\* Nothing confirmed past the cursor.
NothingNew(l) ==
  /\ pc[l] = "cursor"
  /\ cursor # 0
  /\ ~NewBlocks(StartBlock(cursor), MaxConfirmed(frame[l].latest))
  /\ Return(l)
  /\ UNCHANGED <<net, db, ctxDone, faults>>

\* The blocks of this poll are chosen.
PlanBlocks(l) ==
  /\ pc[l] = "cursor"
  /\ cursor # 0
  /\ NewBlocks(StartBlock(cursor), MaxConfirmed(frame[l].latest))
  /\ Goto(l, "scan")
  /\ LET start == StartBlock(cursor)
         end   == EndBlock(start, MaxConfirmed(frame[l].latest))
     IN  frame' = [frame EXCEPT ![l] = [@ EXCEPT !.block = start,
                                                 !.endBlock = end]]
  /\ UNCHANGED <<net, db, ctxDone, faults>>

\* What ScanBlock returns without an error when no call of it fails by itself.
\* After a cancellation the calls of a trace scan fail, and it still returns
\* normally, without what they were to find (trace_scanner.go:119-123, 216-217).
ScanResults(l) ==
  LET found == chain[frame[l].block]
  IN  IF ctxDone[l] THEN SUBSET found ELSE {found}

ScanBlock(l) ==
  /\ pc[l] = "scan"
  /\ Goto(l, "begin")
  /\ \E evs \in ScanResults(l) : frame' = [frame EXCEPT ![l].events = evs]
  /\ UNCHANGED <<net, db, ctxDone, faults>>

\* A deposit is left out although nobody cancelled: a trace or an account lookup
\* fails by itself and is skipped, or convertEvents does not take the event.  What
\* the scanner leaves out is the subject of TraceScan; here it is accounted for.
ScanPartly(l) ==
  /\ pc[l] = "scan"
  /\ ~ctxDone[l]
  /\ Goto(l, "begin")
  /\ \E evs \in SUBSET chain[frame[l].block] :
       frame' = [frame EXCEPT ![l] = [@ EXCEPT !.events = evs,
                                               !.left = chain[frame[l].block] \ evs]]
  /\ Fault
  /\ UNCHANGED <<net, db, ctxDone>>

\* Slip: the transaction runs on a context of its own.
BeginTxDetached(l) ==
  /\ pc[l] = "begin"
  /\ \A m \in Loops \ {l} : frame[m].ins \cap frame[l].events = {}
  /\ Goto(l, "commit")
  /\ frame' = [frame EXCEPT ![l].ins = frame[l].events \ buffer]
  /\ UNCHANGED <<net, db, ctxDone, faults>>

\* BeginTx and the INSERTs, ON CONFLICT DO NOTHING.  They fail once the context
\* is cancelled, and wait for a transaction holding one of the same new keys.
BeginTx(l) ==
  /\ pc[l] = "begin"
  /\ ~ctxDone[l]
  /\ \A m \in Loops \ {l} : frame[m].ins \cap frame[l].events = {}
  /\ Goto(l, "commit")
  /\ frame' = [frame EXCEPT ![l].ins = frame[l].events \ buffer]
  /\ UNCHANGED <<net, db, ctxDone, faults>>

\* Slip: the cursor names the next block instead of the last one.
AdvanceCursorPast(block) == cursor' = block + 1

\* The cursor's upsert: it overwrites whatever value is there.
AdvanceCursor(block) == cursor' = block

\* The cursor's upsert and COMMIT, which may happen after a cancellation.  A
\* commit whose answer is lost is this step followed by Fail.
Commit(l) ==
  LET f == frame[l]
  IN  /\ pc[l] = "commit"
      /\ buffer' = buffer \cup f.ins
      /\ dropped' = dropped \cup f.left
      /\ AdvanceCursor(f.block)
      /\ base' = IF f.fresh /\ f.block > base THEN f.block ELSE base
      /\ IF f.block < f.endBlock
         THEN /\ Goto(l, "delay")
              /\ frame' = [frame EXCEPT ![l] = [@ EXCEPT !.events = {}, !.left = {},
                                                          !.ins = {}]]
         ELSE Return(l)
      /\ UNCHANGED <<net, acked, ctxDone, faults>>

NextBlock(l) ==
  /\ pc[l] = "delay"
  /\ Goto(l, "scan")
  /\ frame' = [frame EXCEPT ![l].block = @ + 1]
  /\ UNCHANGED <<net, db, ctxDone, faults>>
-----------------------------------------------------------------------------
(* Faults, cancellation and restart.                                       *)

\* A call of pollOnce fails: the poll ends, an open transaction is rolled back.
\* After a cancellation every call may fail, before it only a fault can.
Fail(l) ==
  /\ pc[l] \in {"cursor", "scan", "begin", "commit"}
  /\ Return(l)
  /\ IF ctxDone[l] THEN UNCHANGED faults ELSE Fault
  /\ UNCHANGED <<net, db, ctxDone>>

\* The supervisor cancels the loop's context: chain deactivated or reloaded,
\* its twin loop ended, or the process is shutting down.
Cancel(l) ==
  /\ pc[l] # "stopped"
  /\ ~ctxDone[l]
  /\ ctxDone' = [ctxDone EXCEPT ![l] = TRUE]
  /\ Fault
  /\ UNCHANGED <<net, db, pc, frame>>

Exit(l) ==
  /\ Goto(l, "stopped")
  /\ ctxDone' = [ctxDone EXCEPT ![l] = FALSE]
  /\ frame' = [frame EXCEPT ![l] = NoFrame]

\* ctx.Done() at one of the two selects: Run returns.
Stop(l) ==
  /\ pc[l] \in {"idle", "delay"}
  /\ ctxDone[l]
  /\ Exit(l)
  /\ UNCHANGED <<net, db, faults>>

\* A panic, or the death of the process; an open transaction is rolled back.
Crash(l) ==
  /\ pc[l] # "stopped"
  /\ Exit(l)
  /\ Fault
  /\ UNCHANGED <<net, db>>

\* The supervisor starts a loop once it has none for the pair that it has not
\* cancelled.
Start(l) ==
  /\ pc[l] = "stopped"
  /\ \A m \in Loops : pc[m] = "stopped" \/ ctxDone[m]
  /\ Goto(l, "idle")
  /\ UNCHANGED <<net, db, ctxDone, frame, faults>>
-----------------------------------------------------------------------------
Step(l) ==
  \/ Poll(l) \/ InitCursor(l) \/ NothingNew(l) \/ PlanBlocks(l)
  \/ ScanBlock(l) \/ BeginTx(l) \/ Commit(l) \/ NextBlock(l)

Next ==
  \/ \E S \in SUBSET Deposit : Mine(S)
  \/ \E b \in Blocks, S \in SUBSET Deposit : Reorg(b, S)
  \/ \E d \in Deposit : Ack(d)
  \/ \E l \in Loops :
       Step(l) \/ ScanPartly(l) \/ Fail(l) \/ Cancel(l) \/ Stop(l) \/ Crash(l) \/ Start(l)

Spec == Init /\ [][Next]_vars
-----------------------------------------------------------------------------
TypeOK ==
  /\ head \in Nat /\ head <= MaxHead
  /\ chain \in [Blocks -> SUBSET Deposit]
  /\ cursor \in Nat
  /\ buffer \in SUBSET Deposit
  /\ acked \in SUBSET Deposit
  /\ dropped \in SUBSET Deposit
  /\ base \in Nat \cup {-1}
  /\ pc \in [Loops -> PC]
  /\ ctxDone \in [Loops -> BOOLEAN]
  /\ frame \in [Loops -> Frame]
  /\ faults \in Nat

Confirmed(b) == b + MinConfirmations <= head

Captured == buffer \cup acked

Covered(n) ==
  \A b \in Blocks : base < b /\ b <= n => chain[b] \subseteq Captured \cup dropped

\* The invariant stated above SaveAndAdvance (buffer_repo.go:26) and README
\* rule 2: the cursor only passes a block whose deposits are durable.  Every
\* deposit of the canonical chain between the block the cursor started from
\* and the cursor has a row, or had one that the publisher deleted, whatever
\* failed or overlapped on the way, unless the scan itself reported success
\* without it (ScanPartly).
NoDepositSkipped == Covered(cursor)

\* README rule 1, the confirmation gate of pollOnce: a deposit that was
\* recorded is in a confirmed block of the canonical chain, and stays there.
NoPhantomDeposit ==
  \A d \in Captured : \E b \in Blocks : Confirmed(b) /\ d \in chain[b]

\* README rule 5, "resumes exactly at scan_cursor": with one goroutine at a time
\* the cursor moves one block at a time, through errors, crashes and restarts,
\* except when it is set for the first time.
CursorAdvancesByOne ==
  [][cursor' # cursor => cursor = 0 \/ cursor' = cursor + 1]_vars

\* loop.go:112: jumping to the confirmed head is for a new chain only.  Once a
\* cursor has been written it is not initialised again, unless what was written
\* is 0, which loop.go:114 takes for no cursor.
InitialisedOnce == [][base > 0 => base' = base]_vars
=============================================================================
