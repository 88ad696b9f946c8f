------------------------------ MODULE TraceScan ------------------------------
(***************************************************************************)
(* TraceScanner (internal/scanner/trace_scanner.go): the deposits that     *)
(* contracts make by internal calls.  ScanBlock asks for the call tree of  *)
(* every transaction to a contract, walks it depth first, and numbers what *)
(* it finds with one counter for the block; the number is the log_index of *)
(* the deposit's key.  What SaveAndAdvance, the UNIQUE constraint and the  *)
(* Adapter then make of the events is `credited`: the first deposit under  *)
(* a key is taken, and a second one with the same key is not.  Accounts    *)
(* are registered while all this goes on.                                  *)
(***************************************************************************)
EXTENDS Integers, Sequences, FiniteSets, Functions

CONSTANTS
  Tx,           \* transactions
  Frame,        \* call frames below the root of some transaction
  Addr,         \* addresses that transactions are sent to
  None,         \* tx.To() of a contract creation
  Block,        \* Block[b]: the transactions of block b
  To,           \* To[t]: the address t is sent to, or None
  Calls,        \* Calls[x]: the calls made directly by a frame or by a root
  Transfers,    \* frames that are a CALL with a value
  Accounts,     \* the addresses that are or will be accounts
  Registered,   \* those that are from the beginning
  Receiver,     \* Receiver[f]: the address that transfer f calls
  Reverted,     \* frames whose `error` is set
  FailedTx,     \* transactions whose root frame's `error` is set
  DeployedAt,   \* DeployedAt[a]: the block from which a has code
  MaxDepth,     \* maxCallFrameDepth
  CacheMax,     \* codeCacheMaxEntries
  MaxFaults     \* bound: failed RPC calls and queries

ASSUME TraceAssumption ==
  /\ Block \in Seq(Seq(Tx)) /\ Block # <<>>
  /\ To \in [Tx -> Addr \cup {None}]
  /\ Calls \in [Tx \cup Frame -> Seq(Frame)]
  /\ Transfers \subseteq Frame /\ Registered \subseteq Accounts
  /\ Reverted \subseteq Frame /\ FailedTx \subseteq Tx
  /\ DeployedAt \in [Addr -> Nat]
  /\ MaxDepth \in Nat /\ CacheMax \in Nat \ {0}
  /\ MaxFaults \in Nat
  /\ IsFiniteSet(Frame) /\ Tx \cap Frame = {} /\ None \notin Addr

\* What the chain promises.  A transaction is in one block, at one place, and an
\* address that has no code makes no calls.
ASSUME ChainAssumption ==
  /\ \A b, c \in DOMAIN Block : \A i \in DOMAIN Block[b], j \in DOMAIN Block[c] :
       Block[b][i] = Block[c][j] => b = c /\ i = j
  /\ \A b \in DOMAIN Block : \A t \in Range(Block[b]) :
       To[t] # None /\ Calls[t] # <<>> => DeployedAt[To[t]] <= b

\* What the tracer promises.  The calls of a transaction are a tree: a frame is called
\* once, and lies one level below its caller, down to the EVM's own limit of the depth.
ASSUME TreeAssumption ==
  /\ \A x, y \in Tx \cup Frame : \A i \in DOMAIN Calls[x], j \in DOMAIN Calls[y] :
       Calls[x][i] = Calls[y][j] => x = y /\ i = j
  /\ \E level \in [Frame -> 0 .. MaxDepth] :
       /\ \A t \in Tx : \A f \in Range(Calls[t]) : level[f] = 0
       /\ \A g \in Frame : \A f \in Range(Calls[g]) : level[f] = level[g] + 1

VARIABLES
  head,         \* the last block of the chain
  accounts,     \* the accounts table
  codeCache,    \* TraceScanner.codeCache: [address |-> isContract]
  traceUnsupported,
  pc,           \* "idle", or where ScanBlock is: "tx", "trace", "collect", "done"
  block,        \* the block being scanned
  txs,          \* transactions of the block still to be looked at
  stack,        \* frames still to be visited, each with its depth
  frameCounter,
  events,       \* the deposits found so far, with their keys
  credited,     \* [key |-> deposit]: buffered, and taken by the Adapter
  traced,       \* blocks the cursor has passed, saved while tracing was supported
  clean,        \* history: no wrong or missing answer in this scan so far
  known,        \* history: the accounts when this scan began
  steady,       \* history: every saved scan was clean, and no account registered since
                \* it began has a deposit in its block
  faults

world == <<head, accounts>>
scanner == <<codeCache, traceUnsupported>>
local == <<block, txs, stack, frameCounter, events>>
result == <<credited, traced, steady>>
vars == <<world, scanner, pc, local, result, clean, known, faults>>

Empty == [x \in {} |-> x]

Init ==
  /\ head = 1 /\ accounts = Registered /\ known = Registered
  /\ codeCache = Empty /\ traceUnsupported = FALSE
  /\ pc = "idle" /\ block = 1 /\ txs = <<>> /\ stack = <<>>
  /\ frameCounter = 0 /\ events = {}
  /\ credited = Empty /\ traced = {}
  /\ clean = TRUE /\ steady = TRUE /\ faults = 0

Fault ==
  /\ faults < MaxFaults
  /\ faults' = faults + 1

-----------------------------------------------------------------------------
(* The deposits of a block, read from the frame up to the root.            *)

Node == Tx \cup Frame

\* The sets that hold, with a frame, the frame or root that calls it.
UpClosed ==
  {S \in SUBSET Node : \A x \in Node : S \cap Range(Calls[x]) # {} => x \in S}

\* The frame itself, its caller, the caller of that, up to the transaction.
Above == [f \in Node |-> {x \in Node : \A S \in UpClosed : f \in S => x \in S}]

\* Neither the frame nor a frame around it reverted.
Lasting(f) == Above[f] \cap Reverted = {}

\* The transactions ScanBlock looks at: not those that create a contract.
Sent(b) == {t \in Range(Block[b]) : To[t] # None}

\* The transfers of block b that lasted.
Made(b) == {f \in Transfers : Lasting(f) /\ Above[f] \cap Sent(b) # {}}

\* Those to an account of A: what ScanBlock is to find when A are the accounts.
Due(b, A) == {f \in Made(b) : Receiver[f] \in A}

\* No account registered since this scan began has a deposit in its block.
Settled == Due(block, accounts) = Due(block, known)
-----------------------------------------------------------------------------
(* The world.                                                              *)

\* The chain grows by a block.
Mine ==
  /\ head < Len(Block)
  /\ head' = head + 1
  /\ UNCHANGED <<accounts, known, scanner, pc, local, result, clean, faults>>

\* An account is registered, in the middle of a scan or between two.
Register(a) ==
  /\ a \notin accounts
  /\ accounts' = accounts \cup {a}
  /\ steady' = (steady /\ \A b \in traced : Due(b, accounts') = Due(b, accounts))
  /\ UNCHANGED <<head, scanner, pc, local, credited, traced, clean, known, faults>>

\* A reload, a restart, or a second loop on the same cursor: a new scanner.
NewTraceScanner ==
  /\ pc = "idle"
  /\ codeCache # Empty \/ traceUnsupported
  /\ codeCache' = Empty
  /\ traceUnsupported' = FALSE
  /\ UNCHANGED <<world, known, pc, local, result, clean, faults>>
-----------------------------------------------------------------------------
(* ScanBlock.                                                              *)

\* Slip: the counter is a field of the scanner, not a variable of the call.
CounterKept == frameCounter

CounterStart == 0

\* The call, and BlockByNumber.  A scanner that knows tracing to be unsupported
\* returns no events.  The loop may come back to a block that is saved: while two
\* runners of a chain overlap, the cursor can go back (see ScanLoop).
ScanBlock(b) ==
  /\ pc = "idle"
  /\ b <= head
  /\ block' = b /\ known' = accounts
  /\ events' = {} /\ frameCounter' = CounterStart
  /\ clean' = ~traceUnsupported
  /\ IF traceUnsupported
     THEN pc' = "done" /\ UNCHANGED txs
     ELSE pc' = "tx" /\ txs' = Block[b]
  /\ UNCHANGED <<world, scanner, stack, result, faults>>

\* tx.To() is nil, a contract creation: the transaction is not traced.
SkipCreation ==
  /\ pc = "tx"
  /\ txs # <<>>
  /\ To[Head(txs)] = None
  /\ txs' = Tail(txs)
  /\ UNCHANGED <<world, known, scanner, pc, block, stack, frameCounter,
                 events, result, clean, faults>>

HasCode(a) == DeployedAt[a] <= head

\* Slip: the limit is not looked at.
RememberAll(a) ==
  [x \in DOMAIN codeCache \cup {a} |-> IF x = a THEN HasCode(a) ELSE codeCache[x]]

\* CodeAt at the latest block, remembered; a full cache is emptied first.
Remember(a) ==
  LET kept == IF Cardinality(DOMAIN codeCache) >= CacheMax
              THEN {} ELSE DOMAIN codeCache
  IN  [x \in kept \cup {a} |-> IF x = a THEN HasCode(a) ELSE codeCache[x]]

\* isContract: a transaction to an address without code is not traced.
IsContract ==
  /\ pc = "tx"
  /\ txs # <<>>
  /\ To[Head(txs)] # None
  /\ LET a == To[Head(txs)] IN
     /\ codeCache' = IF a \in DOMAIN codeCache THEN codeCache ELSE Remember(a)
     /\ IF codeCache'[a]
        THEN pc' = "trace" /\ UNCHANGED txs
        ELSE txs' = Tail(txs) /\ UNCHANGED pc
     /\ clean' = (clean /\ codeCache'[a] = HasCode(a))
  /\ UNCHANGED <<world, known, traceUnsupported, block, stack, frameCounter,
                 events, result, faults>>

\* BlockByNumber, or CodeAt for an address not in the cache, fails: ScanBlock
\* returns the error and the loop will come back to the block.
ScanFails ==
  /\ pc = "tx"
  /\ \/ txs = Block[block]
     \/ txs # <<>> /\ To[Head(txs)] \notin DOMAIN codeCache \cup {None}
  /\ Fault
  /\ pc' = "idle"
  /\ UNCHANGED <<world, known, scanner, local, result, clean>>

AtDepth(calls, depth) ==
  IF depth > MaxDepth THEN <<>>
  ELSE [i \in 1 .. Len(calls) |-> <<calls[i], depth>>]

\* debug_traceTransaction answers: collect starts with the calls of the root,
\* whatever the root's own error.
TraceTransaction ==
  /\ pc = "trace"
  /\ stack' = AtDepth(Calls[Head(txs)], 0)
  /\ pc' = "collect"
  /\ UNCHANGED <<world, known, scanner, block, txs, frameCounter,
                 events, result, clean, faults>>

\* The call fails: a warning, and on to the next transaction.
TraceFails ==
  /\ pc = "trace"
  /\ Fault
  /\ clean' = FALSE
  /\ txs' = Tail(txs)
  /\ pc' = "tx"
  /\ UNCHANGED <<world, known, scanner, block, stack, frameCounter, events, result>>

\* The error reads like "method not found": this scanner will never trace again,
\* and what it has found in the block so far is the result.
TraceUnsupported ==
  /\ pc = "trace"
  /\ Fault
  /\ clean' = FALSE
  /\ traceUnsupported' = TRUE
  /\ pc' = "done"
  /\ UNCHANGED <<world, known, codeCache, local, result>>
-----------------------------------------------------------------------------
(* collect, its recursion unrolled on the stack.                           *)

\* Slip: every deposit of a transaction gets the same number.
LogIndexBase(n) == -100000

LogIndex(n) == -100000 - n

\* Slip: a call that reverted is taken like any other.
NotSkipped(f) == FALSE

\* `call.Error != ""`: the frame is left out with all that it calls.
Skipped(f) == f \in Reverted

\* Slip: the calls made by a transfer are not looked at.
BelowLeaf(f, depth) == IF f \in Transfers THEN <<>> ELSE AtDepth(Calls[f], depth + 1)

Below(f, depth) == AtDepth(Calls[f], depth + 1)

\* accountRepo.Has: the receiver is an account now.
Has(f) == Receiver[f] \in accounts

\* One frame: a transfer to an account, if Has answers, becomes an event, and the
\* walk goes on with the calls of the frame.
Visit(answered) ==
  /\ pc = "collect"
  /\ stack # <<>>
  /\ LET f == Head(stack)[1]
         event == [key |-> <<Head(txs), LogIndex(frameCounter)>>, deposit |-> f]
     IN  /\ IF answered /\ f \in Transfers /\ ~Skipped(f) /\ Has(f)
            THEN events' = events \cup {event} /\ frameCounter' = frameCounter + 1
            ELSE UNCHANGED <<frameCounter, events>>
         /\ stack' = (IF Skipped(f) THEN <<>> ELSE Below(f, Head(stack)[2]))
                      \o Tail(stack)
  /\ UNCHANGED <<world, known, scanner, pc, block, txs, result>>

VisitFound == Visit(TRUE) /\ UNCHANGED <<clean, faults>>

\* Has fails: `err == nil && has` is false, and no error is reported.
HasFails ==
  /\ stack # <<>>
  /\ Head(stack)[1] \in Transfers /\ ~Skipped(Head(stack)[1])
  /\ Visit(FALSE)
  /\ Fault
  /\ clean' = FALSE

EndTx ==
  /\ pc = "collect"
  /\ stack = <<>>
  /\ txs' = Tail(txs)
  /\ pc' = "tx"
  /\ UNCHANGED <<world, known, scanner, block, stack, frameCounter,
                 events, result, clean, faults>>

EndScan ==
  /\ pc = "tx"
  /\ txs = <<>>
  /\ pc' = "done"
  /\ UNCHANGED <<world, known, scanner, local, result, clean, faults>>
-----------------------------------------------------------------------------
(* What becomes of the events.                                             *)

Keys == {e.key : e \in events}

\* SaveAndAdvance commits: ON CONFLICT DO NOTHING for the keys already there.
Save ==
  /\ pc = "done"
  /\ credited' =
       [k \in DOMAIN credited \cup Keys |->
          IF k \in DOMAIN credited THEN credited[k]
          ELSE (CHOOSE e \in events : e.key = k).deposit]
  /\ traced' = IF traceUnsupported THEN traced ELSE traced \cup {block}
  /\ steady' = (steady /\ clean /\ Settled)
  /\ pc' = "idle"
  /\ UNCHANGED <<world, known, scanner, local, clean, faults>>

\* It does not, and the loop will come back to the block.
SaveFails ==
  /\ pc = "done"
  /\ Fault
  /\ pc' = "idle"
  /\ UNCHANGED <<world, known, scanner, local, result, clean>>
-----------------------------------------------------------------------------
Next ==
  \/ Mine \/ NewTraceScanner
  \/ \E a \in Accounts : Register(a)
  \/ \E b \in 1 .. Len(Block) : ScanBlock(b)
  \/ SkipCreation \/ IsContract \/ ScanFails
  \/ TraceTransaction \/ TraceFails \/ TraceUnsupported
  \/ VisitFound \/ HasFails \/ EndTx \/ EndScan
  \/ Save \/ SaveFails

Spec == Init /\ [][Next]_vars
-----------------------------------------------------------------------------
(* Properties.                                                             *)

Found == {e.deposit : e \in events}

TypeOK ==
  /\ head \in 1 .. Len(Block)
  /\ accounts \subseteq Accounts /\ known \subseteq accounts
  /\ codeCache \in [DOMAIN codeCache -> BOOLEAN]
  /\ DOMAIN codeCache \subseteq Addr
  /\ Cardinality(DOMAIN codeCache) <= CacheMax
  /\ traceUnsupported \in BOOLEAN
  /\ pc \in {"idle", "tx", "trace", "collect", "done"}
  /\ block \in 1 .. head
  /\ txs \in Seq(Tx)
  /\ stack \in Seq(Frame \X (0 .. MaxDepth))
  /\ frameCounter \in Nat
  /\ events \subseteq [key : Tx \X Int, deposit : Frame]
  /\ credited \in [DOMAIN credited -> Frame] /\ DOMAIN credited \subseteq Tx \X Int
  /\ traced \subseteq 1 .. head
  /\ clean \in BOOLEAN /\ steady \in BOOLEAN
  /\ faults \in Nat

\* The walk finds no transfer that a reverted call undid, at whatever level below the
\* root the revert was, and none to an address that is not an account, and attributes
\* each to its own transaction (`call.Error != ""` leaves out the frame and all frames
\* below it; OnlyTransfers is about the root).
EventsLasting ==
  \A e \in events : /\ e.deposit \in Due(block, accounts)
                    /\ e.key[1] \in Above[e.deposit]

\* A scan in which every answer came and was true, those of the code cache too, finds
\* every deposit of the transactions it looks at to an account that was registered when
\* it began, whatever accounts come meanwhile: the depth-first walk leaves out no branch.
CompleteWhenHealthy == pc = "done" /\ clean => Due(block, known) \subseteq Found

\* Two deposits of a block never share a key, across its transactions and across
\* the branches of a call tree: the UNIQUE constraint would drop one of them.
KeysDistinct ==
  \A e1, e2 \in events : e1.key = e2.key => e1.deposit = e2.deposit

\* Scans of a block give a deposit one key, and the key to no other deposit, also after
\* scans and saves that failed: ON CONFLICT and the Adapter's dedup rest on that (the
\* log_index is the place in the walk, `traceLogIndexBase - *counter`).  The condition:
\* the scans that were saved were clean, and no account registered since they began
\* has a deposit in a block that they saved.  The counter counts the deposits to accounts
\* only, so such an account shifts the numbers of the deposits after its own, and a
\* rescan of the block records these once more.
KeysReproducible ==
  steady /\ clean =>
    \A e \in events, k \in DOMAIN credited : k = e.key <=> credited[k] = e.deposit

\* README.md:6, "a deposit must never be missed": once the cursor is past a block, every
\* deposit made in it to an account that was registered all the time has been recorded,
\* unless the scanner had given up tracing and said so in its log.
NeverMissed == \A b \in traced : Due(b, Registered) \subseteq Range(credited)

\* trace_scanner.go:190, what is collected is "native transfers to watched
\* addresses": a failed transaction transfers nothing.
OnlyTransfers == \A e \in events : e.key[1] \notin FailedTx
=============================================================================
