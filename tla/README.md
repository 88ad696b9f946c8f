# TLA+ models of listener-go

listener-go watches EVM chains for deposits to the accounts of an exchange-like
service and hands every deposit to an Adapter over a WebSocket. Its README puts
one requirement above all others: a deposit must never be missed. These modules
model the parts of the program that this rests on, TLC checks them on small
instances, and TLAPS proves the central invariants for all instances.

## The system

One process, a few kinds of goroutines and one database. `README.md:n` below is
line n of the repository's README, and file names without a path are those of the
table.

| Part | Code | State | Operations |
|---|---|---|---|
| Scan loop, one per (chain, scanner) | `internal/scanner/loop.go` | poll in progress; `scan_cursor` row | poll head, gate on confirmations, initialise or read cursor, scan block, save and advance |
| Trace scanner | `internal/scanner/trace_scanner.go` | code cache, `traceUnsupported` | fetch block, trace transactions, walk call trees, number the deposits |
| Log scanner and decoders | `internal/scanner/log_scanner.go`, `decoder/` | none | native transfers and token logs of a block |
| Buffer repository | `internal/database/buffer_repo.go` | `deposit_buffer`, `scan_cursor` | `SaveAndAdvance` (one transaction), `PendingAll`, `PendingInRange`, `Ack`, `Cursor` |
| Publisher, ACK mode | `internal/publisher/publisher.go` | connection, `outstanding`, ACK channel | dial, top up the window, handle ACK, ACK timeout, graceful end |
| Publisher, fire-and-forget mode | same file | connection, current batch | dial, flush until empty, graceful end |
| Wake-up | `internal/notify/listener.go` | LISTEN connection, wake channel of capacity 1 | listen, receive, signal |
| Supervisor | `internal/supervisor/supervisor.go` | running chains with context, done channel and fingerprint | reconcile (stop, restart, reload, start), stop all |
| Configuration repository | `internal/database/config_repo.go` | `chain` and `token` tables | `ActiveChains` with fingerprints, `ChainConfig` |
| Readiness | `cmd/listener/main.go`, `internal/httpserver` | ready flag | mark ready |
| Auditor | `internal/audit/auditor.go` | none (metrics) | rescan random old blocks, compare with pending rows |
| Account repository | `internal/database/account_repo.go` | `accounts` table (read only) | `Has`, `HasMany` |
| Retry | `internal/common/retry` | attempts of a call | `Do`, `IsRetryable` |
| Process | `cmd/listener/main.go` | shared context of the errgroup | start the parts, end them all when one ends |
| Configuration, logging, metrics, payload, decryption stub | `internal/common`, `internal/config`, ... | none | pure functions and I/O |

The scan loops and the publisher meet only in the database: loops insert rows
and move cursors in one transaction, the publisher reads the oldest rows, sends
them and deletes them. A commit with rows sends a NOTIFY, which becomes a token
in the wake channel; a poll ticker is the backup. The supervisor starts and
stops the loops of a chain as the tables change, and restarts what died. The audit
job scans old blocks again and compares what it finds with the rows that are still
pending. All of them are goroutines of one errgroup: when one returns, the context
of all ends.

What makes it hard: cancellation may meet any call; the process may die between
any two; the network loses, delays and repeats; a stopped chain's loops are not
waited for, so two pairs of loops can share a cursor; the configuration is read
twice and may change in between; a scan may report success with less than the
block holds; the lookups of a scan run in parallel and cancel each other; and the
audit compares two readings of tables that others change meanwhile.

## Modules

| Module | Models | Extends |
|---|---|---|
| `ScanLoop` | the polling loop and the transaction of `SaveAndAdvance` | |
| `TraceScan` | `TraceScanner`, and what its keys become | |
| `Outbox` | abstract: a row is inserted, delivered, and only then retired | |
| `AdapterLink` | external: WebSocket and Adapter | |
| `PublisherRun` | what both publisher modes share: buffer, dial, shutdown, restart | `AdapterLink` |
| `AckPublisher` | publisher with ACKs; implements `Outbox` | `PublisherRun` |
| `FireAndForget` | publisher without ACKs | `PublisherRun` |
| `Pipeline` | a scan loop and the ACK publisher in one process, over one `deposit_buffer` | instances of `ScanLoop`, `AckPublisher` |
| `Retry` | `retry.Do` as the states of a call, `IsRetryable` | |
| `LogScan` | `LogScanner.ScanBlock` with its decoders and lookups | `Retry` |
| `Auditor` | the audit job, beside the loops, the publisher and the Adapter | `LogScan` |
| `Supervisor` | reconcile, runners, readiness | |
| `WakeUp` | NOTIFY, wake channel, and when the publisher looks for rows | |
| `ScanLoopProofs`, `AckPublisherProofs`, `PipelineProofs` | theorems about the module of that name | the module |
| `AuditorProofs`, `AuditAlarmProofs` | theorems about `Auditor` with `LogScan` and `Retry` | `Auditor`; `AuditorProofs` |
| `ServiceProofs` | theorems about `Supervisor`, `WakeUp` and `FireAndForget` | these three |
| `TraceTreeProofs` | lemmas on the call trees of `TraceScan`, without its variables | `TraceScan` |
| `TraceScanProofs` | theorems about `TraceScan` | `TraceTreeProofs` |
| `MC...` | symmetry set (`MCScanLoop`), call trees (`MCTraceScan`), items and errors (`MCAuditor`) for TLC | the module |

`Pipeline` instances `ScanLoopProofs` and `AckPublisherProofs`, which define the
same actions as the modules they extend, so that `PipelineProofs` can use their
theorems.

`ServiceProofs` extends three modules side by side; therefore `Supervisor` and `WakeUp`
name their specifications `SupSpec` and `WakeSpec`, and share no name with
`FireAndForget` or with each other.

`PROJECT.json` maps every definition to the lines it models. Definitions whose
comment begins with "Slip:" are deliberate mistakes in one definition; each
breaks one property, which shows that the property depends on the code.

### How state and actions correspond to the code

* **ScanLoop.** `pc[l]` is the call a loop is in; `frame[l]` holds the locals of
  `pollOnce` (`latest`, `block`, `endBlock`, `events`) and, for an open
  transaction, the rows it will insert (`ins`). `Poll`, `InitCursor`,
  `NothingNew`, `PlanBlocks`, `ScanBlock`, `BeginTx`, `Commit` and `NextBlock`
  follow `pollOnce` call by call. `ScanPartly` is a scan that succeeds without
  some deposit of the block: a trace or account lookup that failed and was
  skipped, or an event that `convertEvents` does not take; what it leaves out is
  kept in `dropped` once it is committed. `Fail` is an error of any call with
  rollback, `Cancel` the end of the context, `Crash` a panic or the end of the
  process. The chain grows (`Mine`) and reorganises at most `ReorgDepth` deep.
* **TraceScan.** The recursion of `collect` is a stack of frames with their
  depth. A call frame carries value or not (`Transfers`), to a `Receiver`, reverted or
  not. `accounts` is the table that `Has` asks: accounts are registered (`Register`) at any
  time, in the middle of a scan too, and `known` remembers those there were when the scan
  began. `credited` is the buffer and the Adapter together: the first deposit under a key
  counts. The reference reads the same tree from the leaves up: `Made(b)` are the transfers
  with a transaction of the block, and no reverted frame, among the frames `Above` them,
  `Due(b, A)` those to an account of `A`. A contract creation is left out, as `ScanBlock`
  does not trace one (`tx.To() == nil`).
* **AckPublisher.** `out` is `outstanding`, `ackCh` the channel between the read
  loop and the select, `todo` the rest of the batch in `topUp`. The link has a
  wire in each direction; a break loses both and closes the connection.
* **FireAndForget.** `todo` is the rest of the batch; `draining` says whether the
  final flush runs and whether its deadline is over; `lost` is a history variable.
* **Pipeline.** A step of the loop (`Loop`) that commits rows is at the same time
  the arrival of these rows at the publisher (`P!Arrive`); a step of the publisher
  (`Publish`) that deletes a row adds it to `acked` of the loop. `Shutdown`, `Kill`
  and `Boot` are the steps of the process; `CancelLoop` is the errgroup's context
  reaching the loop, `Boot` waits for it as `g.Wait` does.
* **LogScan.** `scan` is where `ScanBlock` is. `try` holds its outstanding calls to
  the node, each with the attempt it is in: one for the block and for the logs, one
  for every sender that is looked up. `found` are the events so far. `hist` is a
  history of the call: the accounts and the block at its beginning, the number of
  transient errors and whether there was another failure.
* **Auditor.** `audit` is where `runCycle` is, from `Tick` to `NextScanner`; `range`,
  `i` and `tried` are the locals of `auditScanner`. The loops' saves, the publisher's
  deletes, new accounts and reorganisations below the confirmations are single
  steps, as is the trace scanner's part of the audit. `missing` are the rows the last
  comparison counted.
* **Supervisor.** `infos` is the answer of `ActiveChains`, `pending` the chains that
  this reconcile has still to deal with, `runner[r]` a `chainRunner` with its
  two loops. `Edit` and `Toggle` are an operator at the tables.
* **WakeUp.** `unseen` and `seen` split the committed rows by whether a query has
  returned them; `heard` are those committed while somebody listened.

## Runs

Passing runs:

| Run | Bounds | Shows |
|---|---|---|
| `scanloop_overlap` | 2 loops, 2 deposits, 5 blocks, 1 confirmation, reorganisations 1 deep, 2 faults | the cursor passes no deposit that the scan found; nothing recorded is undone |
| `pipeline` | 1 loop, 2 deposits, 4 blocks, 1 confirmation, window 2, batch 1, 1 fault of the loop, 1 of the publisher, fairness | what the cursor has passed is in the buffer or delivered; only what is confirmed is delivered, and all of it in the end; all components end with one; cursor moves one block at a time and is initialised once |
| `ack_run` | 3 rows, window 2, batch 2, 1 fault, 1 repeated ACK, fairness | no early delete, window kept, `topUp` finds work, implements `Outbox` with its liveness |
| `ff_run` | 3 rows, batch 2, 2 faults, fairness | only the wire loses rows; every row is written |
| `supervisor` | 1 chain, 2 token configurations, 3 runners, 1 edit, 2 toggles, 2 mishaps, fairness | one uncancelled pair per chain; no overlap through a reload; a clean end; the configuration is applied, panics are recovered, shutdown ends |
| `wakeup` | 3 rows, batch 2, 3 lost connections, fairness | no wake-up is lost; polling alone suffices |
| `trace_scan` | 2 blocks, 4 transactions, 7 frames, 2 accounts, 1 of them registered later, cache of 1, depth limit 1, 2 faults | deposits found are lasting, all of them in a clean scan, under distinct and, while no new account has a deposit in a saved block, reproducible keys |
| `audit` | 2 accounts, 1 of them registered later; 6 items in 2 of 3 blocks; 3 errors; 1 retry; window, margin 1; 2 samples; 2 faults; both chain types; fairness | a scan is all or nothing and absorbs few errors; the alarm is real and is raised; only settled blocks are scanned again; a cycle ends |

Violations. Each is a disagreement between the code and a sentence of the
repository, quoted in `PROJECT.json` under `findings`:

| Run | Sentence | What happens |
|---|---|---|
| `ack_shutdown` | README.md:162 waits for outstanding ACKs | a shutdown during `topUp` makes its query fail with `context.Canceled`, and `Run` ends at once |
| `supervisor_revert` | supervisor.go:138 same fingerprint, no change | a change made between the two reads of a start, and then taken back, leaves the other configuration running |
| `trace_stale_code` | README.md:6 a deposit must never be missed | an address cached as having no code is skipped after its contract is deployed; no call fails |
| `trace_reverted` | trace_scanner.go:190 collects transfers | the root frame's error is not looked at, so calls of a failed transaction are collected |

### Conditions of the properties

Where the code departs from the simplest statement, the property states the
condition under which it holds. Without the condition TLC gives a counterexample
in each case:

* `InitialisedOnce`, `EventuallyDelivered`: the starting point is not 0. A cursor
  saved as 0 reads as no cursor (loop.go:114), and the loop jumps to the head again.
* `CursorAdvancesByOne`: one loop at a time. Overlapping loops overwrite each
  other's cursor; it may go back, and forward again by several blocks.
* `NoDepositSkipped`, `EventuallyDelivered`: what a scan leaves out while it
  reports success (`dropped`) is excepted. A trace call or an account lookup that
  fails is skipped (trace_scanner.go:119, 217) and the cursor moves on.
* `EventsLasting`: reverts below the root; `trace_reverted` is about the root itself.
* `CompleteWhenHealthy`: the deposits to accounts registered when the scan began; for
  `NeverMissed`, to accounts registered from the beginning. Contract creations are excepted. `ScanBlock` passes over a
  transaction without a receiver (trace_scanner.go:107), so a deposit that a
  constructor makes is not looked for.
* `KeysReproducible`: the scans are clean, and no account registered since a saved scan
  began has a deposit in its block (`steady`). A scan that misses a deposit numbers the
  later ones of the block differently. So does a new account, without any failure: only
  the calls to accounts are counted (trace_scanner.go:217 and 230), and its deposit moves
  the numbers of those after it. A rescan of the block, possible while loops overlap,
  then records these deposits under second keys, and neither `UNIQUE` nor the
  Adapter's dedup of README.md:155 takes them for the same. This is the one case in
  which clean scans credit a deposit twice.
* `TopUpFindsWork`: fewer than `MaxBatchSize` rows in flight. The query counts the
  rows in flight, so a window above 100 (main.go's batch size) is not filled.
* `LostOnlyInTransit`: without ACKs a row is deleted once written, and is lost
  with the connection. config.go:32 says so; README.md:139 does not.
* `NoFalseAlarm`: no confirmed block has changed and every trace scan was complete;
  and, for rows of the trace scanner, no account was registered since. README.md:167
  promises the alarm for pending rows that a rescan does not find. The trace scanner
  numbers only the calls to accounts registered at the time (trace_scanner.go:230), so
  a new account in an old block shifts the numbers of the calls after its own, and
  the audit takes the recorded rows for missing.
* `DriftCounted`: the log index is not between -100000 and -10000. Native transfers
  of transaction 9,999 and later of a block lie there, and `ownedBy` gives them to
  neither scanner (auditor.go:287), so their loss is not counted.
* `TransientTolerated`: `MaxRetries` is not negative. `Do` returns nil without calling
  `fn` if it is (retry.go:25), and a block is taken as empty; config.go takes any
  integer.
* `AllOrNothing`, `NoFalseAlarm`, `DriftCounted`: accounts are not removed, and the
  chain's tokens do not change, between the scans. `NoFalseAlarm` is proved for
  blocks of fewer than 99,999 transactions, where the ranges of the two scanners
  do not meet.
* `BehindCursor`: `AUDIT_WINDOW_BLOCKS` and `AUDIT_SAFETY_MARGIN` are not negative;
  main.go:148 converts them to unsigned numbers.
* `NoOverlap`, `CleanExit`: no chain was switched off. Nobody waits for the loops of a
  deactivated chain, neither its restart nor the end of `Run`.

`ConfigApplied` has no such condition, and holds in the run `supervisor` because of
its bound of one edit: with a second edit that takes the first one back it fails,
which is what `supervisor_revert` shows.

Three more observations have no property: on an eERC chain a single private transfer
fails the whole block, native transfers included, since the decryption is a stub
(`LogScan!DecodeFails`; main.go:212 says that native detection is independent of the
decoders), and the chain's loop stays at that block; a shutdown during a flush ends the
publisher without ACKs without the last flush of publisher.go:86, as in
`ack_shutdown`; and the process is marked ready when `ActiveChains` first
answers, before the reconcile that README.md:241 names is complete.

### Why the bounds are enough

Two loops are the least that overlap, and the supervisor never has more than one
that is not cancelled. Two deposits tell a block's partial result from a whole
one; five blocks with one confirmation and two blocks per poll contain an
initialisation, a full poll, a short poll and a reorganisation. A window and a
batch of two with three rows contain a full window, a full and a short batch.
Three runners contain a pair that is still ending, one that is being replaced and
a new one; chains share nothing but the order in which reconcile takes them, and
`AtMostOneLive` is proved for any number of them. In `TraceScan`
the tree has a deposit above a deposit, a deposit at the depth limit, one under
a reverted call, one in a contract creation, one in another transaction and one to an account that is
registered later, with another deposit after it, and a cache of one entry is emptied
inside a block. No frame lies below the depth limit: the code's limit (1024)
is the EVM's own. In `Pipeline` the second deposit may be scanned and committed while
the first is in flight, in the same block or in the next, and both can be outstanding;
more faults and larger windows are the business of the components' own runs, and the
safety properties are proved for any. In `Auditor` block 1 has two native transfers, so that
two lookups run in parallel, and an internal call, which a trace scan may miss; its
second transaction is the last whose native log index `ownedBy` knows. Several calls
in one block, whose numbers depend on one another, are in `trace_scan` and in the
proof of `NoFalseAlarm`. Block 0 has logs of every kind a decoder can meet. The
cursors reach block 2, so that the range is empty or two blocks, and the second draw
may repeat the first. Fault bounds (`MaxFaults`, `MaxMishaps`, `MaxLosses`, `MaxDups`,
`MaxEdits`, `MaxToggles`) are conjuncts of the guards of the faults alone.

### Fairness

* Scan loop (in `Pipeline`): weak fairness of the loop's own steps (goroutines run, the ticker
  fires, calls return), of a cancelled call failing, and of the restart by the
  supervisor and of the process. Nothing is assumed about the chain.
* Audit: weak fairness of the steps of a cycle, a scan's included. Nothing is
  assumed about the ticker, the loops, the publisher or the Adapter.
* Publishers: weak fairness of the drain's steps and of redialling. Strong
  fairness of the cases of the select that another case may disable for a
  moment (`HandleAck`, `ReadError`, `CtxDone`, `AckTimeout`): Go's select picks
  among ready cases at random. The Adapter receives what arrives and
  acknowledges it (weak fairness of `Receive` and `SendAck`); an ACK that it never
  sends is a fault (`ForgetAck`), of which there are finitely many. Without that
  no publisher could get a row across.
* Supervisor: weak fairness of reconcile (the ticker), of cancelled loops
  returning and of the goroutine that closes `done`. A panic is never required.
* Wake-up: the dial, the ticker and the flush. LISTEN/NOTIFY may never deliver.

## Proofs

All for arbitrary constants that satisfy the named assumption of the module.

* `ScanLoopProofs`: `TypeCorrect`, `NothingSkipped` (`NoDepositSkipped`) and
  `NothingPhantom` (`NoPhantomDeposit`), for any number of overlapping loops.
  `NoDepositSkipped` is not inductive: a loop that is about to commit block n
  must know that all blocks before n are covered, although the cursor may have
  been moved meanwhile by another loop. `LoopInv` says what a loop knows at each
  call: what it planned is confirmed; the blocks before the one in hand are
  covered; and from the start of the transaction what it holds is the block,
  but for what the scan left out. `Stable` says what no step disturbs: confirmed
  blocks, recorded deposits. From it `CoveredStable` and `UnmovedStep` give the
  loops that do not act, `MovedStep` the one that does, `CommitCovers` the
  database. The assumption `ReorgDepth <= MinConfirmations` is the README's
  first rule.
* `AckPublisherProofs`: `TypeCorrect`, `NoEarlyDelete`
  (`NotDeletedBeforeDelivery`) and `ImplementsOutbox` (`OutboxSpec`). The
  strengthening: every ACK in flight, on the wire or in the channel, is of a
  delivered row, and every message in flight has its row or has been delivered.
  `WindowHolds` (`FlowControl`) needs `FlowInv`: messages, owed ACKs, ACKs on the wire
  and ACKs in the channel are disjoint parts of `outstanding`, whose size is
  bounded, so their sizes add up. `TopUpProgress` (`TopUpFindsWork`): the query returns more rows
  than are in flight, or all of them.
* `PipelineProofs`: `RunsTheLoop` and `RunsThePublisher` show that a behaviour of
  the process is one of each component, so that the components' theorems apply.
  `Linked` joins them: the rows that the loop committed are those that the
  publisher was given. From these `NothingIsLost` (`NothingLost`) and
  `OnlyConfirmedDelivered` (`OnlyConfirmed`). `CursorDiscipline`
  (`CursorAdvancesByOne`) and `StartsOnce` (`InitialisedOnce`) need that there is one
  loop: the cursor is what it read.
* `ServiceProofs`, three components. Supervisor: `SupTypeCorrect` and `OneLivePair`
  (`AtMostOneLive`). The strengthening: an uncancelled runner is the registered one of
  its chain, a closed `done` means that both loops have returned, and a chain that is
  being started has no registered runner. `PairsDoNotOverlap` (`NoOverlap`) and
  `RunEndsClean` (`CleanExit`) follow from `OverlapInv`: until a chain is switched
  off, a runner with a loop that has not returned is registered, or `stopAll` waits
  for it. Wake-up: `WakeTypeCorrect` and `OneTokenSuffices` (`WakeNotLost`). The
  strengthening: while nobody listens, nothing counts as heard. Publisher without
  ACKs: `TypeCorrect` and `OnlyTransitIsLost` (`LostOnlyInTransit`). The
  strengthening: the row that is about to be deleted has been written.
* `AuditorProofs`: `TypeCorrect`, `SettledBlocks` (`BehindCursor`), `ScanIsWhole`
  (`AllOrNothing`) and `FewErrorsAreAbsorbed` (`TransientTolerated`). Three
  invariants: `Shape` links the cycle and the scan; `Stage` says for each stage of a
  scan which deposits it has found or has still in hand, by `cand` or by a call that
  is under way; `Patience` that a call's attempts are paid for by errors of the
  history. `FewErrorsAreAbsorbed` assumes that `IsRetryable` holds of the errors
  called transient.
* `AuditAlarmProofs`: `AlarmIsReal` (`NoFalseAlarm`) and `DriftIsCounted`
  (`DriftCounted`), from a fourth invariant: `Books` says where the rows come from, and
  that a row's key is the one a second scan gives its deposit. Both assume
  `WellNumbered` (finitely many items, transaction indexes below 99,999).
* `TraceTreeProofs` and `TraceScanProofs`: `TypeCorrect`, `OnlyLasting`
  (`EventsLasting`), `CompleteWalk` (`CompleteWhenHealthy`), `DistinctKeys`
  (`KeysDistinct`) and `ReproducibleKeys` (`KeysReproducible`), for every chain and
  every forest of calls. See below.

### The walk of the trace scanner

`collect` recurses from the root down, while a deposit is defined from the frame up.
That the two agree needs no induction over the tree, since `Above` is not a recursion
but a least set: `Above[f]` is in every set that holds `f` and, with a frame, its
caller. `TraceTreeProofs` shows from this that the frames above a frame are a chain
(`Comparable`), that a frame lies below one branch only (`OneBranch`), and that
the order of the walk, `Precedes` (above, or in an earlier branch of a common
caller or of the block), has no cycles of two (`PrecedesAsym`).

The five properties are not inductive one by one. The invariant `Inv` has

* `ScanInv`, `StackInv`: what is left of the block is its tail, and every frame on
  the stack belongs to the transaction at hand, with no reverted frame above it and
  at its own depth. That gives `EventsLasting`, and that the depth limit cuts off
  nothing.
* `WalkInv`: in a clean scan every deposit of the block, to an account there was when the
  scan began (`Due(block, known)`), has been found, or lies below
  something the walk has still to enter (`Waiting`), and all that was found precedes
  all of that. With nothing left to enter it is `CompleteWhenHealthy`. The two halves
  are one invariant (`Walked`): `EnterNode` shows that entering a node, counting it and
  putting its calls in its place keeps both.
* `KeysInv`: the numbers given out are below the counter, each given once. It gives
  `KeysDistinct`, and needs no clean scan.
* `CountInv`: in a clean scan the number of a deposit is its `Place`, the number of
  deposits of the block that precede it, as long as no account registered during the
  scan has a deposit in the block (`Settled`). This is where the order half of `WalkInv` is
  needed: what has been found when the walk comes to `f` is what precedes `f`
  (`FoundBefore`). `Place` is what `Auditor` assumes of a complete trace scan when it
  numbers the calls of a block.
* `SteadyInv`: while `steady` holds, every recorded key is the `Place` of its deposit
  among the deposits to the accounts of now. `SettledInv` adds that a scan of a block
  that has been saved is `Settled`, so its numbers are these places too: that is
  `KeysReproducible`. `RegisterInv` is the step that matters: more accounts mean
  more deposits (`DueType`), so a registration keeps the places of a saved block or
  ends `steady`.

The assumptions are about the chain and the node. `ChainAssumption`: a transaction is in
one block at one place, and an address without code makes no calls.
`TreeAssumption`: the calls of a transaction are a tree no deeper than
`maxCallFrameDepth`, which is the EVM's own limit. `TraceAssumption` also says that
there is a first block (`Block # <<>>`): `block` is a block before any scan, too.

### Only model-checked

All liveness (`EventuallyDelivered`, `AllEnd`, `OutboxFairSpec`, `EventuallySent`,
`ConfigApplied`, `ShutdownEnds`, `PollingBackup`, `CycleEnds`), which is beyond the
prover. Every invariant and every action property of the passing runs is proved.

## Not modelled

* Times: intervals, backoff and deadlines are nondeterministic choices, so rates
  (a redial without delay after a drain error) are not visible.
* Payloads: encoding, decoding, amounts, addresses, the wording of errors. That
  an error text is taken for "method not found" is a choice in `TraceUnsupported`.
* Contracts that lose their code: an address that was deployed keeps it.
* A commit whose answer is lost is the commit followed by the end of the poll.
* The fields of a chain's configuration that its fingerprint does not cover.
* Two chains at once in the supervisor's run.
* More than one chain in the audit: chains are audited one after the other and share
  nothing but the context. The limit of eight parallel lookups of senders.
* Wake-up inside `Pipeline`: the poll ticker alone carries its liveness; a wake-up
  would only take the same step sooner.
* The trace scanner's steps inside `Auditor`, and the audit inside `Pipeline`: the
  audit writes nothing that another part reads.
* HTTP handlers, metrics, `runBufferMonitor`, startup and the parsing of the
  environment: I/O without state that another part reads.

## Plan

1. Done: every part of the program with a protocol of its own; the composition from
   the chain to the Adapter; the safety theorems of all of them.
2. The supervisor over `ScanLoop`'s loops instead of runners of its own, which would
   tie `AtMostOneLive` to the number of loops on a cursor.
3. `nextBackoff` and `fingerprint` as pure functions, if a property needs them.
