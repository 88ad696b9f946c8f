------------------------------- MODULE Auditor -------------------------------
(***************************************************************************)
(* The audit job (internal/audit/auditor.go) for one chain: it scans       *)
(* blocks behind the cursor of a scanner again, over a connection of its   *)
(* own, and counts the rows of deposit_buffer that the second scan does    *)
(* not find.  It shares nothing with the loops and the publisher but the   *)
(* database.                                                               *)
(*                                                                         *)
(* The second scan of the log scanner is LogScan, step by step.  The one   *)
(* of the trace scanner is one step that finds all of the deposits by      *)
(* internal calls or, when its calls to the node fail, some of them; so    *)
(* are the steps of the two loops, which record a block and advance the    *)
(* cursor in one transaction.                                              *)
(***************************************************************************)
EXTENDS LogScan

CONSTANTS
  WindowBlocks,     \* Config.WindowBlocks
  SafetyMargin,     \* Config.SafetyMargin
  SamplesPerCycle,  \* Config.SamplesPerCycle
  MaxHead           \* bound: the last block that is confirmed

ASSUME AuditorAssumption ==
  WindowBlocks \in Nat /\ SafetyMargin \in Nat /\ SamplesPerCycle \in Nat /\ MaxHead \in Nat

VARIABLES
  audit,      \* where runCycle is; "wait" between cycles, "stopped" after Run
  sc,         \* the scanner whose blocks are audited
  range,      \* the blocks to draw from
  i, tried,   \* the samples taken and the blocks drawn
  rows,       \* deposit_buffer: the event and the block of each row
  cursor,     \* scan_cursor of each scanner
  missing,    \* the rows the last comparison counted (AuditMismatchPendingMissing)
  drift       \* history: the chain has changed, or a trace scan was not complete

auditVars == <<audit, sc, range, i, tried, rows, cursor, missing, drift>>

vars == <<logVars, auditVars>>

Scanners == {"log", "trace"}

AuditStates == {"wait", "chain", "cursor", "sample", "rescan", "pending", "stopped"}

-----------------------------------------------------------------------------
(* Rows                                                                    *)

traceLogIndexBase == -100000

Before(y, x) == y.tx < x.tx \/ (y.tx = x.tx /\ y.pos < x.pos)

\* The trace scanner numbers the calls it finds in a block from its base downwards.
TraceEvents(S) ==
  {[item |-> x, tx |-> <<x.block, x.tx>>,
    logIndex |-> traceLogIndexBase - Cardinality({y \in S : Before(y, x)})] : x \in S}

Calls(b) == {x \in Of("call", b) : x.to \in accounts}

\* Slip: the log scanner is held to make tokens only.
ownedByTokens(scanner, logIndex) ==
  IF scanner = "log" THEN logIndex >= 0 ELSE logIndex <= -100000

ownedBy(scanner, logIndex) ==
  IF scanner = "log" THEN logIndex > -10000 ELSE logIndex <= -100000

\* Which scanner made a row.
Maker(e) == IF e.item.kind = "call" THEN "trace" ELSE "log"

depositKey(e) == <<e.tx, e.logIndex>>

\* PendingInRange(b, b)
Pending(b) == {r.event : r \in {q \in rows : q.block = b}}

-----------------------------------------------------------------------------
(* The rest of the system                                                  *)

\* The loop of the log scanner stops at a block with a log its decoder cannot read.
LogLoopSaves ==
  LET b == cursor["log"] + 1 IN
    /\ b <= MaxHead
    /\ ~ \E x \in FilterLogs(b) : DecodeFails(x)
    /\ rows' = rows \cup {[event |-> Event(x), block |-> b] : x \in Due(chain, b, accounts)}
    /\ cursor' = [cursor EXCEPT !["log"] = b]
    /\ UNCHANGED <<logVars, audit, sc, range, i, tried, missing, drift>>

TraceLoopSaves ==
  LET b == cursor["trace"] + 1 IN
    /\ b <= MaxHead
    /\ \E S \in SUBSET Calls(b) :
         /\ IF S = Calls(b) THEN UNCHANGED <<faults, drift>> ELSE Fault /\ drift' = TRUE
         /\ rows' = rows \cup {[event |-> e, block |-> b] : e \in TraceEvents(S)}
    /\ cursor' = [cursor EXCEPT !["trace"] = b]
    /\ UNCHANGED <<world, scan, blk, try, cand, found, ctxDone, hist,
                   audit, sc, range, i, tried, missing>>

\* The publisher deletes the row of a delivered deposit.
Delete(r) ==
  /\ rows' = rows \ {r}
  /\ UNCHANGED <<logVars, audit, sc, range, i, tried, cursor, missing, drift>>

\* The Adapter registers an account.
Register(a) ==
  /\ a \notin accounts
  /\ accounts' = accounts \cup {a}
  /\ UNCHANGED <<chainType, chain, scan, blk, try, cand, found, ctxDone, faults, hist, auditVars>>

\* A reorg below the confirmations: the transaction of x leaves its block.
DeepReorg(x) ==
  /\ Fault
  /\ chain' = {y \in chain : y.block # x.block \/ y.tx # x.tx}
  /\ drift' = TRUE
  /\ UNCHANGED <<chainType, accounts, scan, blk, try, cand, found, ctxDone, hist,
                 audit, sc, range, i, tried, rows, cursor, missing>>

-----------------------------------------------------------------------------
(* Run, runCycle, auditChain, auditScanner, auditBlock                     *)

\* first.C or ticker.C; ActiveChains.
Tick ==
  /\ audit = "wait" /\ ~ctxDone
  /\ audit' = "chain"
  /\ UNCHANGED <<logVars, sc, range, i, tried, rows, cursor, missing, drift>>

\* ChainConfig and the builder; the log scanner is audited first.
OpenChain ==
  /\ audit = "chain" /\ ~ctxDone
  /\ audit' = "cursor"
  /\ UNCHANGED <<logVars, sc, range, i, tried, rows, cursor, missing, drift>>

\* ActiveChains, ChainConfig or the dial fails: the cycle is over for the chain.
OpenFails ==
  /\ audit = "chain"
  /\ Fault \/ (ctxDone /\ UNCHANGED faults)
  /\ audit' = "wait"
  /\ UNCHANGED <<world, scan, blk, try, cand, found, ctxDone, hist,
                 sc, range, i, tried, rows, cursor, missing, drift>>

\* auditScanner returns: the other scanner, or cleanup and the end of the cycle.
NextScanner ==
  /\ IF sc = "log" THEN sc' = "trace" /\ audit' = "cursor" ELSE sc' = "log" /\ audit' = "wait"
  /\ range' = {}
  /\ i' = 0
  /\ tried' = {}
  /\ missing' = {}

\* Slip: the margin is not part of what the cursor must have passed.
AuditRangeShort(c) ==
  IF c < WindowBlocks THEN {} ELSE (c - (WindowBlocks + SafetyMargin)) .. (c - SafetyMargin)

\* Slip: the range ends at the cursor.
AuditRangeToCursor(c) ==
  LET required == WindowBlocks + SafetyMargin IN
    IF c < required THEN {} ELSE (c - required) .. c

\* rangeStart to rangeEnd; empty when the history is too short.
AuditRange(c) ==
  LET required == WindowBlocks + SafetyMargin IN
    IF c < required THEN {} ELSE (c - required) .. (c - SafetyMargin)

ReadCursor ==
  /\ audit = "cursor" /\ ~ctxDone
  /\ IF AuditRange(cursor[sc]) = {}
     THEN NextScanner
     ELSE audit' = "sample" /\ range' = AuditRange(cursor[sc]) /\ UNCHANGED <<sc, i, tried, missing>>
  /\ UNCHANGED <<logVars, rows, cursor, drift>>

CursorFails ==
  /\ audit = "cursor"
  /\ Fault \/ (ctxDone /\ UNCHANGED faults)
  /\ NextScanner
  /\ UNCHANGED <<world, scan, blk, try, cand, found, ctxDone, hist,
                 rows, cursor, drift>>

\* One turn of the sample loop; a block that was drawn before is passed over.
Sample(b) ==
  /\ audit = "sample" /\ ~ctxDone
  /\ i < SamplesPerCycle
  /\ i' = i + 1
  /\ tried' = tried \cup {b}
  /\ IF b \in tried
     THEN UNCHANGED <<logVars, audit>>
     ELSE audit' = "rescan" /\ CallScan(b) /\ UNCHANGED <<world, ctxDone, faults>>
  /\ missing' = {}
  /\ UNCHANGED <<sc, range, rows, cursor, drift>>

SamplesDone ==
  /\ audit = "sample"
  /\ i = SamplesPerCycle \/ ctxDone
  /\ NextScanner
  /\ UNCHANGED <<logVars, rows, cursor, drift>>

\* TraceScanner.ScanBlock: S of the calls are found, all of them if no call fails; calls
\* fail by themselves or because the context is done.
TraceRescan(S) ==
  /\ audit = "rescan" /\ sc = "trace" /\ scan = "block"
  /\ IF S = Calls(blk)
     THEN UNCHANGED <<faults, drift>>
     ELSE (Fault \/ (ctxDone /\ UNCHANGED faults)) /\ drift' = TRUE
  /\ found' = TraceEvents(S)
  /\ scan' = "done"
  /\ Ask({})
  /\ UNCHANGED <<world, blk, cand, ctxDone, hist, audit, sc, range, i, tried, rows, cursor, missing>>

TraceRescanFails ==
  /\ audit = "rescan" /\ sc = "trace" /\ scan = "block"
  /\ HardFault \/ (ctxDone /\ UNCHANGED <<faults, hist>>)
  /\ scan' = "failed"
  /\ Ask({})
  /\ UNCHANGED <<world, blk, cand, found, ctxDone, auditVars>>

\* ScanBlock returns its events.
Rescanned ==
  /\ audit = "rescan" /\ scan = "done"
  /\ audit' = "pending"
  /\ UNCHANGED <<logVars, sc, range, i, tried, rows, cursor, missing, drift>>

\* Slip: a block whose scan failed does not count as a sample.
RescanFailedUncounted ==
  /\ audit = "rescan" /\ scan = "failed"
  /\ audit' = "sample"
  /\ EndCall
  /\ i' = i - 1
  /\ tried' = tried \ {blk}
  /\ UNCHANGED <<world, ctxDone, faults, sc, range, rows, cursor, missing, drift>>

\* ScanBlock returns an error.
RescanFailed ==
  /\ audit = "rescan" /\ scan = "failed"
  /\ audit' = "sample"
  /\ EndCall
  /\ UNCHANGED <<world, ctxDone, faults, sc, range, i, tried, rows, cursor, missing, drift>>

\* The rows of the block that the second scan did not find, of its own scanner.
Compare ==
  /\ audit = "pending" /\ ~ctxDone
  /\ LET rescanned == {depositKey(e) : e \in found} IN
       missing' = {e \in Pending(blk) :
                    depositKey(e) \notin rescanned /\ ownedBy(sc, e.logIndex)}
  /\ audit' = "sample"
  /\ EndCall
  /\ UNCHANGED <<world, ctxDone, faults, sc, range, i, tried, rows, cursor, drift>>

PendingFails ==
  /\ audit = "pending"
  /\ Fault \/ (ctxDone /\ UNCHANGED faults)
  /\ audit' = "sample"
  /\ EndCall
  /\ UNCHANGED <<world, ctxDone, sc, range, i, tried, rows, cursor, missing, drift>>

\* SIGTERM, or the end of another component of the process.
Cancel ==
  /\ ~ctxDone
  /\ Fault
  /\ ctxDone' = TRUE
  /\ hist' = [hist EXCEPT !.hard = scan # "idle"]
  /\ UNCHANGED <<world, scan, blk, try, cand, found, auditVars>>

\* Run returns ctx.Err().
Stop ==
  /\ audit = "wait" /\ ctxDone
  /\ audit' = "stopped"
  /\ UNCHANGED <<logVars, sc, range, i, tried, rows, cursor, missing, drift>>

\* The process is started again.
Restart ==
  /\ audit = "stopped"
  /\ audit' = "wait"
  /\ ctxDone' = FALSE
  /\ UNCHANGED <<world, scan, blk, try, cand, found, faults, hist,
                 sc, range, i, tried, rows, cursor, missing, drift>>

-----------------------------------------------------------------------------
Init ==
  /\ LogInit
  /\ audit = "wait"
  /\ sc = "log"
  /\ range = {}
  /\ i = 0
  /\ tried = {}
  /\ rows = {}
  /\ cursor = [s \in Scanners |-> 0]
  /\ missing = {}
  /\ drift = FALSE

\* The steps of a cycle.
CycleStep ==
  \/ OpenChain \/ OpenFails
  \/ ReadCursor \/ CursorFails
  \/ \E b \in range : Sample(b)
  \/ SamplesDone
  \/ sc = "log" /\ ScanStep /\ UNCHANGED auditVars
  \/ \E S \in SUBSET Calls(blk) : TraceRescan(S)
  \/ TraceRescanFails
  \/ Rescanned \/ RescanFailed \/ Compare \/ PendingFails
  \/ Stop

Others ==
  \/ LogLoopSaves \/ TraceLoopSaves
  \/ \E r \in rows : Delete(r)
  \/ \E a \in Accounts : Register(a)
  \/ \E x \in chain : DeepReorg(x)

Next ==
  \/ Tick \/ CycleStep
  \/ sc = "log" /\ ScanFault /\ UNCHANGED auditVars
  \/ Cancel \/ Restart
  \/ Others

Spec == Init /\ [][Next]_vars

\* The goroutine of Run is scheduled.
FairSpec == Spec /\ WF_vars(CycleStep)

-----------------------------------------------------------------------------
(* Properties                                                              *)

TypeOK ==
  /\ chainType \in {"erc20", "eerc20"}
  /\ chain \subseteq Items
  /\ accounts \subseteq Accounts
  /\ scan \in ScanStates
  /\ blk \in 0 .. MaxHead
  /\ try \in [DOMAIN try -> Call]
  /\ cand \subseteq Items
  /\ \A e \in found : e.item \in Items
  /\ ctxDone \in BOOLEAN
  /\ faults \in 0 .. MaxFaults
  /\ hist \in [accounts : SUBSET Accounts, items : SUBSET Items, errs : Nat, hard : BOOLEAN]
  /\ audit \in AuditStates
  /\ sc \in Scanners
  /\ range \subseteq 0 .. MaxHead
  /\ i \in 0 .. SamplesPerCycle
  /\ tried \subseteq range
  /\ \A r \in rows : r.event.item \in Items /\ r.block \in 1 .. MaxHead
  /\ cursor \in [Scanners -> 0 .. MaxHead]
  /\ \A e \in missing : e.item \in Items
  /\ drift \in BOOLEAN

\* A scan of the log scanner by the audit is all or nothing: see CompleteScan.
AllOrNothing == sc = "log" => CompleteScan

\* The alarm means something (auditor.go:257-278): as long as no confirmed block has
\* changed and every trace scan was complete, no row is counted as missing, whatever the
\* loops, the publisher and the Adapter do between the second scan and the query.  The
\* rows of the trace scanner are excepted once an account has been registered: their
\* numbers count the calls to accounts that are registered when the block is scanned
\* (trace_scanner.go:230), so the second scan may find a call under another key.
NoFalseAlarm == missing # {} => drift \/ (sc = "trace" /\ accounts # Registered)

\* The log indexes that ownedBy gives to no scanner.
Unowned(n) == -100000 < n /\ n <= -10000

\* The audit detects "reorg data drift" (auditor.go:6): a row that is still pending when its
\* block is compared, and whose deposit was gone from the chain when the second scan
\* began, is counted, unless its log index lies between the ranges of the scanners.
DriftCounted ==
  [][ audit = "pending" /\ Compare =>
        \A e \in Pending(blk) :
          Maker(e) = sc /\ e.item \notin hist.items /\ ~Unowned(e.logIndex)
            => e \in missing' ]_vars

\* Only blocks whose rows are settled are audited (auditor.go:198-203): the block is
\* SafetyMargin behind the cursor of its scanner, and not before the first block.
BehindCursor ==
  scan # "idle" => blk \in 0 .. (cursor[sc] - SafetyMargin)

\* A cycle ends (auditor.go:130-222): however the draws fall, whatever fails and whenever
\* the context ends, Run comes back to its select or returns.
CycleEnds ==
  audit \notin {"wait", "stopped"} ~> audit \in {"wait", "stopped"}
=============================================================================
