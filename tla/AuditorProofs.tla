---------------------------- MODULE AuditorProofs ----------------------------
(***************************************************************************)
(* Proofs about the audit job and the scan of the log scanner it makes,    *)
(* for every chain, every set of accounts and contracts, every window and  *)
(* margin and every pattern of failures.                                   *)
(***************************************************************************)
EXTENDS Auditor, TLAPS

\* The audit scans only within its range, which is behind the cursor, and between
\* the draw of a block and its comparison only.
Shape ==
  /\ TypeOK
  /\ scan = "idle" <=> audit \notin {"rescan", "pending"}
  /\ audit = "pending" => scan = "done"
  /\ sc = "trace" => scan \in {"idle", "block", "done", "failed"}
  /\ scan # "idle" => blk \in range
  /\ range \subseteq 0 .. (cursor[sc] - SafetyMargin)
  /\ audit \notin {"sample", "rescan", "pending"} => range = {} /\ i = 0
  /\ \A k \in DOMAIN try :
       k \subseteq Items /\ (try[k].at = "wait" => try[k].attempt < MaxRetries)
  /\ hist.accounts \subseteq accounts

\* The history of a call.
Hist == [accounts : SUBSET Accounts, items : SUBSET Items, errs : Nat, hard : BOOLEAN]

\* A transient error in the history of a call.
LEMMA HistErr ==
  ASSUME NEW h \in Hist, NEW g, g = [h EXCEPT !.errs = h.errs + 1]
  PROVE  /\ g \in Hist /\ g.accounts = h.accounts /\ g.items = h.items
         /\ g.errs = h.errs + 1 /\ g.hard = h.hard
BY DEF Hist

\* Another failure.
LEMMA HistHard ==
  ASSUME NEW h \in Hist, NEW b \in BOOLEAN, NEW g, g = [h EXCEPT !.hard = b]
  PROVE  /\ g \in Hist /\ g.accounts = h.accounts /\ g.items = h.items
         /\ g.errs = h.errs /\ g.hard = b
BY DEF Hist

\* A range of the blocks that are settled, if there is any.
LEMMA RangeSettled ==
  ASSUME NEW c \in 0 .. MaxHead
  PROVE  AuditRange(c) \subseteq 0 .. MaxHead /\ AuditRange(c) \subseteq 0 .. (c - SafetyMargin)
<1> DEFINE required == WindowBlocks + SafetyMargin
<1>1. required \in Nat /\ SafetyMargin <= required /\ c \in Nat /\ c <= MaxHead
  BY AuditorAssumption
<1>2. CASE c < required
  BY <1>2 DEF AuditRange
<1>3. CASE ~(c < required)
  <2>1. AuditRange(c) = (c - required) .. (c - SafetyMargin)
    BY <1>3 DEF AuditRange
  <2> QED BY <1>1, <1>3, <2>1, AuditorAssumption
<1> QED BY <1>2, <1>3

\* The types of a bounded fault.
LEMMA FaultType == faults \in 0 .. MaxFaults /\ (Fault \/ UNCHANGED faults) => faults' \in 0 .. MaxFaults
BY LogScanAssumption DEF Fault

\* Going to the next scanner leaves nothing of the last one.
LEMMA NextScannerShape ==
  ASSUME Shape, audit \in {"cursor", "sample"}, NextScanner, UNCHANGED <<rows, cursor, drift>>,
         UNCHANGED <<world, scan, blk, try, cand, found, ctxDone, hist>>, faults' \in 0 .. MaxFaults
  PROVE  Shape'
BY AuditorAssumption DEF Shape, TypeOK, NextScanner, world, AuditStates, Scanners

\* The end of a comparison, or of a scan that failed.
LEMMA EndCallShape ==
  ASSUME Shape, audit' = "sample", EndCall, \A e \in missing' : e.item \in Items,
         UNCHANGED <<world, ctxDone, sc, range, i, tried, rows, cursor, drift>>,
         faults' \in 0 .. MaxFaults, audit \in {"rescan", "pending"}
  PROVE  Shape'
<1>1. try' \in [DOMAIN try' -> Call] /\ DOMAIN try' = {}
  BY DEF EndCall, Ask
<1>2. hist' = NoCall
  BY DEF EndCall
<1> QED BY <1>1, <1>2, AuditorAssumption DEF Shape, TypeOK, EndCall, world, AuditStates, ScanStates, NoCall

\* The calls of a scan to the node keep the types.
LEMMA CallShape ==
  ASSUME Shape, sc = "log", UNCHANGED auditVars, NEW k \in DOMAIN try,
         \/ CallAnswers(k) \/ CallResumes(k) \/ CallGivesUp(k)
         \/ \E e \in Errors : CallFails(k, e)
  PROVE  Shape'
<1> USE DEF Shape, TypeOK, Hist
<1> DEFINE Fine(c) == c \in Call /\ (c.at = "wait" => c.attempt < MaxRetries)
<1>0. hist \in Hist
  OBVIOUS
<1>1. Fine(try[k]) /\ k \subseteq Items
  OBVIOUS
<1>2. ASSUME NEW c, Fine(c), try' = [try EXCEPT ![k] = c],
             UNCHANGED <<world, scan, blk, cand, ctxDone>>, faults' \in 0 .. MaxFaults,
             hist' \in Hist,
             hist'.accounts = hist.accounts, \A e \in found' : e.item \in Items
      PROVE  Shape'
  <2>1. try' \in [DOMAIN try' -> Call] /\ DOMAIN try' = DOMAIN try
    BY <1>2
  <2>2. \A j \in DOMAIN try' : try'[j] = c \/ try'[j] = try[j]
    BY <1>2
  <2> QED BY <1>2, <2>1, <2>2 DEF auditVars, world
<1> HIDE DEF Shape, Hist
<1>3. CASE CallAnswers(k)
  <2>1. Fine(Succeeded(try[k]))
    BY <1>1 DEF Call, Succeeded
  <2>2. \A e \in found' : e.item \in Items
    BY <1>1, <1>3 DEF CallAnswers, Event, Shape
  <2> QED BY <1>0, <1>2, <1>3, <2>1, <2>2, Zenon DEF CallAnswers, Shape
<1>4. CASE CallResumes(k)
  <2>1. Fine(Resumed(try[k]))
    BY <1>1, <1>4, RetryAssumption DEF Call, Resumed, CallResumes
  <2> QED BY <1>0, <1>2, <1>4, <2>1, Zenon DEF CallResumes, Shape
<1>5. CASE CallGivesUp(k)
  <2>1. Fine(GivenUp(try[k]))
    BY <1>1 DEF Call, GivenUp
  <2> QED BY <1>0, <1>2, <1>5, <2>1, Zenon DEF CallGivesUp, Shape
<1>6. ASSUME NEW e \in Errors, CallFails(k, e) PROVE Shape'
  <2>1. Fine(Failed(try[k], e))
    BY <1>1 DEF Call, Failed
  <2>2. hist' \in Hist
        /\ hist'.accounts = hist.accounts
    <3>1. \/ hist' = [hist EXCEPT !.errs = hist.errs + 1]
          \/ hist' = [hist EXCEPT !.hard = TRUE]
      BY <1>6 DEF CallFails
    <3>2. CASE hist' = [hist EXCEPT !.errs = hist.errs + 1]
      BY <1>0, <3>2, HistErr
    <3>3. CASE hist' = [hist EXCEPT !.hard = TRUE]
      BY <1>0, <3>3, HistHard, Zenon
    <3> QED BY <3>1, <3>2, <3>3
  <2>3. faults' \in 0 .. MaxFaults
    BY <1>6, FaultType DEF CallFails, Shape
  <2> QED BY <1>2, <1>6, <2>1, <2>2, <2>3, Zenon DEF CallFails, Shape
<1> QED BY <1>3, <1>4, <1>5, <1>6

\* Every call of a set of items starts fresh.
LEMMA AskShape ==
  ASSUME NEW ids, ids \subseteq SUBSET Items, Ask(ids)
  PROVE  /\ try' \in [DOMAIN try' -> Call] /\ DOMAIN try' = ids
         /\ \A k \in DOMAIN try' : k \subseteq Items /\ try'[k] = Started
<1>1. Started \in Call
  BY RetryAssumption DEF Started, Call
<1> QED BY <1>1 DEF Ask

\* The steps between the calls of a scan keep the types.
LEMMA StepShape ==
  ASSUME Shape, sc = "log", UNCHANGED auditVars,
         \/ BlockRead \/ MatchAccounts \/ SendersDone \/ LogsRead \/ MatchReceivers
         \/ HasManyFails \/ CallsFailed
  PROVE  Shape'
<1>1. /\ TypeOK /\ hist \in Hist /\ hist.accounts \subseteq accounts
      /\ \A k \in DOMAIN try :
           k \subseteq Items /\ (try[k].at = "wait" => try[k].attempt < MaxRetries)
  BY DEF Shape, TypeOK, Hist
<1>2. SUFFICES /\ scan \notin {"idle", "done", "failed"}
               /\ scan' \in ScanStates \ {"idle"}
               /\ UNCHANGED <<world, blk, ctxDone>>
               /\ hist' \in Hist /\ hist'.accounts = hist.accounts
               /\ faults' \in 0 .. MaxFaults
               /\ cand' \subseteq Items
               /\ \A e \in found' : e.item \in Items
               /\ try' \in [DOMAIN try' -> Call]
               /\ \A k \in DOMAIN try' :
                    k \subseteq Items /\ (try'[k].at = "wait" => try'[k].attempt < MaxRetries)
  BY DEF Shape, TypeOK, auditVars, world, Hist
<1>3. \A ids : ids \subseteq SUBSET Items /\ Ask(ids) =>
        /\ try' \in [DOMAIN try' -> Call]
        /\ \A k \in DOMAIN try' :
             k \subseteq Items /\ (try'[k].at = "wait" => try'[k].attempt < MaxRetries)
  BY AskShape DEF Started
<1>4. {} \subseteq SUBSET Items /\ Whole \subseteq SUBSET Items
  BY DEF Whole
<1>5. AskLogs => scan' \in ScanStates \ {"idle"} /\ (Ask({}) \/ Ask(Whole))
  BY DEF AskLogs, ScanStates
<1> USE DEF ScanStates
<1>6. CASE BlockRead
  BY <1>1, <1>3, <1>4, <1>5, <1>6 DEF BlockRead, TypeOK, Of
<1>7. CASE MatchAccounts
  <2>1. {{x} : x \in HasMany(cand)} \subseteq SUBSET Items
    BY <1>1 DEF TypeOK, HasMany
  <2> QED BY <1>1, <1>3, <1>7, <2>1 DEF MatchAccounts, TypeOK
<1>8. CASE SendersDone
  BY <1>1, <1>3, <1>4, <1>5, <1>8 DEF SendersDone, TypeOK
<1>9. CASE LogsRead
  <2>1. hist' = hist \/ hist' = [hist EXCEPT !.hard = TRUE]
    BY <1>9 DEF LogsRead
  <2>2. hist' \in Hist /\ hist'.accounts = hist.accounts
    BY <1>1, <2>1, HistHard, Zenon
  <2> QED BY <1>1, <1>3, <1>4, <1>9, <2>2 DEF LogsRead, TypeOK, Of, FilterLogs
<1>10. CASE MatchReceivers
  <2>1. \A e \in found' : e.item \in Items
    BY <1>1, <1>10 DEF MatchReceivers, HasMany, Event, TypeOK
  <2> QED BY <1>1, <1>10, <2>1 DEF MatchReceivers, TypeOK
<1>11. CASE HasManyFails
  <2>1. hist' \in Hist /\ hist'.accounts = hist.accounts
    BY <1>1, <1>11, HistHard, Zenon DEF HasManyFails, HardFault
  <2>2. faults' \in 0 .. MaxFaults
    BY <1>1, <1>11, FaultType DEF HasManyFails, HardFault, TypeOK
  <2> QED BY <1>1, <1>11, <2>1, <2>2 DEF HasManyFails, TypeOK
<1>12. CASE CallsFailed
  BY <1>1, <1>3, <1>4, <1>12 DEF CallsFailed, TypeOK
<1> QED BY <1>6, <1>7, <1>8, <1>9, <1>10, <1>11, <1>12

\* The events of the trace scanner are of the calls it found.
LEMMA TraceItems ==
  ASSUME NEW S, NEW e \in TraceEvents(S)
  PROVE  e.item \in S /\ e.tx = <<e.item.block, e.item.tx>>
         /\ e.logIndex = traceLogIndexBase - Cardinality({y \in S : Before(y, e.item)})
<1>1. PICK x \in S : e = [item |-> x, tx |-> <<x.block, x.tx>>,
                        logIndex |-> traceLogIndexBase - Cardinality({y \in S : Before(y, x)})]
  BY DEF TraceEvents
<1> QED BY <1>1

\* The trace scan of the audit keeps the types.
LEMMA TraceShape ==
  ASSUME Shape, (\E S \in SUBSET Calls(blk) : TraceRescan(S)) \/ TraceRescanFails
  PROVE  Shape'
<1>1. try' \in [DOMAIN try' -> Call] /\ DOMAIN try' = {}
  BY Zenon DEF TraceRescan, TraceRescanFails, Ask
<1>2. ASSUME NEW S \in SUBSET Calls(blk), TraceRescan(S) PROVE Shape'
  <2>1. \A e \in found' : e.item \in Items
    <3>1. S \subseteq Items
      BY DEF Calls, Of, Shape, TypeOK
    <3> QED BY <1>2, <3>1, TraceItems, Zenon DEF TraceRescan
  <2>2. faults' \in 0 .. MaxFaults /\ drift' \in BOOLEAN
    BY <1>2, FaultType, Zenon DEF TraceRescan, Shape, TypeOK
  <2> QED BY <1>1, <1>2, <2>1, <2>2 DEF Shape, TypeOK, TraceRescan, world, ScanStates
<1>3. CASE TraceRescanFails
  <2>1. hist \in Hist
    BY DEF Shape, TypeOK, Hist
  <2>2. hist' \in Hist /\ hist'.accounts = hist.accounts
    BY <1>3, <2>1, HistHard, Zenon DEF TraceRescanFails, HardFault
  <2>3. faults' \in 0 .. MaxFaults
    BY <1>3, FaultType DEF TraceRescanFails, HardFault, Shape, TypeOK
  <2> QED BY <1>1, <1>3, <2>2, <2>3
          DEF Shape, TypeOK, TraceRescanFails, world, auditVars, ScanStates, Hist
<1> QED BY <1>2, <1>3

\* A loop that saves a block and advances its cursor keeps the types.
LEMMA SavesShape ==
  ASSUME Shape, LogLoopSaves \/ TraceLoopSaves
  PROVE  Shape'
<1> DEFINE s == IF LogLoopSaves THEN "log" ELSE "trace"
<1>1. /\ s \in Scanners /\ cursor' = [cursor EXCEPT ![s] = cursor[s] + 1] /\ cursor[s] + 1 <= MaxHead
      /\ UNCHANGED <<world, scan, blk, try, cand, found, ctxDone, hist,
                     audit, sc, range, i, tried, missing>>
  BY DEF LogLoopSaves, TraceLoopSaves, logVars, world, Scanners
<1>2. /\ cursor' \in [Scanners -> 0 .. MaxHead]
      /\ \A c \in Scanners : cursor[c] \in Int /\ cursor'[c] \in Int /\ cursor[c] <= cursor'[c]
  <2> HIDE DEF s
  <2> QED BY <1>1, AuditorAssumption DEF Shape, TypeOK
<1>3. faults' \in 0 .. MaxFaults /\ drift' \in BOOLEAN
  BY FaultType, Zenon DEF LogLoopSaves, TraceLoopSaves, logVars, Shape, TypeOK
<1>4. \A r \in rows' : r.event.item \in Items /\ r.block \in 1 .. MaxHead
  <2>1. CASE LogLoopSaves
    BY <2>1, AuditorAssumption DEF LogLoopSaves, Due, Event, Shape, TypeOK, Scanners
  <2>2. CASE TraceLoopSaves
    <3>1. PICK S \in SUBSET Calls(cursor["trace"] + 1) :
            rows' = rows \cup {[event |-> e, block |-> cursor["trace"] + 1] : e \in TraceEvents(S)}
      BY <2>2 DEF TraceLoopSaves
    <3>2. \A e \in TraceEvents(S) : e.item \in Items
      BY TraceItems, Zenon DEF Calls, Of, Shape, TypeOK
    <3>3. cursor["trace"] + 1 \in 1 .. MaxHead
      BY <2>2, AuditorAssumption DEF TraceLoopSaves, Shape, TypeOK, Scanners
    <3> QED BY <3>1, <3>2, <3>3 DEF Shape, TypeOK
  <2> QED BY <2>1, <2>2
<1>5. range \subseteq 0 .. (cursor'[sc] - SafetyMargin)
  BY <1>2, AuditorAssumption DEF Shape, TypeOK
<1> HIDE DEF s
<1> QED BY <1>1, <1>2, <1>3, <1>4, <1>5 DEF Shape, TypeOK, world

\* One step of the audit, of a scan or of the rest of the system.
LEMMA NextShape == Shape /\ [Next]_vars => Shape'
<1> SUFFICES ASSUME Shape, [Next]_vars PROVE Shape'
  OBVIOUS
<1> USE DEF AuditStates
<1>f. Fault \/ UNCHANGED faults => faults' \in 0 .. MaxFaults
  BY FaultType DEF Shape, TypeOK
<1>1. CASE Tick \/ OpenChain \/ OpenFails \/ Stop \/ Restart
  BY <1>1, <1>f, Zenon DEF Tick, OpenChain, OpenFails, Stop, Restart, Shape, TypeOK, logVars, world
<1>2. CASE ReadCursor \/ CursorFails \/ SamplesDone
  <2>1. CASE ReadCursor /\ AuditRange(cursor[sc]) # {}
    <3>1. cursor[sc] \in 0 .. MaxHead
      BY DEF Shape, TypeOK
    <3> QED BY <2>1, <3>1, RangeSettled DEF ReadCursor, Shape, TypeOK, logVars
  <2>2. CASE NextScanner
    BY <1>2, <1>f, <2>2, NextScannerShape DEF ReadCursor, CursorFails, SamplesDone, logVars, world
  <2> QED BY <1>2, <2>1, <2>2 DEF ReadCursor, CursorFails, SamplesDone
<1>3. ASSUME NEW b \in range, Sample(b) PROVE Shape'
  <2>0. i' \in 0 .. SamplesPerCycle /\ tried' \subseteq range /\ missing' = {}
    BY <1>3, AuditorAssumption DEF Sample, Shape, TypeOK
  <2>1. CASE b \in tried
    BY <1>3, <2>0, <2>1 DEF Sample, Shape, TypeOK, logVars
  <2>2. CASE b \notin tried
    <3>1. hist' \in Hist /\ hist'.accounts = accounts
      <4>1. hist' = [accounts |-> accounts, items |-> {x \in chain : x.block = b},
                     errs |-> 0, hard |-> FALSE]
        BY <1>3, <2>2 DEF Sample, CallScan
      <4>2. accounts \subseteq Accounts /\ {x \in chain : x.block = b} \subseteq Items
        BY DEF Shape, TypeOK
      <4> QED BY <4>1, <4>2 DEF Hist
    <3>2. Whole \subseteq SUBSET Items
      BY DEF Whole
    <3>3. /\ try' \in [DOMAIN try' -> Call]
          /\ \A k \in DOMAIN try' : k \subseteq Items /\ try'[k] = Started
      BY <1>3, <2>2, <3>2, AskShape DEF Sample, CallScan
    <3> QED BY <1>3, <2>0, <2>2, <3>1, <3>3, AuditorAssumption
            DEF Sample, CallScan, Shape, TypeOK, world, ScanStates, Hist, Started
  <2> QED BY <2>1, <2>2
<1>4. CASE sc = "log" /\ (ScanStep \/ ScanFault) /\ UNCHANGED auditVars
  BY <1>4, CallShape, StepShape DEF ScanStep, ScanFault
<1>5. CASE (\E S \in SUBSET Calls(blk) : TraceRescan(S)) \/ TraceRescanFails
  BY <1>5, TraceShape
<1>6. CASE Rescanned
  BY <1>6 DEF Rescanned, Shape, TypeOK, logVars
<1>7. CASE RescanFailed \/ PendingFails
  BY <1>7, <1>f, EndCallShape DEF RescanFailed, PendingFails, Shape, TypeOK
<1>8. CASE Compare
  <2>1. \A e \in missing' : e.item \in Items
    BY <1>8 DEF Compare, Pending, Shape, TypeOK
  <2> QED BY <1>8, <1>f, <2>1, EndCallShape DEF Compare
<1>9. CASE Cancel
  <2>1. hist' \in Hist /\ hist'.accounts = hist.accounts
    BY <1>9, HistHard, Zenon DEF Cancel, Shape, TypeOK, Hist
  <2> QED BY <1>9, <1>f, <2>1 DEF Cancel, Shape, TypeOK, world, auditVars, Hist
<1>10. CASE LogLoopSaves \/ TraceLoopSaves
  BY <1>10, SavesShape
<1>11. CASE \E r \in rows : Delete(r)
  BY <1>11 DEF Delete, Shape, TypeOK, logVars
<1>12. CASE \E a \in Accounts : Register(a)
  BY <1>12 DEF Register, Shape, TypeOK, auditVars
<1>13. CASE \E x \in chain : DeepReorg(x)
  BY <1>13, <1>f DEF DeepReorg, Shape, TypeOK
<1>14. CASE UNCHANGED vars
  BY <1>14 DEF vars, logVars, auditVars, Shape, TypeOK
<1> QED BY <1>1, <1>2, <1>3, <1>4, <1>5, <1>6, <1>7, <1>8, <1>9, <1>10, <1>11, <1>12, <1>13,
           <1>14 DEF Next, CycleStep, Others

-----------------------------------------------------------------------------
(* The scan of the log scanner returns all or nothing.                     *)

\* What the scan looks for, before it is matched with the accounts.
Fits(x) ==
  /\ x.fit
  /\ \/ x.kind = "tx"
     \/ x.kind = "log" /\ x.contract \in Contracts /\ x.topic = DecoderTopic

\* The deposits of kind kd that the scan of block blk owes its caller.
Owed(kd) == {x \in Due(chain, blk, hist.accounts) : x.kind = kd}

Got == {e.item : e \in found}

\* Each stage of the scan has what the stages before it were to find, and works on
\* what is left.
Stage ==
  sc = "log" /\ scan # "idle" =>
    /\ {x \in chain : x.block = blk} \subseteq hist.items
    /\ \A x \in cand : x \in hist.items /\ x.block = blk /\ Fits(x)
    /\ \A k \in DOMAIN try : k \subseteq Due(hist.items, blk, accounts)
    /\ Got \subseteq Due(hist.items, blk, accounts)
    /\ \A e \in found : e = Event(e.item)
    /\ scan = "accounts" => Owed("tx") \subseteq cand
    /\ scan = "senders" => \A x \in Owed("tx") :
                             {x} \in DOMAIN try /\ (try[{x}].at = "ok" => x \in Got)
    /\ scan \in {"logs", "receivers", "done"} => Owed("tx") \subseteq Got
    /\ scan = "receivers" => Owed("log") \subseteq cand
    /\ scan = "done" => Owed("log") \subseteq Got

\* Due in terms of Fits.
LEMMA DueFits ==
  \A items, b, a : Due(items, b, a) = {x \in items : x.block = b /\ x.to \in a /\ Fits(x)}
BY DEF Due, Fits

\* The calls of the scan to the node.
LEMMA CallStage ==
  ASSUME Shape, Stage, sc = "log", scan # "idle", UNCHANGED auditVars, NEW k \in DOMAIN try,
         \/ CallAnswers(k) \/ CallResumes(k) \/ CallGivesUp(k)
         \/ \E e \in Errors : CallFails(k, e)
  PROVE  Stage'
<1>1. /\ UNCHANGED <<sc, scan, blk, cand, world>>
      /\ hist'.accounts = hist.accounts /\ hist'.items = hist.items
  <2>0. hist \in Hist
    BY DEF Shape, TypeOK, Hist
  <2>1. \/ hist' = hist
        \/ hist' = [hist EXCEPT !.errs = hist.errs + 1]
        \/ hist' = [hist EXCEPT !.hard = TRUE]
    BY DEF CallAnswers, CallResumes, CallGivesUp, CallFails
  <2>2. hist'.accounts = hist.accounts /\ hist'.items = hist.items
    <3>1. CASE hist' = [hist EXCEPT !.errs = hist.errs + 1]
      BY <2>0, <3>1, HistErr
    <3>2. CASE hist' = [hist EXCEPT !.hard = TRUE]
      BY <2>0, <3>2, HistHard
    <3> QED BY <2>1, <3>1, <3>2
  <2> QED BY <2>2 DEF CallAnswers, CallResumes, CallGivesUp, CallFails, auditVars
<1>2. /\ DOMAIN try' = DOMAIN try
      /\ \A j \in DOMAIN try : j # k => try'[j] = try[j]
      /\ ~CallAnswers(k) => try'[k].at # "ok"
  BY DEF CallAnswers, CallResumes, CallGivesUp, CallFails, Failed, Resumed, GivenUp, Shape, TypeOK, Call
<1>3. found' = found \cup IF CallAnswers(k) THEN {Event(x) : x \in k} ELSE {}
  BY DEF CallAnswers, CallResumes, CallGivesUp, CallFails
<1>4. \A x : Event(x).item = x
  BY DEF Event
<1>5. Got' = Got \cup IF CallAnswers(k) THEN k ELSE {}
  BY <1>3, <1>4 DEF Got
<1>6. /\ Owed("tx")' = Owed("tx") /\ Owed("log")' = Owed("log")
      /\ \A x : Fits(x)' <=> Fits(x)
      /\ Due(hist.items, blk, accounts)' = Due(hist.items, blk, accounts)
  BY <1>1 DEF Due, Owed, Fits, DecoderTopic, world
<1>7. \A e \in found' : e = Event(e.item)
  BY <1>3, <1>4 DEF Stage
<1>8. k \subseteq Due(hist.items, blk, accounts)
  BY DEF Stage
<1>9. \A x \in Owed("tx") : {x} \in DOMAIN try => (try'[{x}].at = "ok" => x \in Got' \/ try[{x}].at = "ok")
  BY <1>2, <1>5
<1> HIDE DEF Got, Owed, Due, Fits, Event
<1> QED BY <1>1, <1>2, <1>5, <1>6, <1>7, <1>8, <1>9 DEF Stage, world

\* What happens beside the scan: blocks change and accounts are registered.
LEMMA BesideStage ==
  ASSUME Stage, UNCHANGED <<chainType, scan, blk, try, cand, found, sc>>, chain' \subseteq chain,
         accounts \subseteq accounts', hist'.accounts = hist.accounts, hist'.items = hist.items
  PROVE  Stage'
<1>1. /\ Got' = Got /\ \A x : Event(x)' = Event(x) /\ (Fits(x)' <=> Fits(x))
      /\ Owed("tx")' \subseteq Owed("tx") /\ Owed("log")' \subseteq Owed("log")
      /\ Due(hist.items, blk, accounts) \subseteq Due(hist.items, blk, accounts)'
  BY DEF Got, Event, NativeLogIndex, Fits, Owed, Due, DecoderTopic
<1> HIDE DEF Got, Owed, Due, Fits, Event
<1> QED BY <1>1 DEF Stage

\* The steps between the calls of the scan.
LEMMA StepStage ==
  ASSUME Shape, Stage, sc = "log", UNCHANGED auditVars,
         \/ BlockRead \/ MatchAccounts \/ SendersDone \/ LogsRead \/ MatchReceivers
         \/ HasManyFails \/ CallsFailed
  PROVE  Stage'
<1>0. scan # "idle"
  BY DEF BlockRead, MatchAccounts, SendersDone, LogsRead, MatchReceivers, HasManyFails, CallsFailed
<1>1. /\ UNCHANGED <<world, blk, sc>> /\ hist'.accounts = hist.accounts /\ hist'.items = hist.items
  <2>1. hist' = hist \/ hist' = [hist EXCEPT !.hard = TRUE]
    BY DEF BlockRead, MatchAccounts, SendersDone, LogsRead, MatchReceivers, HasManyFails,
       CallsFailed, HardFault
  <2>2. hist'.accounts = hist.accounts /\ hist'.items = hist.items
    BY <2>1, HistHard DEF Shape, TypeOK, Hist
  <2> QED BY <2>2 DEF BlockRead, MatchAccounts, SendersDone, LogsRead, MatchReceivers, HasManyFails,
             CallsFailed, auditVars
<1>2. /\ \A x : Event(x)' = Event(x) /\ Event(x).item = x /\ (Fits(x)' <=> Fits(x))
      /\ Owed("tx")' = Owed("tx") /\ Owed("log")' = Owed("log")
      /\ Due(hist.items, blk, accounts)' = Due(hist.items, blk, accounts)
  BY <1>1 DEF Event, NativeLogIndex, Fits, Owed, Due, DecoderTopic, world
<1>3. /\ \A x \in Owed("tx") : /\ x \in chain /\ x.kind = "tx" /\ x.block = blk /\ x.fit
                               /\ x.to \in accounts
      /\ \A x \in Owed("log") : /\ x \in chain /\ x.kind = "log" /\ x.block = blk /\ x.fit
                                /\ x.to \in accounts /\ x.contract \in Contracts
                                /\ x.topic = DecoderTopic
  BY DEF Owed, Due, Shape
<1>4. /\ {x \in chain : x.block = blk} \subseteq hist.items
      /\ \A x \in cand : x \in hist.items /\ x.block = blk /\ Fits(x)
      /\ \A k \in DOMAIN try : k \subseteq Due(hist.items, blk, accounts)
      /\ Got \subseteq Due(hist.items, blk, accounts)
      /\ \A e \in found : e = Event(e.item)
  BY <1>0 DEF Stage
<1>5. \A x : x \in Due(hist.items, blk, accounts) <=>
               x \in hist.items /\ x.block = blk /\ x.to \in accounts /\ Fits(x)
  BY DueFits
<1>6. ASSUME UNCHANGED found PROVE Got' = Got /\ \A e \in found' : e = Event(e.item)
  BY <1>4, <1>6 DEF Got
<1>7. Ask({}) \/ Ask(Whole) => \A k \in DOMAIN try' : k = {}
  BY DEF Ask, Whole
<1>8. AskLogs => \/ scan' = "done" /\ Ask({}) /\ Owed("log") = {}
                 \/ scan' = "logs" /\ Ask(Whole)
  BY <1>3 DEF AskLogs
<1>9. CASE BlockRead
  <2>1. cand' = {x \in Of("tx", blk) : x.fit} /\ UNCHANGED found
    BY <1>9 DEF BlockRead
  <2>2. \A x \in cand' : x \in hist.items /\ x.block = blk /\ Fits(x)
    BY <1>4, <2>1 DEF Of, Fits
  <2>3. Owed("tx") \subseteq cand'
    BY <1>3, <2>1 DEF Of
  <2>4. \/ cand' = {} /\ AskLogs
        \/ scan' = "accounts" /\ Ask({})
    BY <1>9 DEF BlockRead
  <2> HIDE DEF Got, Owed, Due, Fits, Event
  <2> QED BY <1>1, <1>2, <1>4, <1>6, <1>7, <1>8, <2>1, <2>2, <2>3, <2>4 DEF Stage, world
<1>10. CASE MatchAccounts
  <2>1. DOMAIN try' = {{x} : x \in {y \in cand : y.to \in accounts}} /\ cand' = {} /\ scan' = "senders"
    BY <1>10 DEF MatchAccounts, HasMany, Ask
  <2>2. \A k \in DOMAIN try' : try'[k].at # "ok" /\ k \subseteq Due(hist.items, blk, accounts)
    <3>1. \A k \in DOMAIN try' : try'[k] = Started
      BY <1>10 DEF MatchAccounts, Ask
    <3> HIDE DEF Fits, Due
    <3> QED BY <1>4, <1>5, <2>1, <3>1 DEF Started
  <2>3. \A x \in Owed("tx") : {x} \in DOMAIN try'
    BY <1>3, <1>10, <2>1 DEF Stage, MatchAccounts
  <2>4. UNCHANGED found
    BY <1>10 DEF MatchAccounts
  <2> HIDE DEF Got, Owed, Due, Fits, Event
  <2> QED BY <1>1, <1>2, <1>4, <1>6, <2>1, <2>2, <2>3, <2>4, Zenon DEF Stage, world
<1>11. CASE SendersDone
  <2>1. Owed("tx") \subseteq Got
    BY <1>11, Zenon DEF SendersDone, Answered, Stage
  <2>2. AskLogs /\ UNCHANGED <<found, cand>>
    BY <1>11 DEF SendersDone
  <2> HIDE DEF Got, Owed, Due, Fits, Event
  <2> QED BY <1>1, <1>2, <1>4, <1>6, <1>7, <1>8, <2>1, <2>2 DEF Stage, world
<1>12. CASE LogsRead
  <2>1. Owed("tx") \subseteq Got
    BY <1>12 DEF LogsRead, Stage
  <2>2. UNCHANGED found /\ Ask({})
    BY <1>12 DEF LogsRead
  <2>3. \/ cand' = {} /\ scan' = "failed"
        \/ /\ cand' = {x \in FilterLogs(blk) : x.fit}
           /\ scan' = IF cand' = {} THEN "done" ELSE "receivers"
    BY <1>12 DEF LogsRead
  <2>4. \A x \in cand' : x \in hist.items /\ x.block = blk /\ Fits(x)
    BY <1>4, <2>3 DEF Of, Fits, FilterLogs
  <2>5. Owed("log") \subseteq {x \in FilterLogs(blk) : x.fit}
    BY <1>3 DEF Of, FilterLogs
  <2> HIDE DEF Got, Owed, Due, Fits, Event, FilterLogs
  <2> QED BY <1>1, <1>2, <1>4, <1>6, <1>7, <2>1, <2>2, <2>3, <2>4, <2>5 DEF Stage, world
<1>13. CASE MatchReceivers
  <2>1. Owed("tx") \subseteq Got /\ Owed("log") \subseteq cand
    BY <1>13 DEF MatchReceivers, Stage
  <2>2. /\ found' = found \cup {Event(x) : x \in {y \in cand : y.to \in accounts}}
        /\ cand' = {} /\ scan' = "done" /\ UNCHANGED try
    BY <1>13 DEF MatchReceivers, HasMany
  <2>3. Got' = Got \cup {y \in cand : y.to \in accounts} /\ \A e \in found' : e = Event(e.item)
    BY <1>2, <1>4, <2>2 DEF Got
  <2>4. Got' \subseteq Due(hist.items, blk, accounts)
    BY <1>4, <1>5, <2>3
  <2>5. Owed("tx") \subseteq Got' /\ Owed("log") \subseteq Got'
    BY <1>3, <2>1, <2>3
  <2> HIDE DEF Got, Owed, Due, Fits, Event
  <2> QED BY <1>1, <1>2, <1>4, <2>2, <2>3, <2>4, <2>5 DEF Stage, world
<1>14. CASE HasManyFails \/ CallsFailed
  <2>1. scan' = "failed" /\ UNCHANGED found /\ cand' \subseteq cand /\ (Ask({}) \/ UNCHANGED try)
    BY <1>14 DEF HasManyFails, CallsFailed
  <2> HIDE DEF Got, Owed, Due, Fits, Event
  <2> QED BY <1>1, <1>2, <1>4, <1>6, <1>7, <2>1 DEF Stage, world
<1> QED BY <1>9, <1>10, <1>11, <1>12, <1>13, <1>14

\* One step of the audit, of a scan or of the rest of the system.
LEMMA NextStage == Shape /\ Stage /\ [Next]_vars => Stage'
<1> SUFFICES ASSUME Shape, Stage, [Next]_vars PROVE Stage'
  OBVIOUS
<1>1. CASE UNCHANGED <<logVars, sc>>
  BY <1>1, BesideStage DEF logVars
<1>2. ASSUME UNCHANGED <<world, scan, blk, try, cand, found, ctxDone, hist, sc>> PROVE Stage'
  BY <1>2, BesideStage DEF world
<1>3. ASSUME scan = "idle", UNCHANGED scan PROVE Stage'
  BY <1>3 DEF Stage
<1>4. CASE Tick \/ OpenChain \/ OpenFails \/ ReadCursor \/ CursorFails \/ SamplesDone \/ Stop \/ Restart
  <2>1. scan = "idle"
    BY <1>4 DEF Tick, OpenChain, OpenFails, ReadCursor, CursorFails, SamplesDone, Stop, Restart, Shape
  <2>2. UNCHANGED scan
    BY <1>4 DEF Tick, OpenChain, OpenFails, ReadCursor, CursorFails, SamplesDone, Stop, Restart, logVars
  <2> QED BY <1>3, <2>1, <2>2
<1>5. ASSUME NEW b \in range, Sample(b) PROVE Stage'
  <2>1. CASE b \in tried
    BY <1>1, <1>5, <2>1 DEF Sample
  <2>2. CASE b \notin tried
    <3>1. /\ scan' = "block" /\ cand' = {} /\ found' = {} /\ UNCHANGED world /\ blk' = b
          /\ DOMAIN try' = {{}}
          /\ hist' = [accounts |-> accounts, items |-> {x \in chain : x.block = b},
                      errs |-> 0, hard |-> FALSE]
      BY <1>5, <2>2 DEF Sample, CallScan, Ask, Whole
    <3>2. hist'.items = {x \in chain : x.block = b}
      BY <3>1
    <3>3. Got' = {}
      BY <3>1 DEF Got
    <3> HIDE DEF Got
    <3> QED BY <3>1, <3>2, <3>3 DEF Stage, world
  <2> QED BY <2>1, <2>2
<1>6. CASE sc = "log" /\ (ScanStep \/ ScanFault) /\ UNCHANGED auditVars
  <2>1. CASE scan = "idle"
    <3>1. UNCHANGED scan
      BY <1>6, <2>1 DEF ScanStep, ScanFault, BlockRead, MatchAccounts, SendersDone, LogsRead,
         MatchReceivers, HasManyFails, CallsFailed, CallAnswers, CallResumes, CallGivesUp, CallFails
    <3> QED BY <1>3, <2>1, <3>1
  <2> QED BY <1>6, <2>1, CallStage, StepStage DEF ScanStep, ScanFault
<1>7. CASE (\E S \in SUBSET Calls(blk) : TraceRescan(S)) \/ TraceRescanFails
  BY <1>7, Zenon DEF Stage, TraceRescan, TraceRescanFails, auditVars
<1>8. CASE Rescanned
  BY <1>1, <1>8 DEF Rescanned
<1>9. CASE RescanFailed \/ PendingFails \/ Compare
  BY <1>9 DEF RescanFailed, PendingFails, Compare, EndCall, Stage
<1>10. CASE Cancel
  <2>1. hist'.accounts = hist.accounts /\ hist'.items = hist.items
    BY <1>10, HistHard DEF Cancel, Shape, TypeOK, Hist
  <2> QED BY <1>10, <2>1, BesideStage DEF Cancel, world, auditVars
<1>11. CASE LogLoopSaves \/ TraceLoopSaves \/ \E r \in rows : Delete(r)
  BY <1>2, <1>11 DEF LogLoopSaves, TraceLoopSaves, Delete, logVars, world
<1>12. CASE \E a \in Accounts : Register(a)
  BY <1>12, BesideStage DEF Register, auditVars
<1>13. CASE \E x \in chain : DeepReorg(x)
  BY <1>13, BesideStage DEF DeepReorg
<1>14. CASE UNCHANGED vars
  BY <1>1, <1>14 DEF vars, auditVars
<1> QED BY <1>4, <1>5, <1>6, <1>7, <1>8, <1>9, <1>10, <1>11, <1>12, <1>13, <1>14
        DEF Next, CycleStep, Others

\* The two invariants hold in every state of the audit.
THEOREM Invariance == Spec => [](Shape /\ Stage)
<1>1. Init => Shape /\ Stage
  <2> SUFFICES ASSUME Init PROVE Shape /\ Stage
    OBVIOUS
  <2>1. scan = "idle" /\ hist = NoCall /\ try = [k \in {} |-> Started]
    BY DEF Init, LogInit
  <2>2. try \in [DOMAIN try -> Call] /\ DOMAIN try = {}
    BY <2>1
  <2>3. ctxDone \in BOOLEAN /\ drift \in BOOLEAN
    BY Zenon DEF Init, LogInit
  <2> QED BY <2>1, <2>2, <2>3, AuditorAssumption, LogScanAssumption
          DEF Init, LogInit, Shape, TypeOK, Stage, NoCall, AuditStates, ScanStates, Scanners
<1> QED BY <1>1, NextShape, NextStage, PTL DEF Spec

\* The variables of the audit keep their types.
THEOREM TypeCorrect == Spec => []TypeOK
<1>1. Shape => TypeOK
  BY DEF Shape
<1> QED BY <1>1, Invariance, PTL

\* auditor.go:198-203: only settled blocks are audited, however far the loops have come.
THEOREM SettledBlocks == Spec => []BehindCursor
<1>1. Shape => BehindCursor
  BY Zenon DEF Shape, BehindCursor
<1> QED BY <1>1, Invariance, PTL

\* log_scanner.go:63-96: a scan has every deposit of its block or fails, whatever the order
\* of the lookups, the number of retries, the accounts registered and the blocks changed
\* while it runs.
THEOREM ScanIsWhole == Spec => []AllOrNothing
<1>1. Stage => AllOrNothing
  <2>1. \A x \in Due(chain, blk, hist.accounts) : x \in Owed("tx") \/ x \in Owed("log")
    BY Zenon DEF Owed, Due
  <2> QED BY <2>1 DEF Stage, AllOrNothing, CompleteScan, Got
<1> QED BY <1>1, Invariance, PTL

-----------------------------------------------------------------------------
(* Transient errors are absorbed.                                          *)

\* As long as nothing else has failed, the errors of each call are accounted for, and
\* a call that gave up had too many of them.
Patience ==
  /\ ctxDone /\ scan # "idle" => hist.hard
  /\ scan # "idle" /\ ~hist.hard =>
       /\ \A k \in DOMAIN try : /\ try[k].attempt <= hist.errs
                                /\ try[k].at = "wait" => try[k].attempt < hist.errs
                                /\ try[k].at = "err" => hist.errs > MaxRetries
       /\ scan = "failed" => hist.errs > MaxRetries

\* A call of the scan to the node, when the errors that pass are retried.
LEMMA CallPatience ==
  ASSUME Shape, Patience, scan # "idle", \A e \in Transient : IsRetryable(e),
         NEW k \in DOMAIN try,
         \/ CallAnswers(k) \/ CallResumes(k) \/ CallGivesUp(k)
         \/ \E e \in Errors : CallFails(k, e)
  PROVE  Patience'
<1>0. /\ hist \in Hist /\ hist.errs \in Nat /\ UNCHANGED <<scan, ctxDone>>
      /\ try \in [DOMAIN try -> Call] /\ try[k] \in Call
      /\ \A j \in DOMAIN try : try[j].attempt \in 0 .. MaxRetries
  BY DEF Shape, TypeOK, Hist, Call, CallAnswers, CallResumes, CallGivesUp, CallFails
<1>1. ASSUME NEW c, try' = [try EXCEPT ![k] = c], UNCHANGED hist,
             ~hist.hard => /\ c.attempt <= hist.errs
                           /\ c.at = "wait" => c.attempt < hist.errs
                           /\ c.at = "err" => hist.errs > MaxRetries
      PROVE  Patience'
  <2>1. DOMAIN try' = DOMAIN try /\ \A j \in DOMAIN try : try'[j] = IF j = k THEN c ELSE try[j]
    BY <1>0, <1>1
  <2> QED BY <1>0, <1>1, <2>1 DEF Patience
<1>2. CASE CallAnswers(k)
  <2>1. Succeeded(try[k]).attempt = try[k].attempt /\ Succeeded(try[k]).at = "ok"
    BY <1>0 DEF Succeeded, Call
  <2> QED BY <1>1, <1>2, <2>1 DEF CallAnswers, Patience
<1>3. CASE CallResumes(k)
  <2>1. ~hist.hard => try[k].attempt + 1 <= hist.errs
    BY <1>0, <1>3, RetryAssumption DEF CallResumes, Patience
  <2> QED BY <1>1, <1>3, <2>1, Zenon DEF CallResumes, Resumed
<1>4. CASE CallGivesUp(k)
  <2>1. ~hist.hard => hist.errs > MaxRetries
    BY <1>4 DEF CallGivesUp, Cancelled, Patience
  <2>2. GivenUp(try[k]).attempt = try[k].attempt /\ GivenUp(try[k]).at = "err"
    BY <1>0 DEF GivenUp, Call
  <2> QED BY <1>1, <1>4, <2>1, <2>2 DEF CallGivesUp, Patience
<1>5. ASSUME NEW e \in Errors, CallFails(k, e) PROVE Patience'
  <2>1. CASE e \notin Transient
    <3>1. hist'.hard = TRUE
      BY <1>0, <1>5, <2>1, HistHard DEF CallFails
    <3> QED BY <3>1 DEF Patience
  <2>2. CASE e \in Transient
    <3>1. hist'.errs = hist.errs + 1 /\ hist'.hard = hist.hard
      <4>1. hist' = [hist EXCEPT !.errs = hist.errs + 1]
        BY <1>5, <2>2 DEF CallFails
      <4> QED BY <1>0, <4>1, HistErr
    <3>2. /\ Failed(try[k], e).attempt = try[k].attempt
          /\ Failed(try[k], e).at = IF try[k].attempt < MaxRetries THEN "wait" ELSE "err"
      BY <1>0, <2>2 DEF Failed, Call
    <3>3. DOMAIN try' = DOMAIN try
          /\ \A j \in DOMAIN try : try'[j] = IF j = k THEN Failed(try[k], e) ELSE try[j]
      BY <1>0, <1>5 DEF CallFails
    <3>4. try[k].attempt \in 0 .. MaxRetries
      BY <1>0
    <3> HIDE DEF Failed
    <3>5. ASSUME ~hist.hard, NEW j \in DOMAIN try
          PROVE  /\ try'[j].attempt <= hist.errs + 1
                 /\ try'[j].at = "wait" => try'[j].attempt < hist.errs + 1
                 /\ try'[j].at = "err" => hist.errs + 1 > MaxRetries
      BY <1>0, <3>2, <3>3, <3>4, <3>5, RetryAssumption DEF Patience
    <3> QED BY <1>0, <3>1, <3>3, <3>5, RetryAssumption DEF Patience
  <2> QED BY <2>1, <2>2
<1> QED BY <1>2, <1>3, <1>4, <1>5

\* One step of the audit, of a scan or of the rest of the system.
LEMMA NextPatience ==
  ASSUME \A e \in Transient : IsRetryable(e), Shape, Patience, [Next]_vars
  PROVE  Patience'
<1>0. hist \in Hist
  BY DEF Shape, TypeOK, Hist
<1>1. ASSUME UNCHANGED <<scan, try, ctxDone, hist>> PROVE Patience'
  BY <1>1 DEF Patience
<1>2. ASSUME scan' = "idle" PROVE Patience'
  BY <1>2 DEF Patience
<1>3. ASSUME scan # "idle", UNCHANGED ctxDone, UNCHANGED hist \/ hist'.hard,
             \A k \in DOMAIN try' : try'[k] = Started \/ (k \in DOMAIN try /\ try'[k] = try[k]),
             scan' = "failed" /\ ~hist'.hard => hist.errs > MaxRetries
      PROVE  Patience'
  <2>1. CASE hist'.hard
    BY <2>1 DEF Patience
  <2>2. CASE UNCHANGED hist /\ ~hist.hard
    <3>1. hist.errs \in Nat
      BY <1>0 DEF Hist
    <3> QED BY <1>3, <2>2, <3>1 DEF Patience, Started
  <2> QED BY <1>3, <2>1, <2>2
<1>4. CASE Tick \/ OpenChain \/ OpenFails \/ ReadCursor \/ CursorFails \/ SamplesDone \/ Stop \/ Restart
  <2>1. scan = "idle" /\ UNCHANGED scan
    BY <1>4, Zenon DEF Tick, OpenChain, OpenFails, ReadCursor, CursorFails, SamplesDone, Stop, Restart, Shape,
       logVars
  <2> QED BY <1>2, <2>1
<1>5. ASSUME NEW b \in range, Sample(b) PROVE Patience'
  <2>1. CASE b \in tried
    BY <1>1, <1>5, <2>1 DEF Sample, logVars
  <2>2. CASE b \notin tried
    <3>1. /\ scan' = "block" /\ \A k \in DOMAIN try' : try'[k] = Started
          /\ hist'.errs = 0 /\ ~ctxDone'
      BY <1>5, <2>2 DEF Sample, CallScan, Ask
    <3> QED BY <3>1 DEF Patience, Started
  <2> QED BY <2>1, <2>2
<1>6. CASE sc = "log" /\ (ScanStep \/ ScanFault) /\ UNCHANGED auditVars
  <2>0. /\ Ask({}) => DOMAIN try' = {}
        /\ \A ids : Ask(ids) => \A k \in DOMAIN try' : try'[k] = Started
    BY DEF Ask
  <2>1. CASE BlockRead \/ MatchAccounts \/ SendersDone
    BY <1>3, <2>0, <2>1 DEF BlockRead, MatchAccounts, SendersDone, AskLogs
  <2>2. CASE LogsRead
    <3>1. UNCHANGED hist \/ hist'.hard
      BY <1>0, <2>2, HistHard, Zenon DEF LogsRead
    <3>2. scan' = "failed" => hist'.hard
      BY <1>0, <2>2, HistHard, Zenon DEF LogsRead
    <3> QED BY <1>3, <2>0, <2>2, <3>1, <3>2 DEF LogsRead
  <2>3. CASE MatchReceivers
    BY <1>3, <2>3 DEF MatchReceivers
  <2>4. CASE HasManyFails
    <3>1. hist'.hard
      BY <1>0, <2>4, HistHard, Zenon DEF HasManyFails, HardFault, Patience
    <3> QED BY <1>3, <2>4, <3>1 DEF HasManyFails
  <2>5. CASE CallsFailed
    BY <1>3, <2>0, <2>5 DEF CallsFailed, Patience
  <2>6. ASSUME NEW k \in DOMAIN try, \/ CallAnswers(k) \/ CallResumes(k) \/ CallGivesUp(k)
                                     \/ \E e \in Errors : CallFails(k, e)
        PROVE  Patience'
    <3>1. CASE scan = "idle"
      BY <1>2, <2>6, <3>1 DEF CallAnswers, CallResumes, CallGivesUp, CallFails
    <3> QED BY <2>6, <3>1, CallPatience
  <2> QED BY <1>6, <2>1, <2>2, <2>3, <2>4, <2>5, <2>6 DEF ScanStep, ScanFault
<1>7. CASE (\E S \in SUBSET Calls(blk) : TraceRescan(S))
  <2>1. DOMAIN try' = {} /\ scan # "idle" /\ scan' = "done" /\ UNCHANGED <<ctxDone, hist>>
    BY <1>7 DEF TraceRescan, Ask
  <2> QED BY <1>3, <2>1
<1>8. CASE TraceRescanFails
  <2>1. hist'.hard
    BY <1>0, <1>8, HistHard, Zenon DEF TraceRescanFails, HardFault, Patience
  <2> QED BY <2>1 DEF Patience
<1>9. CASE Rescanned
  BY <1>1, <1>9 DEF Rescanned, logVars
<1>10. CASE RescanFailed \/ PendingFails \/ Compare
  BY <1>2, <1>10 DEF RescanFailed, PendingFails, Compare, EndCall
<1>11. CASE Cancel
  <2>1. scan' = "idle" \/ hist'.hard
    BY <1>0, <1>11, HistHard, Zenon DEF Cancel
  <2> QED BY <2>1 DEF Patience
<1>12. CASE Others \/ UNCHANGED vars
  BY <1>1, <1>12, Zenon DEF Others, LogLoopSaves, TraceLoopSaves, Delete, Register, DeepReorg, logVars, vars
<1> QED BY <1>4, <1>5, <1>6, <1>7, <1>8, <1>9, <1>10, <1>11, <1>12 DEF Next, CycleStep

\* retry.go:22: when the errors that pass are all retryable, a scan fails only after another
\* failure, or after more of them than MaxRetries, wherever they fall among its calls.
THEOREM FewErrorsAreAbsorbed ==
  ASSUME \A e \in Transient : IsRetryable(e)
  PROVE  Spec => []TransientTolerated
<1>1. Init => Patience
  BY DEF Init, LogInit, Patience
<1>2. Shape /\ Patience /\ [Next]_vars => Patience'
  BY NextPatience
<1>3. Patience => TransientTolerated
  BY DEF Patience, TransientTolerated
<1>4. Shape /\ Stage => Shape
  OBVIOUS
<1> QED BY <1>1, <1>2, <1>3, <1>4, Invariance, PTL DEF Spec
=============================================================================
