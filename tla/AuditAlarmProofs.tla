-------------------------- MODULE AuditAlarmProofs --------------------------
(***************************************************************************)
(* Proofs about what the audit counts: where the rows come from, and that  *)
(* a second scan gives a deposit the key of its row.                       *)
(***************************************************************************)
EXTENDS AuditorProofs, FiniteSetTheorems

\* The numbers of a block are finite and fit the ranges of the scanners.
WellNumbered ==
  /\ IsFiniteSet(Items)
  /\ \A x \in Items : /\ x.kind = "tx" => x.tx \in Nat /\ x.tx < 99999
                      /\ x.kind = "log" => x.pos \in Nat

\* The calls to the accounts that were registered from the beginning.
FirstCalls(b) == {x \in Items : x.kind = "call" /\ x.block = b /\ x.to \in Registered}

\* Where a row comes from, and what is still known of it as long as no block changed.
Origin(r) ==
  /\ r.event.item.block = r.block
  /\ r.event.tx = <<r.event.item.block, r.event.item.tx>>
  /\ r.block <= cursor[Maker(r.event)]
  /\ Maker(r.event) = "log" =>
       /\ r.event.item.kind \in {"tx", "log"}
       /\ r.event = Event(r.event.item)
       /\ ~drift => r.event.item \in Due(Items, r.block, accounts)
  /\ Maker(r.event) = "trace" =>
       /\ r.event.logIndex \in Int /\ r.event.logIndex <= traceLogIndexBase
       /\ ~drift /\ accounts = Registered => r.event \in TraceEvents(FirstCalls(r.block))

\* Transactions are in a block as a whole.
WholeTx(S) == \A x \in S, y \in Items : y.block = x.block /\ y.tx = x.tx => y \in S

Books ==
  /\ \A r \in rows : Origin(r)
  /\ Registered \subseteq accounts
  /\ ~drift => chain = Items
  /\ WholeTx(chain)
  /\ scan # "idle" =>
       /\ WholeTx(hist.items) /\ {x \in chain : x.block = blk} \subseteq hist.items
       /\ \A e \in found : e.item \in hist.items /\ e.tx = <<e.item.block, e.item.tx>>
  /\ scan # "idle" /\ sc = "log" /\ ~drift =>
       \A r \in rows : r.block = blk /\ Maker(r.event) = "log" =>
         r.event.item \in Due(Items, blk, hist.accounts)
  /\ scan = "done" /\ sc = "trace" /\ ~drift /\ accounts = Registered =>
       found = TraceEvents(FirstCalls(blk))
  /\ NoFalseAlarm

\* The log indexes of the log scanner are above those of the trace scanner.
LEMMA LogIndexes ==
  ASSUME WellNumbered, NEW x \in Items, x.kind \in {"tx", "log"}
  PROVE  Event(x).logIndex \in Int /\ Event(x).logIndex > traceLogIndexBase
<1>1. CASE x.kind = "tx"
  <2>1. x.tx \in Nat /\ x.tx < 99999 /\ Event(x).logIndex = -1 - x.tx
    BY <1>1, SMT DEF WellNumbered, Event, NativeLogIndex
  <2> QED BY <2>1, SMT DEF traceLogIndexBase
<1>2. CASE x.kind = "log"
  <2>1. x.pos \in Nat /\ Event(x).logIndex = x.pos
    BY <1>2, SMT DEF WellNumbered, Event
  <2> QED BY <2>1, SMT DEF traceLogIndexBase
<1> QED BY <1>1, <1>2

\* Those of the trace scanner start at their base.
LEMMA TraceIndexes ==
  ASSUME WellNumbered, NEW S \in SUBSET Items, NEW e \in TraceEvents(S)
  PROVE  e.logIndex \in Int /\ e.logIndex <= traceLogIndexBase
<1> DEFINE B == {y \in S : Before(y, e.item)}
<1>1. IsFiniteSet(B)
  <2>1. IsFiniteSet(Items) /\ B \subseteq Items
    BY DEF WellNumbered
  <2> HIDE DEF B
  <2> QED BY <2>1, FS_Subset
<1>2. Cardinality(B) \in Nat
  <2> HIDE DEF B
  <2> QED BY <1>1, FS_CardinalityType
<1>3. e.logIndex = traceLogIndexBase - Cardinality(B)
  BY TraceItems
<1> HIDE DEF B
<1> QED BY <1>2, <1>3, SMT DEF traceLogIndexBase

\* The comparison counts no row while no block has changed, and every row of a deposit
\* that was gone.
LEMMA CompareBooks ==
  ASSUME WellNumbered, Shape, Stage, Books, Compare
  PROVE  /\ NoFalseAlarm'
         /\ \A e \in Pending(blk) :
              Maker(e) = sc /\ e.item \notin hist.items /\ ~Unowned(e.logIndex)
                => e \in missing'
<1> DEFINE rescanned == {depositKey(e) : e \in found}
<1>0. /\ audit = "pending" /\ scan = "done" /\ UNCHANGED <<sc, drift, accounts>>
      /\ missing' = {e \in Pending(blk) : depositKey(e) \notin rescanned /\ ownedBy(sc, e.logIndex)}
  BY SMT DEF Compare, Shape, world
<1>1. ASSUME NEW e \in Pending(blk)
      PROVE  \E r \in rows : r.event = e /\ r.block = blk /\ Origin(r) /\ e.item \in Items
  BY <1>1, SMT DEF Pending, Books, Shape, TypeOK
<1>2. ASSUME NEW e \in Pending(blk)
      PROVE  /\ Maker(e) \in Scanners /\ e.logIndex \in Int
             /\ Maker(e) = "log" => e.logIndex > traceLogIndexBase
             /\ Maker(e) = "trace" => e.logIndex <= traceLogIndexBase
  <2>1. PICK r \in rows : r.event = e /\ r.block = blk /\ Origin(r) /\ e.item \in Items
    BY <1>1, <1>2
  <2>2. Maker(e) \in Scanners
    BY SMT DEF Maker, Scanners
  <2>3. CASE Maker(e) = "log"
    <3>1. e = Event(e.item) /\ e.item.kind \in {"tx", "log"}
      BY <2>1, <2>3 DEF Origin
    <3>2. Event(e.item).logIndex \in Int /\ Event(e.item).logIndex > traceLogIndexBase
      BY <2>1, <3>1, LogIndexes
    <3>3. Maker(e) # "trace"
      BY <2>3
    <3>4. e.logIndex \in Int /\ e.logIndex > traceLogIndexBase
      BY <3>1, <3>2
    <3> QED BY <2>2, <3>3, <3>4
  <2>4. CASE Maker(e) = "trace"
    <3>1. e.logIndex \in Int /\ e.logIndex <= traceLogIndexBase
      BY <2>1, <2>4 DEF Origin
    <3>2. Maker(e) # "log"
      BY <2>4
    <3> QED BY <2>2, <3>1, <3>2
  <2> QED BY <2>2, <2>3, <2>4 DEF Scanners
<1>3. ASSUME NEW e \in missing', ~drift, sc = "log" PROVE FALSE
  <2>1. e \in Pending(blk) /\ depositKey(e) \notin rescanned /\ ownedBy("log", e.logIndex)
    BY <1>0, <1>3
  <2>2. Maker(e) = "log"
    <3>1. e.logIndex > traceLogIndexBase
      BY <1>2, <2>1, SMT DEF ownedBy, traceLogIndexBase
    <3>2. e.logIndex \in Int /\ (Maker(e) = "trace" => e.logIndex <= traceLogIndexBase)
      BY <1>2, <2>1
    <3>3. Maker(e) # "trace"
      BY <3>1, <3>2, SMT DEF traceLogIndexBase
    <3> QED BY <1>2, <2>1, <3>3 DEF Scanners
  <2>3. PICK r \in rows : r.event = e /\ r.block = blk /\ Origin(r) /\ e.item \in Items
    BY <1>1, <2>1
  <2>4. e.item \in Due(chain, blk, hist.accounts) /\ e = Event(e.item)
    BY <1>0, <1>3, <2>2, <2>3 DEF Books, Origin
  <2>5. e.item \in Got
    <3>1. e.item \in Owed("tx") \/ e.item \in Owed("log")
      BY <2>2, <2>3, <2>4 DEF Owed, Origin
    <3> QED BY <1>0, <1>3, <3>1 DEF Stage
  <2>6. PICK f \in found : f.item = e.item /\ f = Event(f.item)
    BY <1>0, <1>3, <2>5 DEF Got, Stage
  <2> QED BY <2>1, <2>4, <2>6
<1>4. ASSUME NEW e \in missing', ~drift, sc = "trace", accounts = Registered PROVE FALSE
  <2>1. e \in Pending(blk) /\ depositKey(e) \notin rescanned /\ ownedBy("trace", e.logIndex)
    BY <1>0, <1>4
  <2>2. Maker(e) = "trace"
    <3>1. e.logIndex <= traceLogIndexBase
      BY <2>1, SMT DEF ownedBy, traceLogIndexBase
    <3>2. e.logIndex \in Int /\ (Maker(e) = "log" => e.logIndex > traceLogIndexBase)
      BY <1>2, <2>1
    <3>3. Maker(e) # "log"
      BY <3>1, <3>2, SMT DEF traceLogIndexBase
    <3> QED BY <1>2, <2>1, <3>3 DEF Scanners
  <2>3. PICK r \in rows : r.event = e /\ r.block = blk /\ Origin(r) /\ e.item \in Items
    BY <1>1, <2>1
  <2>4. e \in found
    BY <1>0, <1>4, <2>2, <2>3 DEF Books, Origin
  <2> QED BY <2>1, <2>4
<1>5. ASSUME NEW e \in Pending(blk), Maker(e) = sc, e.item \notin hist.items,
             ~Unowned(e.logIndex)
      PROVE  e \in missing'
  <2>1. ownedBy(sc, e.logIndex)
    <3>1. CASE sc = "log"
      BY <1>2, <1>5, <3>1, SMT DEF ownedBy, traceLogIndexBase, Unowned
    <3>2. CASE sc = "trace"
      BY <1>2, <1>5, <3>2, SMT DEF ownedBy, traceLogIndexBase
    <3> QED BY <3>1, <3>2 DEF Shape, TypeOK, Scanners
  <2>2. ASSUME NEW f \in found, depositKey(f) = depositKey(e) PROVE FALSE
    <3>1. f.tx = e.tx
      BY <2>2 DEF depositKey
    <3>2. f.item \in hist.items /\ f.tx = <<f.item.block, f.item.tx>> /\ WholeTx(hist.items)
      BY <1>0 DEF Books
    <3>3. e.tx = <<e.item.block, e.item.tx>> /\ e.item \in Items
      BY <1>1, <1>5 DEF Origin
    <3>4. <<e.item.block, e.item.tx>> = <<f.item.block, f.item.tx>>
      BY <3>1, <3>2, <3>3, Zenon
    <3>5. e.item.block = f.item.block /\ e.item.tx = f.item.tx
      BY <3>4
    <3> QED BY <1>5, <3>2, <3>3, <3>5 DEF WholeTx
  <2> QED BY <1>0, <1>5, <2>1, <2>2
<1>6. NoFalseAlarm'
  BY <1>0, <1>3, <1>4 DEF NoFalseAlarm, Shape, TypeOK, Scanners
<1> QED BY <1>5, <1>6

\* A scan leaves the chain alone, and what is known of its beginning.
LEMMA ScanKeeps ==
  ASSUME Shape, ScanStep \/ ScanFault
  PROVE  /\ UNCHANGED <<world, blk>> /\ hist'.accounts = hist.accounts /\ hist'.items = hist.items
         /\ scan = "idle" => scan' = "idle"
<1>1. /\ UNCHANGED <<world, blk>> /\ (scan = "idle" => scan' = "idle")
      /\ \/ hist' = hist
         \/ hist' = [hist EXCEPT !.errs = hist.errs + 1]
         \/ hist' = [hist EXCEPT !.hard = TRUE]
  <2>1. CASE \/ BlockRead \/ MatchAccounts \/ SendersDone \/ LogsRead \/ MatchReceivers
             \/ HasManyFails \/ CallsFailed
    BY <2>1 DEF BlockRead, MatchAccounts, SendersDone, LogsRead, MatchReceivers, HasManyFails,
       CallsFailed, HardFault
  <2>2. CASE \E k \in DOMAIN try : \/ CallAnswers(k) \/ CallResumes(k) \/ CallGivesUp(k)
                                   \/ \E e \in Errors : CallFails(k, e)
    BY <2>2 DEF CallAnswers, CallResumes, CallGivesUp, CallFails
  <2> QED BY <2>1, <2>2 DEF ScanStep, ScanFault
<1>2. hist \in Hist
  BY DEF Shape, TypeOK, Hist
<1>3. CASE hist' = [hist EXCEPT !.errs = hist.errs + 1]
  BY <1>1, <1>2, <1>3, HistErr
<1>4. CASE hist' = [hist EXCEPT !.hard = TRUE]
  BY <1>1, <1>2, <1>4, HistHard
<1> QED BY <1>1, <1>3, <1>4

\* The origin of a row stays known: cursors and accounts grow, and a change of the
\* chain is remembered.
LEMMA OriginStays ==
  ASSUME NEW r, Origin(r), drift => drift', cursor[Maker(r.event)] <= cursor'[Maker(r.event)],
         r.block \in Int, cursor[Maker(r.event)] \in Int, cursor'[Maker(r.event)] \in Int,
         UNCHANGED chainType, accounts \subseteq accounts',
         Registered \subseteq accounts
  PROVE  Origin(r)'
<1>1. Maker(r.event)' = Maker(r.event) /\ Event(r.event.item)' = Event(r.event.item)
  BY DEF Maker, Event, NativeLogIndex
<1>2. Due(Items, r.block, accounts) \subseteq Due(Items, r.block, accounts)'
  BY DEF Due, DecoderTopic
<1>3. accounts' = Registered => accounts = Registered
  BY Zenon
<1>4. TraceEvents(FirstCalls(r.block))' = TraceEvents(FirstCalls(r.block))
  BY DEF TraceEvents, FirstCalls, Before
<1> HIDE DEF Due, Event, Maker, TraceEvents, FirstCalls
<1> QED BY <1>1, <1>2, <1>3, <1>4 DEF Origin

\* So it does for all rows while no cursor moves.
LEMMA OriginsStay ==
  ASSUME Shape, Books, UNCHANGED <<chainType, cursor>>, drift => drift', accounts \subseteq accounts'
  PROVE  \A r \in rows : Origin(r)'
<1> SUFFICES ASSUME NEW r \in rows PROVE Origin(r)'
  OBVIOUS
<1>1. Origin(r) /\ r.block \in Int /\ cursor[Maker(r.event)] \in Int
  BY DEF Books, Shape, TypeOK, Maker, Scanners
<1> QED BY <1>1, OriginStays DEF Books

\* Steps that add no row and find nothing.
LEMMA BesideBooks ==
  ASSUME Shape, Books, rows' \subseteq rows, drift => drift', UNCHANGED <<chainType, cursor>>,
         UNCHANGED sc \/ (scan' = "idle" /\ missing' = {}),
         chain' \subseteq chain, ~drift' => chain' = chain, WholeTx(chain'),
         accounts \subseteq accounts', missing' = {} \/ UNCHANGED missing,
         scan' # "idle" =>
           /\ scan # "idle" /\ UNCHANGED <<blk, found>> /\ (scan' = "done" => scan = "done")
           /\ hist'.accounts = hist.accounts /\ hist'.items = hist.items
  PROVE  Books'
<1>1. \A r \in rows' : Origin(r)'
  BY OriginsStay, Zenon
<1>3. Due(Items, blk, hist.accounts)' = {x \in Items : x.block = blk' /\ x.to \in hist'.accounts /\ Fits(x)}
      /\ Due(Items, blk, hist.accounts) = {x \in Items : x.block = blk /\ x.to \in hist.accounts /\ Fits(x)}
  BY DEF Due, DecoderTopic, Fits
<1>4. scan' # "idle" => /\ Due(Items, blk, hist.accounts)' = Due(Items, blk, hist.accounts)
                        /\ TraceEvents(FirstCalls(blk))' = TraceEvents(FirstCalls(blk))
  BY <1>3 DEF TraceEvents, FirstCalls, Before
<1>5. accounts' = Registered => accounts = Registered
  BY Zenon DEF Books
<1>6. \A r : Maker(r.event)' = Maker(r.event)
  BY Zenon DEF Maker
<1>7. NoFalseAlarm'
  BY <1>5 DEF NoFalseAlarm, Books
<1>8. WholeTx(hist.items)' <=> WholeTx(hist'.items)
  BY DEF WholeTx
<1>9. WholeTx(chain)'
  BY DEF WholeTx
<1> HIDE DEF Due, WholeTx, Origin, TraceEvents, FirstCalls, NoFalseAlarm
<1>10. scan' # "idle" =>
       /\ WholeTx(hist.items)' /\ {x \in chain' : x.block = blk'} \subseteq hist'.items
       /\ \A e \in found' : e.item \in hist'.items /\ e.tx = <<e.item.block, e.item.tx>>
  BY <1>8 DEF Books
<1>11. scan' # "idle" /\ sc' = "log" /\ ~drift' =>
       \A r \in rows' : r.block = blk' /\ Maker(r.event)' = "log" =>
         r.event.item \in Due(Items, blk, hist.accounts)'
  BY <1>4, <1>6, Zenon DEF Books
<1>12. scan' = "done" /\ sc' = "trace" /\ ~drift' /\ accounts' = Registered =>
       found' = TraceEvents(FirstCalls(blk))'
  BY <1>4, <1>5 DEF Books
<1>13. Registered \subseteq accounts' /\ (~drift' => chain' = Items)
  BY DEF Books
<1> QED BY <1>1, <1>7, <1>9, <1>10, <1>11, <1>12, <1>13, Zenon DEF Books

\* A loop saves a block: its rows have their origin, and none is of the block that
\* the audit scans.
LEMMA SavesBooks ==
  ASSUME WellNumbered, Shape, Books, LogLoopSaves \/ TraceLoopSaves
  PROVE  Books'
<1>0. /\ UNCHANGED <<world, scan, blk, found, hist, sc, missing>> /\ (drift => drift')
      /\ chain \subseteq Items /\ (~drift' => chain = Items)
      /\ cursor["log"] \in 0 .. MaxHead /\ cursor["trace"] \in 0 .. MaxHead
  BY DEF LogLoopSaves, TraceLoopSaves, logVars, world, Shape, TypeOK, Scanners, Books
<1>1. /\ \A c \in Scanners : cursor[c] \in Int /\ cursor'[c] \in Int /\ cursor[c] <= cursor'[c]
      /\ LogLoopSaves => cursor'["log"] = cursor["log"] + 1
      /\ ~LogLoopSaves => cursor'["trace"] = cursor["trace"] + 1
  BY AuditorAssumption DEF LogLoopSaves, TraceLoopSaves, Shape, TypeOK, Scanners
<1>2. ASSUME NEW r \in rows PROVE Origin(r)'
  <2>1. Origin(r) /\ r.block \in Int /\ Maker(r.event) \in Scanners /\ Registered \subseteq accounts
    BY DEF Books, Shape, TypeOK, Maker, Scanners
  <2> QED BY <1>0, <1>1, <2>1, OriginStays DEF world
<1>3. ASSUME NEW r \in rows' \ rows
      PROVE  Origin(r)' /\ (Maker(r.event) = "log" => r.block = cursor["log"] + 1)
  <2>1. CASE LogLoopSaves
    <3> DEFINE b == cursor["log"] + 1
    <3>1. PICK x \in Due(chain, b, accounts) : r = [event |-> Event(x), block |-> b]
      BY <1>3, <2>1 DEF LogLoopSaves
    <3>2. x \in chain /\ x.block = b /\ x.kind \in {"tx", "log"}
      BY DEF Due
    <3>3. /\ r.event = Event(x) /\ r.event.item = x /\ r.event.tx = <<x.block, x.tx>>
          /\ r.block = b /\ b <= cursor'["log"]
      BY <1>0, <1>1, <2>1, <3>1 DEF Event
    <3>4. Maker(r.event)' = "log" /\ Event(x)' = Event(x)
      BY <3>2, <3>3 DEF Maker, Event, NativeLogIndex
    <3>5. ~drift' => x \in Due(Items, r.block, accounts)'
      BY <1>0, <3>1, <3>3 DEF Due, DecoderTopic, world
    <3> HIDE DEF b, Due, Event
    <3>7. Origin(r)'
      BY <3>2, <3>3, <3>4, <3>5, Zenon DEF Origin
    <3> QED BY <3>3, <3>7 DEF b
  <2>2. CASE TraceLoopSaves /\ ~LogLoopSaves
    <3> DEFINE b == cursor["trace"] + 1
    <3>1. PICK S \in SUBSET Calls(b) :
            /\ S = Calls(b) \/ drift' = TRUE
            /\ rows' = rows \cup {[event |-> e, block |-> b] : e \in TraceEvents(S)}
      BY <2>2, Zenon DEF TraceLoopSaves
    <3>2. PICK e \in TraceEvents(S) : r = [event |-> e, block |-> b]
      BY <1>3, <3>1, Zenon
    <3>3. Maker(e) = "trace" /\ Origin(r)'
      <4>1. e.item \in S /\ e.tx = <<e.item.block, e.item.tx>>
        BY TraceItems, Zenon
      <4>2. S \subseteq Items /\ e.item.block = b /\ e.item.kind = "call"
        BY <1>0, <4>1 DEF Calls, Of
      <4>3. e.logIndex \in Int /\ e.logIndex <= traceLogIndexBase
        BY <4>2, TraceIndexes
      <4>4. Maker(e) = "trace" /\ Maker(r.event)' = "trace"
        BY <3>2, <4>2 DEF Maker
      <4>5. ~drift' /\ accounts' = Registered => S = FirstCalls(b)
        BY <1>0, <3>1 DEF Calls, Of, FirstCalls, world
      <4>6. TraceEvents(FirstCalls(b)) = TraceEvents(FirstCalls(r.block))'
        BY <3>2 DEF TraceEvents, FirstCalls, Before
      <4>7. r.event = e /\ r.block = b /\ b \in Int /\ b <= cursor'["trace"]
        BY <1>0, <1>1, <2>2, <3>2
      <4> HIDE DEF b
      <4> QED BY <4>1, <4>2, <4>3, <4>4, <4>5, <4>6, <4>7 DEF Origin
    <3> QED BY <3>2, <3>3
  <2> QED BY <2>1, <2>2
<1>4. ASSUME scan # "idle", sc = "log" PROVE blk # cursor["log"] + 1
  <2>1. blk \in 0 .. (cursor["log"] - SafetyMargin)
    BY <1>4, Zenon DEF Shape
  <2> QED BY <1>0, <2>1, AuditorAssumption
<1>5. /\ Due(Items, blk, hist.accounts)' = Due(Items, blk, hist.accounts)
      /\ TraceEvents(FirstCalls(blk))' = TraceEvents(FirstCalls(blk))
      /\ \A r : Maker(r.event)' = Maker(r.event)
      /\ WholeTx(hist.items)' = WholeTx(hist.items) /\ WholeTx(chain)' = WholeTx(chain)
      /\ NoFalseAlarm'
  <2>1. Due(Items, blk, hist.accounts)' = Due(Items, blk, hist.accounts)
    BY <1>0 DEF Due, DecoderTopic, world
  <2>2. TraceEvents(FirstCalls(blk))' = TraceEvents(FirstCalls(blk))
    BY <1>0 DEF TraceEvents, FirstCalls, Before
  <2>3. WholeTx(hist.items)' = WholeTx(hist.items) /\ WholeTx(chain)' = WholeTx(chain)
    BY <1>0 DEF WholeTx, world
  <2>4. NoFalseAlarm'
    BY <1>0 DEF NoFalseAlarm, Books, world
  <2>5. \A r : Maker(r.event)' = Maker(r.event)
    BY DEF Maker
  <2> QED BY <2>1, <2>2, <2>3, <2>4, <2>5
<1>6. \A r \in rows' : Origin(r)'
  BY <1>2, <1>3
<1> HIDE DEF Due, WholeTx, Origin, TraceEvents, FirstCalls, NoFalseAlarm, Maker
<1>7. scan # "idle" /\ sc = "log" /\ ~drift' =>
       \A r \in rows' : r.block = blk /\ Maker(r.event) = "log" =>
         r.event.item \in Due(Items, blk, hist.accounts)
  BY <1>0, <1>3, <1>4, Zenon DEF Books
<1> QED BY <1>0, <1>5, <1>6, <1>7, Zenon DEF Books, world

\* One step of the audit, of a scan or of the rest of the system.
LEMMA NextBooks ==
  ASSUME WellNumbered, Shape, Stage, Stage', Books, [Next]_vars
  PROVE  Books'
<1>0. WholeTx(chain)
  BY DEF Books
<1> HIDE DEF WholeTx
<1>1. CASE UNCHANGED <<logVars, sc, rows, cursor, drift>> /\ (missing' = {} \/ UNCHANGED missing)
  BY <1>0, <1>1, BesideBooks DEF logVars
<1>2. CASE Tick \/ OpenChain \/ Stop \/ Rescanned
  BY <1>1, <1>2 DEF Tick, OpenChain, Stop, Rescanned
<1>3. CASE OpenFails \/ Restart \/ ReadCursor \/ CursorFails \/ SamplesDone
  <2>1. scan = "idle" /\ UNCHANGED <<scan, world, rows, cursor, drift>>
    BY <1>3, Zenon DEF OpenFails, Restart, ReadCursor, CursorFails, SamplesDone, Shape, logVars, world
  <2>2. UNCHANGED <<sc, missing>> \/ missing' = {}
    BY <1>3 DEF OpenFails, Restart, ReadCursor, CursorFails, SamplesDone, NextScanner
  <2> QED BY <1>0, <2>1, <2>2, BesideBooks, Zenon DEF world
<1>4. ASSUME NEW b \in range, Sample(b) PROVE Books'
  <2>1. CASE b \in tried
    BY <1>1, <1>4, <2>1 DEF Sample
  <2>2. CASE b \notin tried
    <3>1. /\ UNCHANGED <<world, sc, rows, cursor, drift>> /\ missing' = {} /\ found' = {}
          /\ scan' = "block" /\ blk' = b
          /\ hist' = [accounts |-> accounts, items |-> {x \in chain : x.block = b},
                      errs |-> 0, hard |-> FALSE]
      BY <1>4, <2>2, Zenon DEF Sample, CallScan
    <3>2. hist'.accounts = accounts /\ hist'.items = {x \in chain : x.block = b}
      BY <3>1
    <3>3. WholeTx(hist.items)'
      BY <1>0, <3>2 DEF WholeTx
    <3>4. \A r \in rows : Origin(r) /\ Origin(r)'
      BY <3>1, OriginsStay, Zenon DEF Books, world
    <3>5. ~drift => \A r \in rows : r.block = b /\ Maker(r.event) = "log" =>
                      r.event.item \in Due(Items, b, accounts)
      BY <3>4, Zenon DEF Origin
    <3>6. Due(Items, blk, hist.accounts)' = Due(Items, b, accounts)
      BY <3>1, <3>2 DEF Due, DecoderTopic, world
    <3>7. WholeTx(chain)' /\ NoFalseAlarm' /\ \A r : Maker(r.event)' = Maker(r.event)
      BY <1>0, <3>1 DEF WholeTx, NoFalseAlarm, Maker, world
    <3> HIDE DEF Due, Origin, NoFalseAlarm, Maker
    <3> QED BY <3>1, <3>2, <3>3, <3>4, <3>5, <3>6, <3>7, Zenon DEF Books, world
  <2> QED BY <2>1, <2>2
<1>5. CASE sc = "log" /\ (ScanStep \/ ScanFault) /\ UNCHANGED auditVars
  <2>1. /\ UNCHANGED <<world, blk, sc, rows, cursor, drift, missing>>
        /\ hist'.accounts = hist.accounts /\ hist'.items = hist.items
        /\ scan = "idle" => scan' = "idle"
    BY <1>5, ScanKeeps, Zenon DEF auditVars
  <2>2. scan' # "idle" => \A e \in found' : e.item \in hist'.items /\ e.tx = <<e.item.block, e.item.tx>>
    <3>1. scan' # "idle" => Got' \subseteq hist'.items /\ \A e \in found' : e = Event(e.item)'
      BY <1>5, <2>1, Zenon DEF Stage, Due
    <3>2. \A e : Event(e.item)'.tx = <<e.item.block, e.item.tx>>
      BY DEF Event
    <3> QED BY <3>1, <3>2, Zenon DEF Got
  <2>3. \A r \in rows : Origin(r)'
    BY <2>1, OriginsStay DEF world
  <2>4. /\ Due(Items, blk, hist.accounts)' = Due(Items, blk, hist.accounts)
        /\ WholeTx(hist.items)' = WholeTx(hist.items) /\ WholeTx(chain)' = WholeTx(chain)
        /\ NoFalseAlarm' /\ \A r : Maker(r.event)' = Maker(r.event)
    BY <2>1, Zenon DEF Due, DecoderTopic, WholeTx, NoFalseAlarm, Maker, Books, world
  <2> HIDE DEF Due, Origin, NoFalseAlarm, Maker
  <2> QED BY <1>5, <2>1, <2>2, <2>3, <2>4, Zenon DEF Books, world
<1>6. ASSUME NEW S \in SUBSET Calls(blk), TraceRescan(S) PROVE Books'
  <2>1. /\ UNCHANGED <<world, blk, hist, sc, rows, cursor, missing>> /\ sc = "trace" /\ scan # "idle"
        /\ found' = TraceEvents(S) /\ scan' = "done" /\ (drift => drift') /\ (S = Calls(blk) \/ drift')
    BY <1>6 DEF TraceRescan
  <2>2. \A e \in found' : e.item \in hist.items /\ e.tx = <<e.item.block, e.item.tx>>
    <3>1. S \subseteq hist.items
      BY <2>1, Zenon DEF Calls, Of, Books
    <3> QED BY <2>1, <3>1, TraceItems, Zenon
  <2>3. ~drift' /\ accounts' = Registered => found' = TraceEvents(FirstCalls(blk))'
    <3>1. ~drift' /\ accounts' = Registered => S = FirstCalls(blk)
      BY <2>1, Zenon DEF Calls, Of, FirstCalls, Books, world
    <3>2. TraceEvents(FirstCalls(blk))' = TraceEvents(FirstCalls(blk))
      BY <2>1 DEF TraceEvents, FirstCalls, Before
    <3> QED BY <2>1, <3>1, <3>2
  <2>4. \A r \in rows : Origin(r)'
    BY <2>1, OriginsStay DEF world
  <2>5. /\ WholeTx(hist.items)' = WholeTx(hist.items) /\ WholeTx(chain)' = WholeTx(chain)
        /\ NoFalseAlarm'
    BY <2>1, Zenon DEF WholeTx, NoFalseAlarm, Books, world
  <2> HIDE DEF Origin, NoFalseAlarm, TraceEvents, FirstCalls
  <2> QED BY <2>1, <2>2, <2>3, <2>4, <2>5, Zenon DEF Books, world
<1>7. CASE TraceRescanFails
  <2>1. hist'.accounts = hist.accounts /\ hist'.items = hist.items
    BY <1>7, HistHard DEF TraceRescanFails, HardFault, Shape, TypeOK, Hist
  <2> QED BY <1>0, <1>7, <2>1, BesideBooks DEF TraceRescanFails, auditVars, world
<1>8. CASE RescanFailed \/ PendingFails
  <2>1. scan' = "idle" /\ UNCHANGED <<world, sc, rows, cursor, drift, missing>>
    BY <1>8 DEF RescanFailed, PendingFails, EndCall
  <2> QED BY <1>0, <2>1, BesideBooks DEF world
<1>9. CASE Compare
  <2>1. scan' = "idle" /\ UNCHANGED <<world, sc, rows, cursor, drift>>
    BY <1>9 DEF Compare, EndCall
  <2>2. NoFalseAlarm'
    BY <1>9, CompareBooks
  <2>3. \A r \in rows : Origin(r)'
    BY <2>1, OriginsStay DEF world
  <2>4. WholeTx(chain)'
    BY <1>0, <2>1 DEF WholeTx, world
  <2> HIDE DEF Origin, NoFalseAlarm
  <2> QED BY <2>1, <2>2, <2>3, <2>4, Zenon DEF Books, world
<1>10. CASE Cancel
  <2>1. hist'.accounts = hist.accounts /\ hist'.items = hist.items
    BY <1>10, HistHard DEF Cancel, Shape, TypeOK, Hist
  <2> QED BY <1>0, <1>10, <2>1, BesideBooks DEF Cancel, auditVars, world
<1>11. CASE LogLoopSaves \/ TraceLoopSaves
  BY <1>11, SavesBooks
<1>12. CASE \E r \in rows : Delete(r)
  BY <1>0, <1>12, BesideBooks DEF Delete, logVars
<1>13. CASE \E a \in Accounts : Register(a)
  BY <1>0, <1>13, BesideBooks DEF Register, auditVars
<1>14. ASSUME NEW x \in chain, DeepReorg(x) PROVE Books'
  <2>1. WholeTx(chain')
    BY <1>0, <1>14 DEF DeepReorg, WholeTx
  <2> QED BY <1>14, <2>1, BesideBooks DEF DeepReorg
<1>15. CASE UNCHANGED vars
  BY <1>1, <1>15 DEF vars, auditVars
<1> QED BY <1>2, <1>3, <1>4, <1>5, <1>6, <1>7, <1>8, <1>9, <1>10, <1>11, <1>12, <1>13, <1>14, <1>15
        DEF Next, CycleStep, Others

\* The fourth invariant, for chains whose numbers fit.
LEMMA BooksInvariance ==
  ASSUME WellNumbered
  PROVE  Spec => []Books
<1>1. Init => Books
  BY LogScanAssumption DEF Init, LogInit, Books, WholeTx, NoFalseAlarm
<1>2. Shape /\ Stage /\ Stage' /\ Books /\ [Next]_vars => Books'
  BY NextBooks
<1> QED BY <1>1, <1>2, Invariance, PTL DEF Spec

\* auditor.go:257-278: as long as no confirmed block changes and the trace scans are
\* complete, the audit counts nothing, with the exception stated at NoFalseAlarm.
THEOREM AlarmIsReal ==
  ASSUME WellNumbered
  PROVE  Spec => []NoFalseAlarm
<1>1. Books => NoFalseAlarm
  BY DEF Books
<1> QED BY <1>1, BooksInvariance, PTL

\* auditor.go:6: the audit counts every pending row whose deposit left the chain before
\* the second scan of its block, if its log index is one that ownedBy knows.
THEOREM DriftIsCounted ==
  ASSUME WellNumbered
  PROVE  Spec => DriftCounted
<1>1. Shape /\ Stage /\ Books /\ [Next]_vars =>
        [ audit = "pending" /\ Compare =>
            \A e \in Pending(blk) :
              Maker(e) = sc /\ e.item \notin hist.items /\ ~Unowned(e.logIndex)
                => e \in missing' ]_vars
  BY CompareBooks
<1> QED BY <1>1, Invariance, BooksInvariance, PTL DEF Spec, DriftCounted
=============================================================================
