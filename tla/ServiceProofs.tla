--------------------------- MODULE ServiceProofs ---------------------------
(***************************************************************************)
(* Proofs about three parts of the process that work beside each other:    *)
(* the Supervisor, for every set of chains, every number of configuration  *)
(* changes, mishaps and runners alive at once; the WakeUp of the           *)
(* publisher, for every set of rows, batch size and number of lost         *)
(* connections; and the publisher's default mode, FireAndForget, for every *)
(* set of deposits, every MaxBatchSize and every pattern of faults.        *)
(***************************************************************************)
EXTENDS Supervisor, WakeUp, FireAndForget, WellFoundedInduction, TLAPS

-----------------------------------------------------------------------------
(* Supervisor                                                              *)

\* The runner that is not cancelled is the registered one; a closed done channel
\* means that both loops have returned; and while startChain is called for a
\* chain, the chain has no registered runner.
SupInv ==
  /\ SupTypeOK
  /\ \A r \in Runner : Live(r) => runner[r].chain \in Chain /\ running[runner[r].chain] = r
  /\ \A r \in Runner : runner[r].done => runner[r].live = {}
  /\ phase = "start" => cur \in Chain /\ running[cur] = None

\* The same runner with one field assigned is a record of the same type.
LEMMA RecordUpdate ==
  ASSUME NEW x \in Record, NEW S \in SUBSET Loop
  PROVE  /\ [x EXCEPT !.cancelled = TRUE] \in Record
         /\ [x EXCEPT !.done = TRUE] \in Record
         /\ [x EXCEPT !.live = S, !.cancelled = TRUE] \in Record
         /\ [x EXCEPT !.cancelled = TRUE].cancelled
         /\ [x EXCEPT !.live = S, !.cancelled = TRUE].cancelled
         /\ [x EXCEPT !.cancelled = TRUE].live = x.live
         /\ [x EXCEPT !.cancelled = TRUE].done = x.done
         /\ [x EXCEPT !.cancelled = TRUE].chain = x.chain
         /\ [x EXCEPT !.live = S, !.cancelled = TRUE].live = S
         /\ [x EXCEPT !.live = S, !.cancelled = TRUE].done = x.done
         /\ [x EXCEPT !.live = S, !.cancelled = TRUE].chain = x.chain
         /\ [x EXCEPT !.done = TRUE].live = x.live
         /\ [x EXCEPT !.done = TRUE].chain = x.chain
         /\ [x EXCEPT !.done = TRUE].cancelled = x.cancelled
BY DEF Record

\* Cancelling a set of runners leaves the others as they are.
LEMMA CancelRecords ==
  ASSUME SupTypeOK, NEW R
  PROVE  /\ Cancel(R) \in [Runner -> Record]
         /\ \A r \in Runner :
              /\ IF r \in R THEN Cancel(R)[r].cancelled ELSE Cancel(R)[r] = runner[r]
              /\ Cancel(R)[r].live = runner[r].live /\ Cancel(R)[r].done = runner[r].done
              /\ Cancel(R)[r].chain = runner[r].chain
BY RecordUpdate DEF Cancel, SupTypeOK

\* In the initial state no runner exists.
LEMMA SupBegins == SupInit => SupInv
<1> SUFFICES ASSUME SupInit PROVE SupInv
  OBVIOUS
<1>1. Unused \in Record /\ Unused.live = {}
  BY DEF Unused, Record, Loop
<1>2. ready \in BOOLEAN /\ runDone \in BOOLEAN
  BY DEF SupInit
<1>3. SupTypeOK
  BY <1>1, <1>2 DEF SupInit, SupTypeOK, SupPC
<1> QED BY <1>1, <1>3 DEF SupInit, SupInv, Live

\* A step that only cancels runners, and unregisters cancelled or dead ones,
\* keeps the invariant.
LEMMA SupStep == SupInv /\ [SupNext]_supVars => SupInv'
<1> SUFFICES ASSUME SupInv, [SupNext]_supVars PROVE SupInv'
  OBVIOUS
<1> USE SupervisorAssumption
<1>0. SupTypeOK
  BY DEF SupInv
<1>1. CASE UNCHANGED supVars
  BY <1>1 DEF supVars, tables, sup, SupInv, SupTypeOK, Live
<1>2. ASSUME NEW c \in Chain, Toggle(c) PROVE SupInv'
  <2>1. active' \in [Chain -> BOOLEAN]
    BY <1>2 DEF Toggle, SupInv, SupTypeOK
  <2> QED BY <1>2, <2>1 DEF Toggle, sup, SupInv, SupTypeOK, Live
<1>3. ASSUME NEW c \in Chain, NEW t \in Token, Edit(c, t) PROVE SupInv'
  BY <1>3 DEF Edit, sup, SupInv, SupTypeOK, Live
<1>4. CASE CancelRun
  <2>1. runDone' \in BOOLEAN
    BY <1>4 DEF CancelRun
  <2> QED BY <1>4, <2>1 DEF CancelRun, Mishap, tables, sup, SupInv, SupTypeOK, Live
<1>5. CASE ReadActive
  <2>1. ready' \in BOOLEAN
    BY <1>5 DEF ReadActive, MarkReady
  <2>2. infos' \in [Chain -> Token \cup {None}]
    BY <1>5 DEF ReadActive, ActiveChains, SupInv, SupTypeOK
  <2> QED BY <1>5, <2>1, <2>2 DEF ReadActive, tables, SupPC, SupInv, SupTypeOK, Live
<1>6. CASE StopInactive
  <2> DEFINE R == {running[c] : c \in Inactive}
  <2>1. /\ runner' \in [Runner -> Record]
        /\ \A r \in Runner :
             /\ IF r \in R THEN runner'[r].cancelled ELSE runner'[r] = runner[r]
             /\ runner'[r].live = runner[r].live /\ runner'[r].done = runner[r].done
    BY <1>0, <1>6, CancelRecords DEF StopInactive
  <2>2. SupTypeOK'
    BY <1>6, <2>1 DEF StopInactive, tables, SupPC, SupInv, SupTypeOK
  <2>3. ASSUME NEW r \in Runner, Live(r)'
        PROVE  runner'[r].chain \in Chain /\ running'[runner'[r].chain] = r
    <3>1. r \notin R /\ runner'[r] = runner[r] /\ Live(r)
      BY <2>1, <2>3 DEF Live
    <3>2. runner[r].chain \in Chain /\ running[runner[r].chain] = r
      BY <3>1 DEF SupInv
    <3>3. runner[r].chain \notin Inactive
      BY <3>1, <3>2
    <3> QED BY <1>6, <3>1, <3>2, <3>3 DEF StopInactive
  <2> QED BY <1>6, <2>1, <2>2, <2>3 DEF StopInactive, SupInv
<1>7. ASSUME NEW c \in Chain, Keep(c) PROVE SupInv'
  BY <1>7 DEF Keep, tables, SupInv, SupTypeOK, Live
<1>8. ASSUME NEW c \in Chain, StartNew(c) \/ Reloaded(c) PROVE SupInv'
  <2>1. running' = [running EXCEPT ![c] = None] /\ runner' = runner
        /\ phase' = "start" /\ cur' = c
    BY <1>8 DEF StartNew, Reloaded
  <2>2. SupTypeOK'
    BY <1>8, <2>1 DEF StartNew, Reloaded, tables, SupPC, SupInv, SupTypeOK
  <2>3. running[c] \in Runner => ~Live(running[c])
    BY <1>8 DEF StartNew, Reloaded, Dead, Live, SupInv, SupTypeOK
  <2> QED BY <2>1, <2>2, <2>3 DEF SupInv, SupTypeOK, Live
<1>9. ASSUME NEW c \in Chain, Reload(c) PROVE SupInv'
  <2>1. /\ runner' \in [Runner -> Record]
        /\ \A r \in Runner :
             /\ IF r = running[c] THEN runner'[r].cancelled ELSE runner'[r] = runner[r]
             /\ runner'[r].live = runner[r].live /\ runner'[r].done = runner[r].done
    BY <1>0, <1>9, CancelRecords DEF Reload
  <2>2. SupTypeOK'
    BY <1>9, <2>1 DEF Reload, tables, SupPC, SupInv, SupTypeOK
  <2>3. running' = running /\ phase' = "wait"
    BY <1>9 DEF Reload
  <2>4. ASSUME NEW r \in Runner, Live(r)'
        PROVE  runner'[r].chain \in Chain /\ running'[runner'[r].chain] = r
    <3>1. runner'[r] = runner[r] /\ Live(r)
      BY <2>1, <2>4 DEF Live
    <3> QED BY <2>3, <3>1 DEF SupInv
  <2>5. ASSUME NEW r \in Runner, runner'[r].done PROVE runner'[r].live = {}
    BY <2>1, <2>5 DEF SupInv
  <2> QED BY <2>2, <2>3, <2>4, <2>5 DEF SupInv
<1>10. ASSUME NEW c \in Chain, NEW r \in Runner, StartChain(c, r) PROVE SupInv'
  <2>1. NewRunner(c) \in Record /\ ~NewRunner(c).done /\ NewRunner(c).chain = c
    BY <1>0 DEF NewRunner, ChainConfig, Record, SupTypeOK
  <2>2. /\ runner' = [runner EXCEPT ![r] = NewRunner(c)]
        /\ running' = [running EXCEPT ![c] = r] /\ phase' = "diff"
        /\ running[c] = None
    BY <1>10 DEF StartChain, SupInv
  <2> HIDE DEF NewRunner
  <2>3. SupTypeOK'
    BY <1>10, <2>1, <2>2 DEF StartChain, tables, SupPC, SupInv, SupTypeOK
  <2>4. \A q \in Runner : runner'[q] = IF q = r THEN NewRunner(c) ELSE runner[q]
    BY <1>0, <2>2 DEF SupTypeOK
  <2>5. \A d \in Chain : running'[d] = IF d = c THEN r ELSE running[d]
    BY <1>0, <2>2 DEF SupTypeOK
  <2>6. ASSUME NEW q \in Runner, Live(q)'
        PROVE  runner'[q].chain \in Chain /\ running'[runner'[q].chain] = q
    <3>1. CASE q = r
      BY <2>1, <2>4, <2>5, <3>1
    <3>2. CASE q # r
      <4>1. Live(q) /\ runner'[q].chain = runner[q].chain
        BY <2>4, <2>6, <3>2 DEF Live
      <4> QED BY <2>2, <2>5, <4>1 DEF SupInv
    <3> QED BY <3>1, <3>2
  <2> QED BY <2>1, <2>2, <2>3, <2>4, <2>6 DEF SupInv
<1>11. ASSUME NEW c \in Chain, StartFails(c) PROVE SupInv'
  BY <1>11 DEF StartFails, Mishap, tables, SupPC, SupInv, SupTypeOK, Live
<1>12. CASE EndReconcile
  BY <1>12 DEF EndReconcile, tables, SupPC, SupInv, SupTypeOK, Live
<1>13. ASSUME NEW r \in Runner, NEW s \in Loop, LoopReturns(r, s) PROVE SupInv'
  <2> DEFINE S == runner[r].live \ {s}
  <2>1. runner[r] \in Record /\ S \in SUBSET Loop
    BY <1>0 DEF SupTypeOK, Record
  <2> DEFINE x == [runner[r] EXCEPT !.live = S, !.cancelled = TRUE]
  <2>2. /\ runner' = [runner EXCEPT ![r] = x]
        /\ x \in Record /\ x.cancelled /\ x.live = S /\ x.done = runner[r].done
    BY <1>13, <2>1, RecordUpdate, ZenonT(30) DEF LoopReturns
  <2> HIDE DEF x
  <2>3. /\ runner' \in [Runner -> Record]
        /\ runner'[r].cancelled /\ runner'[r].live \subseteq runner[r].live
        /\ runner'[r].done = runner[r].done
        /\ \A q \in Runner \ {r} : runner'[q] = runner[q]
    BY <1>0, <2>2 DEF SupTypeOK
  <2>4. mishaps' \in Nat
    BY <1>0, <1>13 DEF LoopReturns, Mishap, SupTypeOK
  <2> QED BY <1>13, <2>3, <2>4 DEF LoopReturns, tables, sup, SupInv, SupTypeOK, Live
<1>14. ASSUME NEW r \in Runner, CloseDone(r) PROVE SupInv'
  <2>1. runner[r] \in Record
    BY <1>0 DEF SupTypeOK
  <2> DEFINE x == [runner[r] EXCEPT !.done = TRUE]
  <2>2. runner' = [runner EXCEPT ![r] = x] /\ x \in Record /\ x.live = {}
    BY <1>14, <2>1, RecordUpdate DEF CloseDone
  <2> HIDE DEF x
  <2>3. /\ runner' \in [Runner -> Record]
        /\ runner'[r].live = {}
        /\ \A q \in Runner \ {r} : runner'[q] = runner[q]
    BY <1>0, <2>2 DEF SupTypeOK
  <2> QED BY <1>14, <2>3 DEF CloseDone, tables, sup, SupInv, SupTypeOK, Live
<1>15. CASE StopAll
  <2>1. /\ runner' \in [Runner -> Record]
        /\ \A r \in Runner :
             /\ IF r \in Registered THEN runner'[r].cancelled ELSE runner'[r] = runner[r]
             /\ runner'[r].live = runner[r].live /\ runner'[r].done = runner[r].done
    BY <1>0, <1>15, CancelRecords DEF StopAll
  <2>2. SupTypeOK'
    BY <1>15, <2>1 DEF StopAll, Registered, tables, SupPC, SupInv, SupTypeOK
  <2>3. \A r \in Runner : ~Live(r)'
    BY <2>1 DEF Live, SupInv, Registered
  <2> QED BY <1>15, <2>1, <2>2, <2>3 DEF StopAll, SupInv
<1>16. CASE StopAllDone
  BY <1>16 DEF StopAllDone, tables, SupPC, SupInv, SupTypeOK, Live
<1>17. CASE Over
  BY <1>1, <1>17 DEF Over
<1> QED
  BY <1>1, <1>2, <1>3, <1>4, <1>5, <1>6, <1>7, <1>8, <1>9, <1>10, <1>11, <1>12, <1>13,
     <1>14, <1>15, <1>16, <1>17 DEF SupNext, Reconcile
-----------------------------------------------------------------------------
\* The strengthened invariant of reconcile.
THEOREM SupInvariance == SupSpec => []SupInv
BY SupBegins, SupStep, PTL DEF SupSpec

\* Type correctness of the supervisor's state.
THEOREM SupTypeCorrect == SupSpec => []SupTypeOK
<1>1. SupInv => SupTypeOK
  BY DEF SupInv
<1> QED BY <1>1, SupInvariance, PTL

\* However the tables are edited and the loops die while reconcile runs, a chain
\* never has two pairs of loops with an uncancelled context.
THEOREM OneLivePair == SupSpec => []AtMostOneLive
<1>1. SupInv => AtMostOneLive
  BY DEF SupInv, AtMostOneLive
<1> QED BY <1>1, SupInvariance, PTL
-----------------------------------------------------------------------------
(* Chains that nobody has switched off or on.                              *)

\* Where a runner with a loop that has not returned is found: registered for its chain,
\* or among those that stopAll waits for.
Accounted(r) ==
  runner[r].live # {} =>
    /\ runner[r].chain \in Chain
    /\ phase # "exited"
    /\ IF phase = "stopall" THEN r \in stopping ELSE running[runner[r].chain] = r

\* Until a chain is toggled, only active chains are registered, none is found inactive,
\* and no pair of loops is forgotten.
OverlapInv ==
  toggles = 0 =>
    /\ \A r \in Runner : Accounted(r)
    /\ \A c \in Chain : running[c] # None => active[c]
    /\ phase = "stop" => \A c \in Chain : active[c] => infos[c] # None
    /\ NoOverlap

\* A step after which the loops that have not returned are still where they were.
LEMMA SameLoops ==
  ASSUME OverlapInv, toggles' = 0, toggles = 0,
         \A r \in Runner : runner'[r].live \subseteq runner[r].live
                            /\ runner'[r].chain = runner[r].chain
  PROVE  /\ NoOverlap'
         /\ phase # "stopall" /\ phase' \notin {"stopall", "exited"} /\ running' = running
              => \A r \in Runner : Accounted(r)'
         /\ phase' = phase /\ running' = running /\ stopping' = stopping
              => \A r \in Runner : Accounted(r)'
BY DEF OverlapInv, NoOverlap, Accounted

\* Every action keeps the pairs of an untouched chain accounted for.
LEMMA OverlapStep == SupInv /\ OverlapInv /\ [SupNext]_supVars => OverlapInv'
<1> SUFFICES ASSUME SupInv, OverlapInv, [SupNext]_supVars, toggles' = 0 PROVE OverlapInv'
  BY DEF OverlapInv
<1> USE SupervisorAssumption
<1>0. /\ SupTypeOK
      /\ \A r \in Runner : runner[r].done => runner[r].live = {}
      /\ phase = "start" => cur \in Chain /\ running[cur] = None
  BY DEF SupInv
<1>1. ASSUME NEW c \in Chain, Toggle(c) PROVE FALSE
  BY <1>0, <1>1 DEF Toggle, SupTypeOK
<1>2. toggles = 0
  BY <1>1 DEF SupNext, Reconcile, Edit, CancelRun, ReadActive, StopInactive, EndReconcile, StopAll,
     StopAllDone, Keep, StartNew, Reload, Reloaded, StartFails, StartChain, Over, CloseDone,
     LoopReturns, supVars, tables
<1>3. CASE UNCHANGED <<active, running, runner, phase, infos, stopping>>
  BY <1>2, <1>3, SameLoops DEF OverlapInv
<1>4. CASE ReadActive
  <2>1. UNCHANGED <<active, running, runner>> /\ phase = "idle" /\ phase' = "stop"
    BY <1>4 DEF ReadActive, tables
  <2>2. \A c \in Chain : active[c] => infos'[c] # None
    BY <1>0, <1>4 DEF ReadActive, ActiveChains, SupTypeOK
  <2> QED BY <1>2, <2>1, <2>2, SameLoops DEF OverlapInv
<1>5. CASE StopInactive
  <2>1. \A r \in Runner : runner'[r].live = runner[r].live /\ runner'[r].chain = runner[r].chain
    BY <1>0, <1>5, CancelRecords DEF StopInactive
  <2>2. \A c \in Chain : c \in Inactive => running[c] = None
    BY <1>2, <1>5 DEF StopInactive, Inactive, OverlapInv
  <2>3. running' = running
    BY <1>0, <1>5, <2>2 DEF StopInactive, SupTypeOK
  <2> QED BY <1>2, <1>5, <2>1, <2>3, SameLoops DEF StopInactive, OverlapInv, tables
<1>6. ASSUME NEW c \in Chain, StartNew(c) \/ Reloaded(c) PROVE OverlapInv'
  <2>1. /\ UNCHANGED <<active, runner>> /\ running' = [running EXCEPT ![c] = None]
        /\ phase \in {"diff", "wait"} /\ phase' = "start"
    BY <1>6 DEF StartNew, Reloaded, tables
  <2>2. running[c] # None => runner[running[c]].live = {}
    BY <1>0, <1>6 DEF StartNew, Reloaded, Dead, SupTypeOK
  <2>3. \A r \in Runner : Accounted(r)'
    BY <1>0, <1>2, <2>1, <2>2 DEF OverlapInv, Accounted, SupTypeOK
  <2>4. \A d \in Chain : running'[d] # None => active[d]
    BY <1>0, <1>2, <2>1 DEF OverlapInv, SupTypeOK
  <2> QED BY <1>2, <2>1, <2>3, <2>4, SameLoops DEF OverlapInv
<1>7. ASSUME NEW c \in Chain, Reload(c) PROVE OverlapInv'
  <2>1. \A r \in Runner : runner'[r].live = runner[r].live /\ runner'[r].chain = runner[r].chain
    BY <1>0, <1>7, CancelRecords DEF Reload
  <2> QED BY <1>2, <1>7, <2>1, SameLoops, ZenonT(30) DEF Reload, OverlapInv, tables
<1>8. ASSUME NEW c \in Chain, NEW r \in Runner, StartChain(c, r) PROVE OverlapInv'
  <2>1. NewRunner(c).chain = c
    BY DEF NewRunner
  <2>2. /\ \A q \in Runner : runner'[q] = IF q = r THEN NewRunner(c) ELSE runner[q]
        /\ \A d \in Chain : running'[d] = IF d = c THEN r ELSE running[d]
        /\ UNCHANGED active /\ active[c] /\ phase = "start" /\ phase' = "diff" /\ running[c] = None
    BY <1>0, <1>8 DEF StartChain, ChainConfig, tables, SupTypeOK
  <2> HIDE DEF NewRunner
  <2>3. \A q \in Runner : runner[q].live # {} => running[runner[q].chain] = q
                          /\ runner[q].chain \in Chain /\ runner[q].chain # c
    BY <1>2, <2>2 DEF OverlapInv, Accounted
  <2>4. \A q \in Runner : Accounted(q)'
    BY <2>1, <2>2, <2>3 DEF Accounted
  <2>5. \A d \in Chain : running'[d] # None => active'[d]
    BY <1>2, <2>2 DEF OverlapInv
  <2>6. NoOverlap'
    BY <2>4, <2>2 DEF NoOverlap, Accounted
  <2> QED BY <2>2, <2>4, <2>5, <2>6 DEF OverlapInv
<1>9. CASE EndReconcile \/ \E c \in Chain : StartFails(c)
  BY <1>2, <1>9, SameLoops DEF StartFails, EndReconcile, OverlapInv, tables
<1>10. ASSUME NEW r \in Runner, NEW s \in Loop, LoopReturns(r, s) PROVE OverlapInv'
  <2> DEFINE x == [runner[r] EXCEPT !.live = runner[r].live \ {s}, !.cancelled = TRUE]
  <2>1. runner[r] \in Record /\ runner[r].live \ {s} \in SUBSET Loop
    BY <1>0 DEF SupTypeOK, Record
  <2>2. runner' = [runner EXCEPT ![r] = x] /\ x.chain = runner[r].chain
        /\ x.live = runner[r].live \ {s}
    BY <1>10, <2>1, RecordUpdate, ZenonT(30) DEF LoopReturns
  <2> HIDE DEF x
  <2>3. \A q \in Runner : runner'[q].live \subseteq runner[q].live
                          /\ runner'[q].chain = runner[q].chain
    BY <1>0, <2>2 DEF SupTypeOK
  <2> QED BY <1>2, <1>10, <2>3, SameLoops DEF LoopReturns, OverlapInv, tables, sup
<1>11. ASSUME NEW r \in Runner, CloseDone(r) PROVE OverlapInv'
  <2> DEFINE x == [runner[r] EXCEPT !.done = TRUE]
  <2>1. runner[r] \in Record
    BY <1>0 DEF SupTypeOK
  <2>2. runner' = [runner EXCEPT ![r] = x] /\ x.chain = runner[r].chain /\ x.live = runner[r].live
    BY <1>11, <2>1, RecordUpdate DEF CloseDone
  <2> HIDE DEF x
  <2>3. \A q \in Runner : runner'[q].live \subseteq runner[q].live
                          /\ runner'[q].chain = runner[q].chain
    BY <1>0, <2>2 DEF SupTypeOK
  <2> QED BY <1>2, <1>11, <2>3, SameLoops DEF CloseDone, OverlapInv, tables, sup
<1>12. CASE StopAll
  <2>1. \A r \in Runner : runner'[r].live = runner[r].live /\ runner'[r].chain = runner[r].chain
    BY <1>0, <1>12, CancelRecords DEF StopAll
  <2>2. \A r \in Runner : runner[r].live # {} => r \in Registered
    BY <1>2, <1>12 DEF StopAll, OverlapInv, Accounted, Registered
  <2>3. \A r \in Runner : Accounted(r)'
    BY <1>2, <1>12, <2>1, <2>2 DEF StopAll, OverlapInv, Accounted
  <2> QED BY <1>2, <1>12, <2>1, <2>3, SameLoops DEF StopAll, OverlapInv
<1>13. CASE StopAllDone
  <2>1. \A r \in Runner : runner[r].live = {}
    BY <1>0, <1>2, <1>13 DEF StopAllDone, OverlapInv, Accounted
  <2> QED BY <1>2, <1>13, <2>1, SameLoops DEF StopAllDone, OverlapInv, Accounted, tables
<1>14. CASE \/ UNCHANGED supVars \/ Over \/ CancelRun
            \/ \E c \in Chain : Keep(c) \/ \E t \in Token : Edit(c, t)
  BY <1>3, <1>14 DEF Over, CancelRun, Keep, Edit, supVars, tables, sup
<1> QED
  BY <1>1, <1>4, <1>5, <1>6, <1>7, <1>8, <1>9, <1>10, <1>11, <1>12, <1>13, <1>14
  DEF SupNext, Reconcile

\* Nobody has toggled a chain: all of its loops are accounted for.
THEOREM OverlapInvariance == SupSpec => []OverlapInv
<1>1. SupInit => OverlapInv
  BY DEF SupInit, OverlapInv, Accounted, NoOverlap, Unused
<1> QED BY <1>1, OverlapStep, SupInvariance, PTL DEF SupSpec

\* supervisor.go:141-146: reloads and restarts of dead chains wait for the old pair, so
\* that two pairs of a chain never run together unless it was switched off and on.
THEOREM PairsDoNotOverlap == SupSpec => []NoOverlap
<1>1. OverlapInv => NoOverlap
  BY DEF OverlapInv, NoOverlap
<1> QED BY <1>1, OverlapInvariance, PTL

\* supervisor.go:69: Run returns with no loop left behind, unless a chain was switched.
THEOREM RunEndsClean == SupSpec => []CleanExit
<1>1. OverlapInv => CleanExit
  BY DEF OverlapInv, CleanExit, Accounted
<1> QED BY <1>1, OverlapInvariance, PTL

-----------------------------------------------------------------------------
(* WakeUp                                                                  *)

\* In the select only a commit adds an unseen row, and it comes with its
\* notification, unless nobody listens; then nothing counts as heard.
WakeInv == WakeTypeOK /\ WakeNotLost /\ (listener = "off" => heard = {})

\* A flush that returns to the select has seen every row.
LEMMA ShortBatch ==
  ASSUME NEW B \in Batches, Cardinality(B) < BatchSize
  PROVE  B = unseen
<1>1. CASE Cardinality(B) = BatchSize
  BY <1>1, WakeAssumption
<1>2. CASE B = unseen
  BY <1>2
<1> QED BY <1>1, <1>2 DEF Batches

\* One step of a committing loop, the listener or the publisher.
LEMMA WakeStep == WakeInv /\ [WakeNext]_wakeVars => WakeInv'
<1> SUFFICES ASSUME WakeInv, [WakeNext]_wakeVars PROVE WakeInv'
  OBVIOUS
<1> USE DEF WakeInv, WakeTypeOK, WakeNotLost
<1>1. ASSUME NEW S \in SUBSET Row, Commit(S) PROVE WakeInv'
  <2>1. CASE listener = "off"
    BY <1>1, <2>1 DEF Commit
  <2>2. CASE listener # "off"
    BY <1>1, <2>2 DEF Commit
  <2> QED BY <2>1, <2>2
<1>2. CASE Listen
  BY <1>2 DEF Listen
<1>3. CASE Notified
  BY <1>3 DEF Notified
<1>4. CASE Signal
  BY <1>4 DEF Signal
<1>5. CASE ListenLost
  BY <1>5 DEF ListenLost, Loss
<1>6. CASE Connect \/ Tick \/ Disconnect
  BY <1>6 DEF Connect, Tick, Disconnect, Loss
<1>7. CASE TakeWake
  BY <1>7 DEF TakeWake
<1>8. CASE Flush
  <2>1. PICK B \in Batches :
          /\ unseen' = unseen \ B
          /\ seen' = seen \cup B
          /\ pub' = IF Cardinality(B) < BatchSize THEN "select" ELSE "flush"
    BY <1>8 DEF Flush
  <2>2. B \subseteq unseen /\ (pub' = "select" => unseen' = {})
    BY <2>1, ShortBatch DEF Batches
  <2> QED BY <1>8, <2>1, <2>2 DEF Flush
<1>9. CASE UNCHANGED wakeVars
  BY <1>9 DEF wakeVars
<1> QED BY <1>1, <1>2, <1>3, <1>4, <1>5, <1>6, <1>7, <1>8, <1>9 DEF WakeNext

\* Types, and no committed row waits in the buffer without a wake-up on its way
\* while the LISTEN connection holds.
THEOREM WakeInvariance == WakeSpec => []WakeInv
<1>1. WakeInit => WakeInv
  BY DEF WakeInit, WakeInv, WakeTypeOK, WakeNotLost
<1> QED BY <1>1, WakeStep, PTL DEF WakeSpec

\* The wake channel holds at most one token, and the rest of the state its type.
THEOREM WakeTypeCorrect == WakeSpec => []WakeTypeOK
<1>1. WakeInv => WakeTypeOK
  BY DEF WakeInv
<1> QED BY <1>1, WakeInvariance, PTL

\* listener.go:86: a channel of capacity 1 with a non-blocking send loses no
\* wake-up.
THEOREM OneTokenSuffices == WakeSpec => []WakeNotLost
<1>1. WakeInv => WakeNotLost
  BY DEF WakeInv
<1> QED BY <1>1, WakeInvariance, PTL

-----------------------------------------------------------------------------
(* FireAndForget                                                           *)

\* First chooses the least member of the set.
LEMMA FirstInSet ==
  ASSUME NEW S \in SUBSET Nat, S # {}
  PROVE  First(S) \in S /\ \A e \in S : First(S) <= e
<1> DEFINE R == {ss \in Nat \X Nat : ss[1] < ss[2]}
<1>0. IsWellFoundedOn(R, Nat)
  BY NatLessThanWellFounded, Zenon DEF OpToRel
<1>1. PICK d \in S : \A e \in S : ~(<<e, d>> \in R)
  <2> HIDE DEF R
  <2> QED BY <1>0, WFMin
<1>2. ASSUME NEW e \in S PROVE d <= e
  <2>1. d \in Nat /\ e \in Nat
    OBVIOUS
  <2>2. e < d => <<e, d>> \in R
    BY <2>1
  <2> QED BY <1>1, <2>1, <2>2
<1> QED BY <1>2 DEF First

\* What PendingAll returns are rows of the buffer.
LEMMA PendingAllRows == \A n : PendingAll(n) \subseteq buffer
BY DEF PendingAll

\* The row that is deleted next has been written to the connection.
FlushInv ==
  /\ TypeOK
  /\ LostOnlyInTransit
  /\ pc = "ack" => todo # {} /\ First(todo) \in delivered \cup wire \cup lost

\* The end of a drain moves what is on the wire to what is lost.
LEMMA EndDrainInv ==
  ASSUME FlushInv, NEW label \in {"dial", "exited"}, EndDrain(label), faults' \in Nat
  PROVE  FlushInv'
BY DEF FlushInv, TypeOK, RunTypeOK, LinkTypeOK, EndDrain, Close, LoseTransit, Goto, rows, PC,
   LostOnlyInTransit

\* So do an error that ends the drain and a final flush that is over.
LEMMA DrainErrorInv ==
  ASSUME FlushInv, Reconnect \/ Exit \/ DrainError, faults' \in Nat
  PROVE  FlushInv'
BY EndDrainInv DEF Reconnect, Exit, DrainError

\* A step that leaves the rows and what is in transit alone keeps the invariant
\* when it keeps the types and does not go to the deletion of a row.
LEMMA MoveInv ==
  ASSUME FlushInv, UNCHANGED <<wire, delivered, buffer, recorded, lost>>, TypeOK', pc' # "ack"
  PROVE  FlushInv'
BY DEF FlushInv, LostOnlyInTransit

\* One step of the publisher, the Adapter or the database.
LEMMA FlushInvStep == FlushInv /\ [Next]_vars => FlushInv'
<1> SUFFICES ASSUME FlushInv, [Next]_vars PROVE FlushInv'
  OBVIOUS
<1> USE DEF TypeOK, RunTypeOK, LinkTypeOK
<1>0. /\ TypeOK
      /\ todo # {} => First(todo) \in todo /\ First(todo) \in Deposit
  BY FirstInSet, LinkAssumption, ZenonT(30) DEF FlushInv
<1>f. Fault \/ UNCHANGED faults => faults' \in Nat
  BY <1>0 DEF Fault
<1>1. CASE Env /\ UNCHANGED local
  <2>1. ASSUME NEW S \in SUBSET Deposit, Insert(S) /\ UNCHANGED lost PROVE FlushInv'
    BY <1>0, <1>1, <1>f, <2>1 DEF Insert, link, local, FlushInv, LostOnlyInTransit, Fault
  <2>2. CASE Break /\ UNCHANGED runVars /\ lost' = lost \cup wire
    BY <1>0, <1>1, <1>f, <2>2 DEF Break, LoseTransit, runVars, local, FlushInv, LostOnlyInTransit
  <2>3. ASSUME NEW d \in Deposit, Receive(d) /\ UNCHANGED <<runVars, lost>> PROVE FlushInv'
    BY <1>0, <1>1, <2>3 DEF Receive, runVars, local, FlushInv, LostOnlyInTransit
  <2> QED BY <1>1, <2>1, <2>2, <2>3 DEF Env
<1>2. CASE Run /\ UNCHANGED <<local, lost>>
  <2>1. CASE Dial("flush")
    BY <1>0, <1>2, <2>1 DEF Dial, Open, rows, local, PC, FlushInv, LostOnlyInTransit
  <2>2. CASE Shutdown
    BY <1>0, <1>2, <1>f, <2>2 DEF Shutdown, link, rows, local, FlushInv, LostOnlyInTransit
  <2>3. CASE Restart
    BY <1>0, <1>2, <2>3, ZenonT(30) DEF Restart, link, rows, local, PC, FlushInv, LostOnlyInTransit
  <2> QED BY <1>2, <2>1, <2>2, <2>3 DEF Run
<1>3. CASE Query
  <2>1. todo' \subseteq buffer /\ full' \in BOOLEAN
    BY <1>3, PendingAllRows DEF Query
  <2> QED BY <1>0, <1>3, <2>1, MoveInv DEF Query, linkVars, Goto, PC
<1>4. ASSUME EndFlush, UNCHANGED faults, todo = {} PROVE FlushInv'
  BY <1>0, <1>4, <1>f, MoveInv, DrainErrorInv DEF EndFlush, Goto, link, rows, local, PC
<1>5. CASE Empty
  BY <1>0, <1>4, <1>5 DEF Empty
<1>6. CASE FlushFails
  BY <1>6, <1>f, DrainErrorInv DEF FlushFails
<1>7. CASE WriteMessage
  BY <1>0, <1>7 DEF WriteMessage, Write, Goto, rows, local, PC, FlushInv, LostOnlyInTransit
<1>8. CASE WriteFails
  BY <1>8, <1>f, DrainErrorInv DEF WriteFails, WriteError
<1>9. CASE AckRow
  <2>1. buffer' \subseteq buffer /\ buffer \subseteq buffer' \cup {First(todo)} /\ faults' \in Nat
    BY <1>0, <1>9, <1>f DEF AckRow, DeleteRow, DeleteFails
  <2>2. First(todo) \in delivered \cup wire \cup lost
    BY <1>9 DEF AckRow, FlushInv
  <2>3. /\ UNCHANGED <<link, recorded, delivered, dups, ctxDone, full, draining, lost>>
        /\ todo' = todo \ {First(todo)} /\ pc' = "write"
    BY <1>9 DEF AckRow, Goto
  <2> HIDE DEF First
  <2> QED BY <1>0, <2>1, <2>2, <2>3 DEF link, PC, FlushInv, LostOnlyInTransit
<1>10. CASE BatchDone
  BY <1>0, <1>4, <1>10, MoveInv DEF BatchDone, Goto, link, rows, local, PC
<1>11. CASE PollTick
  BY <1>0, <1>11, MoveInv DEF PollTick, Goto, linkVars, local, PC
<1>12. CASE ReadError
  BY <1>12, <1>f, DrainErrorInv DEF ReadError, WriteError
<1>13. CASE CtxDone
  BY <1>0, <1>13, MoveInv DEF CtxDone, Goto, linkVars, PC
<1>14. CASE DrainDeadline
  BY <1>0, <1>14 DEF DrainDeadline, linkVars, runVars, FlushInv, LostOnlyInTransit
<1>15. CASE DialCancelled
  BY <1>0, <1>15, MoveInv DEF DialCancelled, Goto, linkVars, local, PC
<1>16. CASE Crash
  BY <1>16, <1>f, DrainErrorInv DEF Crash
<1>17. CASE UNCHANGED vars
  BY <1>0, <1>17 DEF vars, linkVars, runVars, local, FlushInv, LostOnlyInTransit
<1> QED BY <1>1, <1>2, <1>3, <1>5, <1>6, <1>7, <1>8, <1>9, <1>10, <1>11, <1>12, <1>13,
           <1>14, <1>15, <1>16, <1>17 DEF Next, FlushStep

\* The invariant holds in every state of the publisher without ACKs.
THEOREM FlushInvariance == Spec => []FlushInv
<1>1. Init => FlushInv
  <2> SUFFICES ASSUME Init PROVE FlushInv
    OBVIOUS
  <2>1. ctxDone \in BOOLEAN /\ full \in BOOLEAN
    BY DEF Init, RunInit
  <2> QED BY <2>1 DEF Init, RunInit, LinkInit, FlushInv, TypeOK, RunTypeOK, LinkTypeOK, PC,
                      LostOnlyInTransit
<1> QED BY <1>1, FlushInvStep, PTL DEF Spec

\* The variables of the publisher without ACKs keep their types.
THEOREM TypeCorrect == Spec => []TypeOK
BY FlushInvariance, PTL DEF FlushInv

\* config.go:32: without ACKs a deposit is lost only with a connection that its message
\* was written to.  Nothing is lost by a failed query or DELETE, a cancelled flush, a
\* shutdown or a crash.
THEOREM OnlyTransitIsLost == Spec => []LostOnlyInTransit
BY FlushInvariance, PTL DEF FlushInv
=============================================================================
