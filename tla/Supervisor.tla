----------------------------- MODULE Supervisor -----------------------------
(***************************************************************************)
(* internal/supervisor: the reconcile loop that starts, reloads and stops  *)
(* the (log, trace) goroutine pair of every active chain, and the          *)
(* readiness mark that cmd/listener/main.go hangs on its first query.      *)
(*                                                                         *)
(* Around it: operators who activate, deactivate and edit chains in the    *)
(* chain and token tables at any moment, loops that panic, queries and     *)
(* dials that fail, and the shutdown of the process.  An error of          *)
(* ActiveChains ends a reconcile before it changes anything and has no     *)
(* action of its own.                                                      *)
(***************************************************************************)
EXTENDS Integers, FiniteSets

CONSTANTS
  Chain,       \* chain ids
  Token,       \* token configurations, with distinct fingerprints
  Runner,      \* bound: chainRunners whose goroutines may be alive at once
  None,        \* no runner, no configuration
  MaxEdits,    \* bound: edits of a token configuration
  MaxToggles,  \* bound: activations and deactivations
  MaxMishaps   \* bound: panics, failed starts and shutdowns

ASSUME SupervisorAssumption ==
  /\ None \notin Runner \cup Token \cup Chain
  /\ MaxEdits \in Nat /\ MaxToggles \in Nat /\ MaxMishaps \in Nat

VARIABLES
  active,      \* chain.active in the database
  token,       \* each chain's token configuration in the database
  running,     \* Supervisor.running
  runner,      \* the runners and their goroutines
  phase,       \* where Run is
  cur,         \* the chain reconcile waits for or starts
  infos,       \* the answer of ActiveChains: fingerprints of the active chains
  pending,     \* active chains that reconcile has still to look at
  stopping,    \* the runners stopAll waits for
  ready,       \* httpserver's ready flag
  runDone,     \* the context of Run has been cancelled
  edits, toggles, mishaps

tables == <<active, token, edits, toggles>>
sup == <<running, phase, cur, infos, pending, stopping, ready>>
supVars == <<tables, sup, runner, runDone, mishaps>>

Loop == {"log", "trace"}

\* built is the configuration its scanners were built with, live the loops that
\* have not returned, done the closed channel.
Record == [chain : Chain \cup {None}, tokenConfigHash : Token \cup {None},
           built : Token \cup {None}, cancelled : BOOLEAN, live : SUBSET Loop,
           done : BOOLEAN]

Unused == [chain |-> None, tokenConfigHash |-> None, built |-> None,
           cancelled |-> TRUE, live |-> {}, done |-> TRUE]

\* "stop" and "diff" are the two loops of reconcile, "wait" its wait for the done
\* channel of cur, "start" its call of startChain.
SupPC == {"idle", "stop", "diff", "wait", "start", "stopall", "exited"}

SupInit ==
  /\ active \in [Chain -> BOOLEAN]
  /\ token \in [Chain -> Token]
  /\ running = [c \in Chain |-> None]
  /\ runner = [r \in Runner |-> Unused]
  /\ phase = "idle" /\ cur = None
  /\ infos = [c \in Chain |-> None]
  /\ pending = {} /\ stopping = {}
  /\ ready = FALSE
  /\ runDone = FALSE
  /\ edits = 0 /\ toggles = 0 /\ mishaps = 0

Mishap ==
  /\ mishaps < MaxMishaps
  /\ mishaps' = mishaps + 1
-----------------------------------------------------------------------------
(* The operators of the listener.                                          *)

Edit(c, t) ==
  /\ edits < MaxEdits
  /\ t # token[c]
  /\ token' = [token EXCEPT ![c] = t]
  /\ edits' = edits + 1
  /\ UNCHANGED <<active, toggles, sup, runner, runDone, mishaps>>

Toggle(c) ==
  /\ toggles < MaxToggles
  /\ active' = [active EXCEPT ![c] = ~@]
  /\ toggles' = toggles + 1
  /\ UNCHANGED <<token, edits, sup, runner, runDone, mishaps>>

CancelRun ==
  /\ ~runDone
  /\ Mishap
  /\ runDone' = TRUE
  /\ UNCHANGED <<tables, sup, runner>>
-----------------------------------------------------------------------------
(* reconcile.                                                              *)

Cancel(R) ==
  [r \in Runner |-> IF r \in R THEN [runner[r] EXCEPT !.cancelled = TRUE] ELSE runner[r]]

Registered == {running[c] : c \in Chain} \ {None}

\* ConfigRepo.ActiveChains: the active chains and their fingerprints.
ActiveChains == [c \in Chain |-> IF active[c] THEN token[c] ELSE None]

\* ConfigRepo.ChainConfig: the tokens of a chain, or an error if it is inactive.
ChainConfig(c) == IF active[c] THEN token[c] ELSE None

\* readyMarkingSource: the first answer of ActiveChains marks the process ready.
MarkReady == ready' = TRUE

\* ActiveChains answers, by way of readyMarkingSource.
ReadActive ==
  /\ phase = "idle"
  /\ ~runDone
  /\ infos' = ActiveChains
  /\ MarkReady
  /\ phase' = "stop"
  /\ UNCHANGED <<tables, cur, running, runner, pending, stopping, runDone, mishaps>>

Inactive == {c \in Chain : infos[c] = None}

\* Slip: a deactivated chain is forgotten but not cancelled.
StopInactiveUncancelled ==
  /\ phase = "stop"
  /\ running' = [c \in Chain |-> IF c \in Inactive THEN None ELSE running[c]]
  /\ pending' = Chain \ Inactive
  /\ phase' = "diff"
  /\ UNCHANGED <<tables, cur, infos, runner, stopping, ready, runDone, mishaps>>

\* Deactivated chains are cancelled and forgotten; nobody waits for their loops.
StopInactive ==
  /\ phase = "stop"
  /\ runner' = Cancel({running[c] : c \in Inactive})
  /\ running' = [c \in Chain |-> IF c \in Inactive THEN None ELSE running[c]]
  /\ pending' = Chain \ Inactive
  /\ phase' = "diff"
  /\ UNCHANGED <<tables, cur, infos, stopping, ready, runDone, mishaps>>

Dead(c) == runner[running[c]].done

\* The runner was started for the fingerprint that ActiveChains reports now.
Unchanged(c) == runner[running[c]].tokenConfigHash = infos[c]

\* A running chain whose fingerprint is the same is left alone.
Keep(c) ==
  /\ phase = "diff"
  /\ c \in pending
  /\ running[c] # None /\ ~Dead(c) /\ Unchanged(c)
  /\ pending' = pending \ {c}
  /\ UNCHANGED <<tables, cur, running, runner, phase, infos, stopping, ready,
                 runDone, mishaps>>

\* A new chain, or one whose two goroutines have both ended, is started.
StartNew(c) ==
  /\ phase = "diff"
  /\ c \in pending
  /\ running[c] # None => Dead(c)
  /\ running' = [running EXCEPT ![c] = None]
  /\ pending' = pending \ {c}
  /\ phase' = "start" /\ cur' = c
  /\ UNCHANGED <<tables, runner, infos, stopping, ready, runDone, mishaps>>

\* A chain whose fingerprint has changed is cancelled, to be started again.
Reload(c) ==
  /\ phase = "diff"
  /\ c \in pending
  /\ running[c] # None /\ ~Dead(c) /\ ~Unchanged(c)
  /\ runner' = Cancel({running[c]})
  /\ pending' = pending \ {c}
  /\ phase' = "wait" /\ cur' = c
  /\ UNCHANGED <<tables, running, infos, stopping, ready, runDone, mishaps>>

\* Slip: the old pair is cancelled but not waited for.
ReloadWithoutWait(c) ==
  /\ phase = "wait" /\ cur = c
  /\ running' = [running EXCEPT ![c] = None]
  /\ phase' = "start" /\ cur' = c
  /\ UNCHANGED <<tables, runner, infos, pending, stopping, ready, runDone, mishaps>>

\* Both goroutines of the old pair have ended.
Reloaded(c) ==
  /\ phase = "wait" /\ cur = c
  /\ Dead(c)
  /\ running' = [running EXCEPT ![c] = None]
  /\ phase' = "start" /\ cur' = c
  /\ UNCHANGED <<tables, runner, infos, pending, stopping, ready, runDone, mishaps>>

\* Slip: the runner is registered without its fingerprint.
NewRunnerUnhashed(c) ==
  [chain |-> c, tokenConfigHash |-> "", built |-> ChainConfig(c), cancelled |-> FALSE,
   live |-> Loop, done |-> FALSE]

\* The runner of a chain: ChainConfig is read now, the fingerprint comes from the
\* ActiveChains query at the start of the reconcile.
NewRunner(c) ==
  [chain |-> c, tokenConfigHash |-> infos[c], built |-> ChainConfig(c), cancelled |-> FALSE,
   live |-> Loop, done |-> FALSE]

\* startChain succeeds, in an unused slot.
StartChain(c, r) ==
  /\ phase = "start" /\ cur = c
  /\ ChainConfig(c) # None /\ ~runDone
  /\ runner[r].done /\ r \notin Registered \cup stopping
  /\ runner' = [runner EXCEPT ![r] = NewRunner(c)]
  /\ running' = [running EXCEPT ![c] = r]
  /\ phase' = "diff" /\ cur' = None
  /\ UNCHANGED <<tables, infos, pending, stopping, ready, runDone, mishaps>>

\* ChainConfig finds the chain inactive, or the context is cancelled, or a query
\* or the dial fails: the chain is left out until the next reconcile.
StartFails(c) ==
  /\ phase = "start" /\ cur = c
  /\ IF ChainConfig(c) # None /\ ~runDone THEN Mishap ELSE UNCHANGED mishaps
  /\ phase' = "diff" /\ cur' = None
  /\ UNCHANGED <<tables, running, runner, infos, pending, stopping, ready, runDone>>

EndReconcile ==
  /\ phase = "diff"
  /\ pending = {}
  /\ phase' = "idle"
  /\ UNCHANGED <<tables, cur, running, runner, infos, pending, stopping, ready, runDone, mishaps>>
-----------------------------------------------------------------------------
(* The goroutines of a pair, and the end of Run.                           *)

\* Slip: the other loop of the pair goes on.
LoopReturnsAlone(r, s) ==
  /\ s \in runner[r].live
  /\ IF runner[r].cancelled \/ runDone THEN UNCHANGED mishaps ELSE Mishap
  /\ runner' = [runner EXCEPT ![r] = [runner[r] EXCEPT !.live = runner[r].live \ {s}]]
  /\ UNCHANGED <<tables, sup, runDone>>

\* runLoop returns: Loop.Run has seen the cancellation, or has panicked.  The
\* deferred cancel ends the other loop of the pair.
LoopReturns(r, s) ==
  /\ s \in runner[r].live
  /\ IF runner[r].cancelled \/ runDone THEN UNCHANGED mishaps ELSE Mishap
  /\ runner' = [runner EXCEPT ![r] = [runner[r] EXCEPT
                                      !.live = runner[r].live \ {s}, !.cancelled = TRUE]]
  /\ UNCHANGED <<tables, sup, runDone>>

\* Slip: the wait group counts a goroutine too many.
CloseDoneNever(r) == FALSE /\ UNCHANGED supVars

\* wg.Wait returns and the done channel is closed.
CloseDone(r) ==
  /\ runner[r].live = {} /\ ~runner[r].done
  /\ runner' = [runner EXCEPT ![r].done = TRUE]
  /\ UNCHANGED <<tables, sup, runDone, mishaps>>

\* stopAll: cancel every registered runner.
StopAll ==
  /\ phase = "idle"
  /\ runDone
  /\ runner' = Cancel(Registered)
  /\ stopping' = Registered
  /\ running' = [c \in Chain |-> None]
  /\ phase' = "stopall"
  /\ UNCHANGED <<tables, cur, infos, pending, ready, runDone, mishaps>>

\* Slip: the wait is left out.
StopAllAtOnce ==
  /\ phase = "stopall"
  /\ stopping' = {}
  /\ phase' = "exited"
  /\ UNCHANGED <<tables, cur, running, runner, infos, pending, ready, runDone, mishaps>>

\* ... and wait for each of them.  Run returns.
StopAllDone ==
  /\ phase = "stopall"
  /\ \A r \in stopping : runner[r].done
  /\ stopping' = {}
  /\ phase' = "exited"
  /\ UNCHANGED <<tables, cur, running, runner, infos, pending, ready, runDone, mishaps>>

\* Everything has ended.
Over ==
  /\ phase = "exited"
  /\ \A r \in Runner : runner[r].done
  /\ UNCHANGED supVars
-----------------------------------------------------------------------------
Reconcile ==
  \/ ReadActive \/ StopInactive \/ EndReconcile \/ StopAll \/ StopAllDone
  \/ \E c \in Chain :
       \/ Keep(c) \/ StartNew(c) \/ Reload(c) \/ Reloaded(c) \/ StartFails(c)
       \/ \E r \in Runner : StartChain(c, r)

SupNext ==
  \/ \E c \in Chain : Toggle(c) \/ \E t \in Token : Edit(c, t)
  \/ CancelRun \/ Reconcile \/ Over
  \/ \E r \in Runner : CloseDone(r) \/ \E s \in Loop : LoopReturns(r, s)

SupSpec == SupInit /\ [][SupNext]_supVars

\* Fairness: the ticker fires, reconcile runs on, a loop whose context has been
\* cancelled returns (every call it makes takes that context).
SupFairSpec ==
  /\ SupSpec
  /\ WF_supVars(Reconcile)
  /\ \A r \in Runner :
       /\ WF_supVars(CloseDone(r))
       /\ \A s \in Loop : WF_supVars((runner[r].cancelled \/ runDone) /\ LoopReturns(r, s))
-----------------------------------------------------------------------------
SupTypeOK ==
  /\ active \in [Chain -> BOOLEAN]
  /\ token \in [Chain -> Token]
  /\ running \in [Chain -> Runner \cup {None}]
  /\ runner \in [Runner -> Record]
  /\ phase \in SupPC /\ cur \in Chain \cup {None}
  /\ infos \in [Chain -> Token \cup {None}]
  /\ pending \in SUBSET Chain
  /\ stopping \in SUBSET Runner
  /\ ready \in BOOLEAN /\ runDone \in BOOLEAN
  /\ edits \in Nat /\ toggles \in Nat /\ mishaps \in Nat

Live(r) == runner[r].live # {} /\ ~runner[r].cancelled

\* What the overlap of loops in ScanLoop rests on: through every start, reload,
\* panic and deactivation, at most one runner of a chain has not been cancelled.
AtMostOneLive ==
  \A q, r \in Runner : Live(q) /\ Live(r) /\ runner[q].chain = runner[r].chain => q = r

\* supervisor.go:141-146: a reload and the restart of a dead chain wait for the
\* old pair.  Unless a chain was switched off and on, its pairs never overlap.
NoOverlap ==
  toggles = 0 =>
    \A q, r \in Runner :
      runner[q].live # {} /\ runner[r].live # {} /\ runner[q].chain = runner[r].chain
        => q = r

Applied(c) ==
  IF active[c]
  THEN /\ running[c] # None
       /\ runner[running[c]].live = Loop
       /\ runner[running[c]].built = token[c]
  ELSE \A r \in Runner : runner[r].chain = c => runner[r].live = {}

\* The purpose of reconcile (supervisor.go:96, 121): once the tables and the
\* network are quiet, every active chain has both its loops running, with the
\* tokens the database lists now, and a deactivated chain has none.
ConfigApplied == \A c \in Chain : <>[](runDone \/ Applied(c))

\* supervisor.go:69: a shutdown, whatever reconcile is waiting for, ends Run and
\* every loop.
ShutdownEnds == runDone ~> (phase = "exited" /\ \A r \in Runner : runner[r].live = {})

\* supervisor.go:69: Run returns after every chain has been cleaned up, unless a
\* chain was switched off before: nobody waits for the loops of that one.
CleanExit == phase = "exited" /\ toggles = 0 => \A r \in Runner : runner[r].live = {}
=============================================================================
