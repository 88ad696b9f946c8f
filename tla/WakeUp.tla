------------------------------- MODULE WakeUp -------------------------------
(***************************************************************************)
(* How the publisher learns of new rows: SaveAndAdvance sends NOTIFY with  *)
(* its commit, internal/notify turns notifications into tokens of the wake *)
(* channel (capacity 1), and the publisher empties the buffer batch by     *)
(* batch on a token, on its poll ticker and after every dial.  The batches *)
(* are those of flushUntilEmpty; here a row is "seen" once a query has     *)
(* returned it.                                                            *)
(***************************************************************************)
EXTENDS Integers, FiniteSets

CONSTANTS
  Row,        \* rows that will be committed
  BatchSize,  \* publisher's Config.MaxBatchSize
  MaxLosses   \* bound: losses of the LISTEN or of the WebSocket connection

ASSUME WakeAssumption == BatchSize \in Nat \ {0} /\ MaxLosses \in Nat

VARIABLES
  unseen,    \* committed rows that no query has returned
  seen,      \* committed rows that a query has returned
  heard,     \* history: rows committed since the last LISTEN
  listener,  \* Listener: "off" between connections, "wait" or "signal"
  inbox,     \* notifications queued on the LISTEN connection
  wake,      \* tokens in the wake channel
  pub,       \* publisher: "dial", "select" or "flush"
  losses

wakeVars == <<unseen, seen, heard, listener, inbox, wake, pub, losses>>

WakeInit ==
  /\ unseen = {} /\ seen = {} /\ heard = {}
  /\ listener = "off"
  /\ inbox = 0 /\ wake = 0
  /\ pub = "dial"
  /\ losses = 0

Loss ==
  /\ losses < MaxLosses
  /\ losses' = losses + 1

\* Slip: the notification leaves before the rows are visible, so the listener
\* may have dealt with it by the time they are.
CommitAfterNotify(S) ==
  /\ S \cap (unseen \cup seen) = {}
  /\ S # {}
  /\ unseen' = unseen \cup S
  /\ heard' = IF listener = "off" THEN heard ELSE heard \cup S
  /\ inbox' \in (IF listener = "off" THEN {inbox} ELSE {inbox, inbox + 1})
  /\ UNCHANGED <<seen, listener, wake, pub, losses>>

\* A scan loop commits the rows S of one block.  Postgres queues the NOTIFY for
\* the connections that are listening.
Commit(S) ==
  /\ S # {}
  /\ S \cap (unseen \cup seen) = {}
  /\ unseen' = unseen \cup S
  /\ IF listener = "off"
     THEN UNCHANGED <<inbox, heard>>
     ELSE inbox' = inbox + 1 /\ heard' = heard \cup S
  /\ UNCHANGED <<seen, listener, wake, pub, losses>>
-----------------------------------------------------------------------------
(* internal/notify.                                                        *)

\* runOnce: a connection is acquired and LISTEN executed.
Listen ==
  /\ listener = "off"
  /\ listener' = "wait"
  /\ UNCHANGED <<unseen, seen, heard, inbox, wake, pub, losses>>

\* WaitForNotification returns a notification.
Notified ==
  /\ listener = "wait"
  /\ inbox > 0
  /\ inbox' = inbox - 1
  /\ listener' = "signal"
  /\ UNCHANGED <<unseen, seen, heard, wake, pub, losses>>

\* Slip: the send waits for room in a channel without limit.
SignalUnbounded ==
  /\ listener = "signal"
  /\ wake' = wake + 1
  /\ listener' = "wait"
  /\ UNCHANGED <<unseen, seen, heard, inbox, pub, losses>>

\* The non-blocking send: with a token in the channel it does nothing.
Signal ==
  /\ listener = "signal"
  /\ wake' = 1
  /\ listener' = "wait"
  /\ UNCHANGED <<unseen, seen, heard, inbox, pub, losses>>

\* WaitForNotification fails, and what was queued is gone.  Run waits and calls
\* runOnce again.
ListenLost ==
  /\ listener = "wait"
  /\ Loss
  /\ listener' = "off"
  /\ inbox' = 0 /\ heard' = {}
  /\ UNCHANGED <<unseen, seen, wake, pub>>
-----------------------------------------------------------------------------
(* The publisher, as far as it looks for rows.                             *)

\* A connection: the drain begins with a flush, whatever the channel holds.
Connect ==
  /\ pub = "dial"
  /\ pub' = "flush"
  /\ UNCHANGED <<unseen, seen, heard, listener, inbox, wake, losses>>

TakeWake ==
  /\ pub = "select"
  /\ wake > 0
  /\ wake' = wake - 1
  /\ pub' = "flush"
  /\ UNCHANGED <<unseen, seen, heard, listener, inbox, losses>>

\* Slip: the tick is taken from the channel and nothing is done about it.
TickIgnored == pub = "select" /\ UNCHANGED wakeVars

Tick ==
  /\ pub = "select"
  /\ pub' = "flush"
  /\ UNCHANGED <<unseen, seen, heard, listener, inbox, wake, losses>>

Batches ==
  {B \in SUBSET unseen : \/ Cardinality(B) = BatchSize
                         \/ B = unseen /\ Cardinality(B) < BatchSize}

\* An iteration of flushUntilEmpty: after a batch that is not full it returns
\* without asking again.
Flush ==
  /\ pub = "flush"
  /\ \E B \in Batches :
       /\ unseen' = unseen \ B
       /\ seen' = seen \cup B
       /\ pub' = IF Cardinality(B) < BatchSize THEN "select" ELSE "flush"
  /\ UNCHANGED <<heard, listener, inbox, wake, losses>>

\* The WebSocket is lost, before a query or in the select.
Disconnect ==
  /\ pub \in {"flush", "select"}
  /\ Loss
  /\ pub' = "dial"
  /\ UNCHANGED <<unseen, seen, heard, listener, inbox, wake>>
-----------------------------------------------------------------------------
WakeNext ==
  \/ \E S \in SUBSET Row : Commit(S)
  \/ Listen \/ Notified \/ Signal \/ ListenLost
  \/ Connect \/ TakeWake \/ Tick \/ Flush \/ Disconnect

WakeSpec == WakeInit /\ [][WakeNext]_wakeVars

\* Fairness: a connection to the Adapter is got, the ticker fires, and the flush
\* runs.  Nothing is asked of LISTEN/NOTIFY: it may never deliver.
WakeFairSpec == WakeSpec /\ WF_wakeVars(Connect) /\ WF_wakeVars(Tick) /\ WF_wakeVars(Flush)
-----------------------------------------------------------------------------
WakeTypeOK ==
  /\ unseen \in SUBSET Row /\ seen \in SUBSET Row /\ heard \in SUBSET Row
  /\ listener \in {"off", "wait", "signal"}
  /\ inbox \in Nat
  /\ wake \in {0, 1}
  /\ pub \in {"dial", "select", "flush"}
  /\ losses \in Nat

\* listener.go:87, "one wake is enough": while the LISTEN connection holds, the
\* publisher never sits in its select with a committed row that it has not seen,
\* unless a notification or a token is on its way to it.
WakeNotLost ==
  pub = "select" /\ heard \cap unseen # {}
    => inbox > 0 \/ listener = "signal" \/ wake = 1

\* listener.go:4, "with the polling backup nothing is missed": a committed row is
\* seen in the end, even if no notification ever arrives.
PollingBackup == \A d \in Row : (d \in unseen) ~> (d \in seen)
=============================================================================
