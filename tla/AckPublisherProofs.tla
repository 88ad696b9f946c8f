------------------------- MODULE AckPublisherProofs -------------------------
(***************************************************************************)
(* Proofs about AckPublisher, for every set of deposits, every MaxInFlight *)
(* and MaxBatchSize and every pattern of faults and repeated ACKs.         *)
(***************************************************************************)
EXTENDS AckPublisher, FiniteSetTheorems, SequenceTheorems, WellFoundedInduction, TLAPS

\* First chooses the least member of the set.
LEMMA FirstInSet ==
  ASSUME NEW S \in SUBSET Nat, S # {}
  PROVE  First(S) \in S /\ \A e \in S : First(S) <= e
<1> DEFINE R == {ss \in Nat \X Nat : ss[1] < ss[2]}
<1>0. IsWellFoundedOn(R, Nat)
  BY NatLessThanWellFounded, Zenon DEF OpToRel
<1>1. PICK d \in S : \A e \in S : ~(<<e, d>> \in R)
  <2> HIDE DEF R
  <2> QED BY <1>0, WFMin
<1>2. ASSUME NEW e \in S PROVE d <= e
  <2>1. d \in Nat /\ e \in Nat
    OBVIOUS
  <2>2. e < d => <<e, d>> \in R
    BY <2>1
  <2> QED BY <1>1, <2>1, <2>2
<1> QED BY <1>2 DEF First

\* What PendingAll returns are rows of the buffer.
LEMMA PendingAllRows == \A n : PendingAll(n) \subseteq buffer
BY DEF PendingAll

\* An ACK in transit or in the channel is of a deposit the Adapter has; a
\* message to be sent or on the wire has its row, or the Adapter has it.
Inv ==
  /\ TypeOK
  /\ owed \subseteq delivered
  /\ ackWire \subseteq delivered
  /\ \A i \in DOMAIN ackCh : ackCh[i] \in delivered
  /\ wire \subseteq buffer \cup delivered
  /\ todo \subseteq buffer \cup delivered
  /\ NotDeletedBeforeDelivery

\* An empty buffer and no connection satisfy the invariant.
LEMMA InitInv == Init => Inv
<1> SUFFICES ASSUME Init PROVE Inv
  OBVIOUS
<1>1. ctxDone \in BOOLEAN
  BY DEF Init, RunInit
<1>2. ackCh \in Seq(Deposit) /\ DOMAIN ackCh = {} /\ Len(ackCh) <= MaxInFlight
  BY WindowAssumption DEF Init
<1> QED
  BY <1>1, <1>2 DEF Init, RunInit, LinkInit, Inv, TypeOK, RunTypeOK, LinkTypeOK, PC,
     NotDeletedBeforeDelivery

\* The end of a drain keeps the invariant: it forgets, and touches no row.
LEMMA EndDrainInv ==
  ASSUME Inv, NEW label \in PC, EndDrain(label), faults' \in Nat
  PROVE  Inv'
BY WindowAssumption DEF Inv, TypeOK, RunTypeOK, LinkTypeOK, EndDrain, Close, LoseTransit, NoLocals, Goto,
   rows, NotDeletedBeforeDelivery

\* Handling an ACK that is in the channel keeps the invariant.
LEMMA TakeAckInv ==
  ASSUME Inv, ackCh # <<>>, ackCh' = Tail(ackCh), NEW c \in BOOLEAN, TakeAck(Head(ackCh), c),
         pc' \in PC, ctxDone' \in BOOLEAN, UNCHANGED <<link, delivered, dups, recorded, todo>>
  PROVE  Inv'
<1> DEFINE d == Head(ackCh)
<1>1. /\ d \in delivered /\ Tail(ackCh) \in Seq(Deposit) /\ Len(Tail(ackCh)) <= MaxInFlight
      /\ \A i \in DOMAIN Tail(ackCh) : Tail(ackCh)[i] \in delivered
  <2>1. ackCh \in Seq(Deposit) /\ \A i \in 1..Len(ackCh) : ackCh[i] \in delivered
    BY DEF Inv, TypeOK
  <2>2. ackCh \in Seq(delivered)
    BY <2>1
  <2>3. Head(ackCh) \in delivered /\ Tail(ackCh) \in Seq(delivered)
    BY <2>2, HeadTailProperties
  <2>4. Tail(ackCh) \in Seq(Deposit) /\ Len(Tail(ackCh)) <= MaxInFlight
    BY <2>1, HeadTailProperties, WindowAssumption DEF Inv, TypeOK
  <2> QED BY <2>3, <2>4
<1>2. buffer' \subseteq buffer /\ buffer \subseteq buffer' \cup {d} /\ faults' \in Nat
      /\ out' \subseteq out
  BY DEF Inv, TypeOK, RunTypeOK, LinkTypeOK, TakeAck, DeleteRow, DeleteFails, Fault
<1> HIDE DEF d
<1> QED
  BY <1>1, <1>2 DEF Inv, TypeOK, RunTypeOK, LinkTypeOK, NotDeletedBeforeDelivery, link

\* Every action of the publisher, the link and the Adapter keeps the invariant.
LEMMA NextInv == Inv /\ [Next]_vars => Inv'
<1> SUFFICES ASSUME Inv, [Next]_vars PROVE Inv'
  OBVIOUS
<1> USE LinkAssumption
<1>1. CASE UNCHANGED vars
  BY <1>1 DEF vars, linkVars, runVars, local, Inv, TypeOK, RunTypeOK, LinkTypeOK,
     NotDeletedBeforeDelivery
<1>2. CASE (Arrive \/ Link) /\ UNCHANGED local
  <2>0. out' = out /\ ackCh' = ackCh /\ todo' = todo
    BY <1>2 DEF local
  <2>1. ASSUME NEW S \in SUBSET Deposit, Insert(S) PROVE Inv'
    <3>1. /\ buffer' = buffer \cup S /\ recorded' = recorded \cup S
          /\ conn' = conn /\ wire' = wire /\ owed' = owed /\ ackWire' = ackWire
          /\ delivered' = delivered /\ dups' = dups /\ pc' = pc /\ ctxDone' = ctxDone
          /\ faults' \in Nat
      BY <2>1 DEF Insert, Fault, link, Inv, TypeOK, RunTypeOK, LinkTypeOK
    <3>2. TypeOK'
      BY <2>0, <3>1 DEF Inv, TypeOK, RunTypeOK, LinkTypeOK
    <3> QED BY <2>0, <3>1, <3>2 DEF Inv, NotDeletedBeforeDelivery
  <2>2. CASE Break /\ UNCHANGED runVars
    BY <2>0, <2>2 DEF Break, Fault, LoseTransit, runVars, Inv, TypeOK, RunTypeOK,
       LinkTypeOK, NotDeletedBeforeDelivery
  <2>3. ASSUME NEW d \in Deposit, AdapterStep(d), UNCHANGED runVars PROVE Inv'
    <3> USE <2>0, <2>3 DEF runVars, Inv, TypeOK, RunTypeOK, LinkTypeOK,
            NotDeletedBeforeDelivery
    <3>1. CASE Receive(d)
      BY <3>1 DEF Receive
    <3>2. CASE SendAck(d)
      BY <3>2 DEF SendAck
    <3>3. CASE ForgetAck(d)
      BY <3>3 DEF ForgetAck, Fault
    <3>4. CASE RepeatAck(d)
      BY <3>4 DEF RepeatAck
    <3> QED BY <2>3, <3>1, <3>2, <3>3, <3>4 DEF AdapterStep
  <2> QED BY <1>2, <2>1, <2>2, <2>3 DEF Arrive, Link
<1>3. CASE (Dial("topup") \/ Shutdown \/ Restart) /\ UNCHANGED local
  <2>1. ctxDone' \in BOOLEAN
    BY <1>3 DEF Dial, Shutdown, Restart, Inv, TypeOK, RunTypeOK
  <2>2. /\ pc' \in PC /\ conn' \in {"none", "up", "broken"} /\ faults' \in Nat
        /\ UNCHANGED <<rows, wire, owed, ackWire, local>>
    BY <1>3 DEF Dial, Open, Shutdown, Restart, Fault, link, PC, Inv, TypeOK, RunTypeOK,
       LinkTypeOK
  <2> QED
    BY <2>1, <2>2 DEF rows, local, Inv, TypeOK, RunTypeOK, LinkTypeOK,
       NotDeletedBeforeDelivery
<1>4. ASSUME NEW d \in Deposit, ReadAck(d) PROVE Inv'
  <2>1. /\ ackCh' \in Seq(Deposit) /\ Len(ackCh') <= MaxInFlight
        /\ \A i \in DOMAIN ackCh' : ackCh'[i] \in delivered
    BY <1>4, WindowAssumption DEF ReadAck, Inv, TypeOK
  <2> QED
    BY <1>4, <2>1 DEF ReadAck, runVars, Inv, TypeOK, RunTypeOK, LinkTypeOK,
       NotDeletedBeforeDelivery
<1>5. ASSUME NEW d \in Deposit, AckTimeout(d) PROVE Inv'
  <2>1. faults' \in Nat
    BY <1>5 DEF AckTimeout, Fault, Inv, TypeOK, RunTypeOK, LinkTypeOK
  <2> QED BY <1>5, <2>1, EndDrainInv DEF AckTimeout, Reconnect, PC
<1>6. CASE Query
  <2>1. todo' \subseteq buffer
    BY <1>6, PendingAllRows DEF Query
  <2> QED
    BY <1>6, <2>1 DEF Query, Goto, linkVars, PC, Inv, TypeOK, RunTypeOK, LinkTypeOK,
       NotDeletedBeforeDelivery
<1>7. CASE Send
  <2> DEFINE d == First(todo)
  <2>1. d \in todo
    BY <1>7, FirstInSet DEF Send, Inv, TypeOK
  <2>2. /\ wire' \subseteq wire \cup {d} /\ out' = out \cup {d} /\ todo' \subseteq todo
        /\ UNCHANGED <<rows, pc, ctxDone, faults, ackCh, conn, owed, ackWire>>
    BY <1>7 DEF Send, Write
  <2> HIDE DEF d
  <2> QED
    BY <2>1, <2>2 DEF rows, Inv, TypeOK, RunTypeOK, LinkTypeOK, NotDeletedBeforeDelivery
<1>8. CASE WindowFull \/ SendDone \/ PollTick \/ CtxDone \/ DialCancelled
  <2>1. /\ pc' \in PC /\ todo' \subseteq todo
        /\ UNCHANGED <<linkVars, buffer, recorded, ctxDone, out, ackCh>>
    BY <1>8 DEF WindowFull, SendDone, PollTick, CtxDone, DialCancelled, Goto, local, PC
  <2> QED
    BY <2>1 DEF linkVars, Inv, TypeOK, RunTypeOK, LinkTypeOK, NotDeletedBeforeDelivery
<1>9. CASE QueryFails \/ SendFails \/ ReadError \/ GracefulEnd \/ Crash
  <2>1. faults' \in Nat
    BY <1>9 DEF QueryFails, SendFails, ReadError, WriteError, GracefulEnd, Crash, Fault, Inv,
       TypeOK, RunTypeOK, LinkTypeOK
  <2>2. EndDrain("dial") \/ EndDrain("exited")
    BY <1>9 DEF QueryFails, SendFails, ReadError, GracefulEnd, Crash, Reconnect, Exit
  <2> QED BY <2>1, <2>2, EndDrainInv DEF PC
<1>10. CASE HandleAck
  BY <1>10, TakeAckInv DEF HandleAck, Goto, PC, Inv, TypeOK, RunTypeOK
<1>11. CASE GracefulAck
  BY <1>11, TakeAckInv DEF GracefulAck, Inv, TypeOK, RunTypeOK
<1> QED
  BY <1>1, <1>2, <1>3, <1>4, <1>5, <1>6, <1>7, <1>8, <1>9, <1>10, <1>11
  DEF Next, Work, TopUpStep, GracefulStep
-----------------------------------------------------------------------------
\* The strengthened invariant of drainWithACK.
THEOREM Invariance == Spec => []Inv
BY InitInv, NextInv, PTL DEF Spec

\* Type correctness of drainWithACK's state and of the connection.
THEOREM TypeCorrect == Spec => []TypeOK
<1>1. Inv => TypeOK
  BY DEF Inv
<1> QED BY <1>1, Invariance, PTL

\* README rule 3: with ACKs required no row is deleted before the Adapter has
\* received its deposit, whatever fails, is lost or is repeated.
THEOREM NoEarlyDelete == Spec => []NotDeletedBeforeDelivery
<1>1. Inv => NotDeletedBeforeDelivery
  BY DEF Inv
<1> QED BY <1>1, Invariance, PTL

\* The publisher in ACK mode implements the at-least-once outbox: a delivery is
\* of a pending deposit, and a row is retired only after its delivery.
THEOREM ImplementsOutbox == Spec => OutboxSpec
<1>1. Init => O!Init
  BY DEF Init, RunInit, LinkInit, O!Init
<1>2. Inv /\ [Next]_vars => [O!Next]_(O!vars)
  <2> SUFFICES ASSUME Inv, [Next]_vars PROVE O!Next \/ UNCHANGED <<buffer, delivered>>
    BY DEF O!vars
  <2>1. ASSUME NEW S \in SUBSET Deposit, Insert(S) PROVE O!Record(S)
    BY <2>1 DEF Insert, O!Record
  <2>2. ASSUME NEW d \in Deposit, Receive(d), UNCHANGED runVars
        PROVE  O!Deliver(d) \/ UNCHANGED <<buffer, delivered>>
    BY <2>2 DEF Receive, runVars, Inv, O!Deliver
  <2>3. ASSUME NEW c \in BOOLEAN, ackCh # <<>>, TakeAck(Head(ackCh), c), UNCHANGED delivered
        PROVE  O!Next \/ UNCHANGED <<buffer, delivered>>
    <3> DEFINE d == Head(ackCh)
    <3>1. d \in Deposit /\ d \in delivered
      BY <2>3 DEF Inv, TypeOK
    <3>2. buffer' = buffer \/ buffer' = buffer \ {d}
      BY <2>3 DEF TakeAck, DeleteRow, DeleteFails
    <3> HIDE DEF d
    <3>3. O!Retire(d) \/ UNCHANGED <<buffer, delivered>>
      BY <2>3, <3>1, <3>2 DEF O!Retire
    <3> QED BY <3>1, <3>3 DEF O!Next
  <2>4. CASE HandleAck \/ GracefulAck
    BY <2>3, <2>4 DEF HandleAck, GracefulAck, Inv, TypeOK, RunTypeOK
  <2>5. CASE UNCHANGED <<buffer, delivered>>
    BY <2>5
  <2>6. \/ \E S \in SUBSET Deposit : Insert(S)
        \/ \E d \in Deposit : Receive(d) /\ UNCHANGED runVars
        \/ HandleAck \/ GracefulAck \/ UNCHANGED <<buffer, delivered>>
    BY DEF Next, Arrive, Link, Work, TopUpStep, GracefulStep, AdapterStep, SendAck, ForgetAck, RepeatAck,
       Break, Dial, Shutdown, Restart, ReadAck, AckTimeout, WindowFull, Query, QueryFails,
       Send, SendFails, SendDone, GracefulEnd, PollTick, ReadError, CtxDone, DialCancelled,
       Crash, Reconnect, Exit, EndDrain, vars, linkVars, runVars, rows, link
  <2> QED BY <2>1, <2>2, <2>4, <2>5, <2>6 DEF O!Next
<1> QED BY <1>1, <1>2, Invariance, PTL DEF Spec, OutboxSpec, O!Spec
-----------------------------------------------------------------------------
(* Flow control.                                                           *)

InTransit == wire \cup owed \cup ackWire

\* Against an Adapter that acknowledges each message once, a message outstanding is in
\* one place at most, once: on its way, with the Adapter, or an ACK in the channel.  What
\* topUp is about to send is not outstanding.
FlowInv ==
  /\ IsFiniteSet(out) /\ Cardinality(out) <= MaxInFlight
  /\ todo \cap out = {}
  /\ dups = 0 =>
       /\ InTransit \subseteq out
       /\ wire \cap owed = {} /\ wire \cap ackWire = {} /\ owed \cap ackWire = {}
       /\ \A i \in 1..Len(ackCh) : ackCh[i] \in out \ InTransit
       /\ \A i, j \in 1..Len(ackCh) : ackCh[i] = ackCh[j] => i = j

\* No message, no ACK.
LEMMA FlowInit == Init => FlowInv
BY FS_EmptySet, WindowAssumption DEF Init, RunInit, LinkInit, FlowInv, InTransit

\* Nothing is outstanding after the end of a drain.
LEMMA FlowEnd ==
  ASSUME NEW label, EndDrain(label)
  PROVE  FlowInv'
BY FS_EmptySet, WindowAssumption
DEF EndDrain, Close, LoseTransit, NoLocals, FlowInv, InTransit

\* Handling an ACK takes its message out of the window.
LEMMA FlowTakeAck ==
  ASSUME TypeOK, FlowInv, ackCh # <<>>, ackCh' = Tail(ackCh), NEW c, TakeAck(Head(ackCh), c),
         UNCHANGED <<link, dups, todo>>
  PROVE  FlowInv'
<1> DEFINE d == Head(ackCh)
<1>1. ackCh \in Seq(Deposit)
  BY DEF TypeOK
<1>2. /\ Len(Tail(ackCh)) = Len(ackCh) - 1 /\ Len(ackCh) \in Nat /\ Len(ackCh) > 0
      /\ \A i \in 1..Len(Tail(ackCh)) : Tail(ackCh)[i] = ackCh[i + 1]
      /\ d = ackCh[1]
  BY <1>1, HeadTailProperties
<1>3. out' = out \ {d}
  BY DEF TakeAck
<1>4. IsFiniteSet(out') /\ Cardinality(out') <= MaxInFlight
  BY <1>3, FS_Subset, FS_CardinalityType, WindowAssumption DEF FlowInv
<1>5. UNCHANGED <<wire, owed, ackWire, dups, todo>>
  BY DEF link
<1> HIDE DEF d
<1>6. ASSUME dups = 0
      PROVE  /\ InTransit' \subseteq out'
             /\ \A i \in 1..Len(ackCh') : ackCh'[i] \in out' \ InTransit'
             /\ \A i, j \in 1..Len(ackCh') : ackCh'[i] = ackCh'[j] => i = j
  <2>1. 1 \in 1..Len(ackCh) /\ d \notin InTransit
    BY <1>2, <1>6 DEF FlowInv
  <2>2. ASSUME NEW i \in 1..Len(ackCh')
        PROVE  i + 1 \in 1..Len(ackCh) /\ ackCh'[i] = ackCh[i + 1] /\ ackCh'[i] # d
    BY <1>2, <1>6 DEF FlowInv
  <2>3. InTransit' = InTransit
    BY <1>5 DEF InTransit
  <2>4. ASSUME NEW i \in 1..Len(ackCh'), NEW j \in 1..Len(ackCh'), ackCh'[i] = ackCh'[j]
        PROVE  i = j
    BY <1>6, <2>2, <2>4 DEF FlowInv
  <2> QED BY <1>3, <1>6, <2>1, <2>2, <2>3, <2>4 DEF FlowInv
<1> QED BY <1>3, <1>4, <1>5, <1>6 DEF FlowInv

\* An ACK is moved from the connection to the channel, or dropped.
LEMMA FlowReadAck ==
  ASSUME TypeOK, FlowInv, NEW d \in Deposit, ReadAck(d)
  PROVE  FlowInv'
<1>1. ackCh \in Seq(Deposit) /\ Len(ackCh) \in Nat
  BY DEF TypeOK
<1>2. /\ d \in ackWire /\ ackWire' = ackWire \ {d}
      /\ UNCHANGED <<wire, owed, dups, out, todo>>
      /\ ackCh' = ackCh \/ ackCh' = Append(ackCh, d)
  BY DEF ReadAck
<1>3. CASE ackCh' = ackCh
  BY <1>2, <1>3 DEF FlowInv, InTransit
<1>4. CASE ackCh' = Append(ackCh, d)
  <2>1. /\ Len(ackCh') = Len(ackCh) + 1
        /\ \A i \in 1..Len(ackCh) : ackCh'[i] = ackCh[i]
        /\ ackCh'[Len(ackCh) + 1] = d
    BY <1>1, <1>4, AppendProperties
  <2>2. ASSUME dups = 0
        PROVE  /\ \A i \in 1..Len(ackCh') : ackCh'[i] \in out' \ InTransit'
               /\ \A i, j \in 1..Len(ackCh') : ackCh'[i] = ackCh'[j] => i = j
    <3>1. d \in out /\ d \notin InTransit' /\ InTransit' \subseteq InTransit
      BY <1>2, <2>2 DEF FlowInv, InTransit
    <3>2. \A i \in 1..Len(ackCh) : ackCh[i] # d
      BY <1>2, <2>2 DEF FlowInv, InTransit
    <3>3. \A i \in 1..Len(ackCh') : i \in 1..Len(ackCh) \/ i = Len(ackCh) + 1
      BY <1>1, <2>1
    <3>4. \A i \in 1..Len(ackCh') : ackCh'[i] \in out' \ InTransit'
      BY <1>2, <2>1, <2>2, <3>1, <3>3 DEF FlowInv
    <3>5. ASSUME NEW i \in 1..Len(ackCh'), NEW j \in 1..Len(ackCh'), ackCh'[i] = ackCh'[j]
          PROVE  i = j
      BY <2>1, <2>2, <3>2, <3>3, <3>5 DEF FlowInv
    <3> QED BY <3>4, <3>5
  <2> QED BY <1>2, <2>2 DEF FlowInv, InTransit
<1> QED BY <1>2, <1>3, <1>4

\* A message is sent only while the window has room, and only one not outstanding.
LEMMA FlowSend ==
  ASSUME TypeOK, FlowInv, Send
  PROVE  FlowInv'
<1> DEFINE d == First(todo)
<1>1. d \in todo
  BY FirstInSet, LinkAssumption DEF Send, TypeOK
<1>2. /\ Cardinality(out) < MaxInFlight /\ out' = out \cup {d} /\ todo' = todo \ {d}
      /\ wire' = wire \/ wire' = wire \cup {d}
      /\ UNCHANGED <<owed, ackWire, dups, ackCh>>
  BY DEF Send, Write, Window, rows
<1> HIDE DEF d
<1>3. d \notin out
  BY <1>1 DEF FlowInv
<1>4. IsFiniteSet(out') /\ Cardinality(out') = Cardinality(out) + 1
  BY <1>2, <1>3, FS_AddElement DEF FlowInv
<1>5. Cardinality(out') <= MaxInFlight
  BY <1>2, <1>4, FS_CardinalityType, WindowAssumption DEF FlowInv
<1>6. ASSUME dups = 0
      PROVE  /\ InTransit' \subseteq out'
             /\ wire' \cap owed = {} /\ wire' \cap ackWire = {}
             /\ \A i \in 1..Len(ackCh) : ackCh[i] \in out' \ InTransit'
  BY <1>2, <1>3, <1>6 DEF FlowInv, InTransit
<1> QED BY <1>2, <1>4, <1>5, <1>6 DEF FlowInv

\* Every action keeps what is outstanding within the window.
LEMMA FlowNext == TypeOK /\ FlowInv /\ [Next]_vars => FlowInv'
<1> SUFFICES ASSUME TypeOK, FlowInv, [Next]_vars PROVE FlowInv'
  OBVIOUS
<1>1. CASE UNCHANGED <<wire, owed, ackWire, dups, out, ackCh>> /\ todo' \subseteq todo
  BY <1>1 DEF FlowInv, InTransit
<1>2. CASE Query
  BY <1>2 DEF Query, linkVars, FlowInv, InTransit
<1>3. CASE Link /\ UNCHANGED local
  <2>1. CASE Break
    BY <1>3, <2>1 DEF Break, LoseTransit, local, FlowInv, InTransit
  <2>2. ASSUME NEW d \in Deposit, AdapterStep(d) PROVE FlowInv'
    <3> USE <1>3, <2>2 DEF local, FlowInv, InTransit
    <3>1. CASE Receive(d)
      BY <3>1 DEF Receive
    <3>2. CASE SendAck(d)
      BY <3>2 DEF SendAck
    <3>3. CASE ForgetAck(d)
      BY <3>3 DEF ForgetAck
    <3>4. CASE RepeatAck(d)
      <4>1. dups' # 0
        BY <3>4 DEF RepeatAck, TypeOK, RunTypeOK, LinkTypeOK
      <4> QED BY <4>1
    <3> QED BY <2>2, <3>1, <3>2, <3>3, <3>4 DEF AdapterStep
  <2> QED BY <1>3, <2>1, <2>2 DEF Link
<1>4. CASE HandleAck \/ GracefulAck
  BY <1>4, FlowTakeAck DEF HandleAck, GracefulAck
<1>5. CASE \E label : EndDrain(label)
  BY <1>5, FlowEnd
<1>6. \/ UNCHANGED <<wire, owed, ackWire, dups, out, ackCh>> /\ todo' \subseteq todo
      \/ Query \/ Send \/ HandleAck \/ GracefulAck
      \/ Link /\ UNCHANGED local
      \/ \E d \in Deposit : ReadAck(d)
      \/ \E label : EndDrain(label)
  <2>1. CASE \/ (Arrive \/ Shutdown \/ Restart \/ Dial("topup")) /\ UNCHANGED local
             \/ WindowFull \/ SendDone \/ PollTick \/ CtxDone \/ DialCancelled
             \/ UNCHANGED vars
    BY <2>1 DEF Arrive, Insert, Shutdown, Restart, Dial, Open, WindowFull, SendDone, PollTick,
       CtxDone, DialCancelled, local, vars, linkVars, link, rows
  <2>2. CASE \/ QueryFails \/ SendFails \/ ReadError \/ GracefulEnd \/ Crash
             \/ \E d \in Deposit : AckTimeout(d)
    BY <2>2 DEF QueryFails, SendFails, ReadError, GracefulEnd, Crash, AckTimeout, Reconnect, Exit
  <2>3. CASE Work
    BY <2>1, <2>2, <2>3 DEF Work, TopUpStep, GracefulStep
  <2> QED BY <2>1, <2>2, <2>3 DEF Next
<1> QED BY <1>1, <1>2, <1>3, <1>4, <1>5, <1>6, FlowSend, FlowReadAck

\* The window and the places of its messages.
THEOREM FlowInvariance == Spec => [](TypeOK /\ FlowInv)
BY FlowInit, FlowNext, TypeCorrect, PTL DEF Spec

\* The ACKs in the channel are of different messages, so they are no more than these.
LEMMA ChannelCount ==
  ASSUME TypeOK, FlowInv, dups = 0
  PROVE  LET chan == {ackCh[i] : i \in 1..Len(ackCh)}
         IN  /\ IsFiniteSet(chan) /\ Cardinality(chan) = Len(ackCh)
             /\ chan \subseteq out /\ chan \cap InTransit = {}
<1> DEFINE chan == {ackCh[i] : i \in 1..Len(ackCh)}
<1>1. ackCh \in Seq(Deposit) /\ Len(ackCh) \in Nat
  BY DEF TypeOK
<1>2. chan \subseteq out /\ chan \cap InTransit = {}
  BY DEF FlowInv
<1>3. ackCh \in [1..Len(ackCh) -> chan]
  BY <1>1
<1>4. ackCh \in Bijection(1..Len(ackCh), chan)
  BY <1>3 DEF FlowInv, Bijection, Injection, Surjection, IsInjective
<1>5. ExistsBijection(1..Len(ackCh), chan)
  BY <1>4 DEF ExistsBijection
<1>6. IsFiniteSet(1..Len(ackCh)) /\ Cardinality(1..Len(ackCh)) = Len(ackCh)
  BY <1>1, FS_Interval
<1> HIDE DEF chan
<1>7. IsFiniteSet(chan) /\ Cardinality(chan) = Len(ackCh)
  BY <1>5, <1>6, FS_Bijection
<1> QED BY <1>2, <1>7 DEF chan

\* publisher.go:398: the window bounds what is in transit and in the channel together, so
\* no ACK of an Adapter that acknowledges once is dropped by a full channel.
THEOREM WindowHolds == Spec => []FlowControl
<1>1. TypeOK /\ FlowInv => FlowControl
  <2> SUFFICES ASSUME TypeOK, FlowInv, dups = 0
               PROVE  Cardinality(InTransit) + Len(ackCh) <= MaxInFlight
    BY DEF FlowControl, InTransit
  <2> DEFINE chan == {ackCh[i] : i \in 1..Len(ackCh)}
  <2>1. /\ IsFiniteSet(chan) /\ Cardinality(chan) = Len(ackCh)
        /\ chan \subseteq out /\ chan \cap InTransit = {}
    BY ChannelCount
  <2> HIDE DEF chan
  <2>2. IsFiniteSet(out) /\ Cardinality(out) <= MaxInFlight /\ InTransit \subseteq out
    BY DEF FlowInv
  <2>3. IsFiniteSet(InTransit)
    BY <2>2, FS_Subset
  <2>4. Cardinality(InTransit \cup chan) = Cardinality(InTransit) + Cardinality(chan)
    <3>1. InTransit \cap chan = {}
      BY <2>1
    <3>2. /\ Cardinality(InTransit \cup chan)
               = Cardinality(InTransit) + Cardinality(chan) - Cardinality(InTransit \cap chan)
          /\ Cardinality(InTransit) \in Nat /\ Cardinality(chan) \in Nat
      BY <2>1, <2>3, FS_Union, FS_CardinalityType
    <3>3. Cardinality(InTransit \cap chan) = 0
      BY <3>1, FS_EmptySet
    <3> QED BY <3>2, <3>3
  <2>5. Cardinality(InTransit \cup chan) <= Cardinality(out)
    BY <2>1, <2>2, FS_Subset
  <2>6. Cardinality(out) \in Nat /\ Cardinality(InTransit) \in Nat /\ Len(ackCh) \in Nat
    BY <2>1, <2>2, <2>3, FS_CardinalityType
  <2> QED BY <2>1, <2>2, <2>4, <2>5, <2>6, WindowAssumption
<1> QED BY <1>1, FlowInvariance, PTL

\* publisher.go:265: the least row not in flight has fewer than Window rows before it, so
\* the query, which asks for the rows in flight as well, returns it.
THEOREM TopUpProgress == Spec => TopUpFindsWork
<1>1. TypeOK /\ FlowInv /\ [Next]_vars
        => [pc = "topup" /\ pc' = "send" /\ Window < MaxBatchSize /\ buffer \ out # {}
              => todo' # {}]_vars
  <2> SUFFICES ASSUME TypeOK, FlowInv, [Next]_vars, pc = "topup", pc' = "send",
                      Window < MaxBatchSize, buffer \ out # {}
               PROVE  todo' # {}
    OBVIOUS
  <2> DEFINE d == First(buffer \ out)
             before == {e \in buffer : e < d}
  <2>1. todo' = PendingAll(Limit) \ out /\ Window < MaxInFlight
    <3>1. CASE Query
      BY <3>1 DEF Query
    <3>2. CASE Link \/ Arrive \/ Shutdown \/ UNCHANGED vars
      BY <3>2 DEF Arrive, Insert, Link, Break, AdapterStep, Receive, SendAck, ForgetAck,
         RepeatAck, Shutdown, vars, runVars
    <3>3. CASE \/ Dial("topup") \/ Restart \/ WindowFull \/ Send \/ SendDone \/ HandleAck
               \/ GracefulStep \/ PollTick \/ CtxDone \/ DialCancelled
               \/ \E e \in Deposit : ReadAck(e)
      BY <3>3 DEF Dial, Restart, WindowFull, Send, SendDone, HandleAck, GracefulStep,
         GracefulAck, GracefulEnd, PollTick, CtxDone, DialCancelled, ReadAck, Goto, runVars
    <3>4. CASE QueryFails \/ SendFails \/ ReadError \/ Crash \/ \E e \in Deposit : AckTimeout(e)
      BY <3>4 DEF QueryFails, SendFails, ReadError, Crash, AckTimeout, Reconnect, Exit,
         EndDrain, Goto
    <3>5. CASE Work
      BY <3>1, <3>2, <3>3, <3>4, <3>5 DEF Work, TopUpStep
    <3> QED BY <3>2, <3>3, <3>4, <3>5 DEF Next
  <2>2. buffer \in SUBSET Nat /\ IsFiniteSet(out) /\ Window \in Nat
    BY LinkAssumption, FS_CardinalityType DEF TypeOK, RunTypeOK, FlowInv, Window
  <2>3. d \in buffer \ out /\ \A e \in buffer \ out : d <= e
    BY <2>2, FirstInSet
  <2> HIDE DEF d
  <2>4. before \subseteq out
    <3> SUFFICES ASSUME NEW e \in buffer, e < d PROVE e \in out
      OBVIOUS
    <3>1. e \in Nat /\ d \in Nat
      BY <2>2, <2>3
    <3> QED BY <2>3, <3>1
  <2>5. Cardinality(before) <= Window /\ Cardinality(before) \in Nat
    BY <2>2, <2>4, FS_Subset, FS_CardinalityType DEF Window
  <2>6. Window < Limit /\ Limit \in Nat
    BY <2>1, <2>2, WindowAssumption, BatchAssumption DEF Limit
  <2>7. Cardinality(before) < Limit
    BY <2>2, <2>5, <2>6
  <2>8. d \in PendingAll(Limit)
    BY <2>3, <2>7 DEF PendingAll
  <2> QED BY <2>1, <2>3, <2>8
<1> QED BY <1>1, FlowInvariance, PTL DEF Spec, TopUpFindsWork
=============================================================================
