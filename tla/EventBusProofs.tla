---------------------------- MODULE EventBusProofs ----------------------------
(***************************************************************************)
(* What holds of the event bus for every set of events and handlers, every *)
(* number of dispatcher threads and of switches, and both defaults.        *)
(***************************************************************************)
EXTENDS EventBus, SequenceTheorems, TLAPS

USE BusAssumption

-------------------------------------------------------------------------------
(* The inductive invariant: a thread has an event in its hands exactly     *)
(* while it handles one, every thread but the last one started is dead or  *)
(* was never started, an event in the queue, in hand or delivered was      *)
(* accepted, and what its handlers still have to run makes up for what     *)
(* they have not run.                                                      *)
Working(t) == thread[t] \in {"take", "run"}

Hands == \A t \in Threads : Working(t) <=> work[t].event # NoEvent

Accepted ==
  /\ \A i \in DOMAIN queue : publisher[queue[i]] = "queued"
  /\ \A t \in Threads : Working(t) => publisher[work[t].event] = "queued"
  /\ \A i \in DOMAIN delivered : publisher[delivered[i]] = "queued"

Owed ==
  /\ \A e \in Events : heard[e] \subseteq subscribers
  /\ \A t \in Threads : thread[t] = "run" =>
       \A h \in heard[work[t].event] :
         h \in work[t].todo \/ <<h, work[t].event>> \in ran

IInv == TypeOK /\ Hands /\ SingleDispatcher /\ Accepted /\ Owed
            /\ EveryHandlerRuns

(* set_enabled leaves the types right and no second thread alive, and      *)
(* touches no thread that has work in hand.                                *)
LEMMA SetEnabledStep ==
  ASSUME TypeOK, Hands, SingleDispatcher, NEW on \in BOOLEAN, SetEnabled(on),
         work' = work
  PROVE  /\ enabled' \in BOOLEAN /\ dispatcher' \in Threads \cup {NoThread}
         /\ thread' \in [Threads -> Pcs]
         /\ SingleDispatcher' /\ Hands'
         /\ \A t \in Threads : Working(t)' <=> Working(t)
         /\ \A t \in Threads : thread'[t] = "run" <=> thread[t] = "run"
<1>1. CASE UNCHANGED <<thread, dispatcher>>
  BY <1>1 DEF TypeOK, Hands, SingleDispatcher, Alive, Working, SetEnabled
<1>2. ASSUME dispatcher \notin Alive, NEW t \in Threads, thread[t] = "unborn",
             thread' = [thread EXCEPT ![t] = "get"], dispatcher' = t
      PROVE  /\ enabled' \in BOOLEAN /\ dispatcher' \in Threads \cup {NoThread}
             /\ thread' \in [Threads -> Pcs]
             /\ SingleDispatcher' /\ Hands'
             /\ \A u \in Threads : Working(u)' <=> Working(u)
             /\ \A u \in Threads : thread'[u] = "run" <=> thread[u] = "run"
  BY <1>2 DEF TypeOK, Hands, SingleDispatcher, Alive, Working, SetEnabled, Pcs
<1>3. QED BY <1>1, <1>2 DEF SetEnabled, StartDispatcher

(* Every step of every thread preserves the invariant.                     *)
LEMMA Step == IInv /\ [Next]_vars => IInv'
<1> SUFFICES ASSUME TypeOK, Hands, SingleDispatcher, Accepted, Owed,
                    EveryHandlerRuns, [Next]_vars
             PROVE  IInv'
  BY DEF IInv
<1> USE DEF IInv
<1>1. CASE Configure
  <2>1. SetEnabled(ConfiguredOn) /\ work' = work BY <1>1 DEF Configure
  <2>2. TypeOK' /\ Hands' /\ SingleDispatcher'
    BY <1>1, <2>1, SetEnabledStep DEF TypeOK, Configure, history
  <2>3. Accepted' /\ EveryHandlerRuns'
    BY <1>1, <2>1, SetEnabledStep DEF Configure, history, Accepted, Working,
       EveryHandlerRuns, Delivered
  <2>4. Owed'
    BY <1>1, <2>1, SetEnabledStep DEF Configure, history, Owed, TypeOK
  <2>5. QED BY <2>2, <2>3, <2>4
<1>2. ASSUME NEW on \in BOOLEAN, Switch(on) PROVE IInv'
  <2>1. SetEnabled(on) /\ work' = work BY <1>2 DEF Switch
  <2>2. TypeOK' /\ Hands' /\ SingleDispatcher'
    BY <1>2, <2>1, SetEnabledStep DEF TypeOK, Switch, history
  <2>3. Accepted' /\ EveryHandlerRuns' /\ Owed'
    BY <1>2, <2>1, SetEnabledStep DEF Switch, history, Accepted, Owed, Working,
       EveryHandlerRuns, Delivered
  <2>4. QED BY <2>2, <2>3
<1>3. ASSUME NEW h \in Handlers, Subscribe(h) PROVE IInv'
  <2>1. TypeOK' BY <1>3 DEF Subscribe, history, TypeOK
  <2>2. Hands' /\ SingleDispatcher' /\ Accepted'
    BY <1>3 DEF Subscribe, history, Hands, SingleDispatcher, Alive, Working,
       Accepted
  <2>3. Owed' BY <1>3 DEF Subscribe, history, Owed
  <2>4. EveryHandlerRuns'
    BY <1>3 DEF Subscribe, history, EveryHandlerRuns, Delivered
  <2>5. QED BY <2>1, <2>2, <2>3, <2>4
<1>4. ASSUME NEW e \in Events, PublishCheck(e) PROVE IInv'
  BY <1>4 DEF PublishCheck, history, TypeOK, Hands, SingleDispatcher, Alive,
     Working, Accepted, Owed, EveryHandlerRuns, Delivered
<1>5. ASSUME NEW e \in Events, PublishPut(e) PROVE IInv'
  <2>1. Append(queue, e) \in Seq(Events)
        /\ \A i \in DOMAIN Append(queue, e) :
             Append(queue, e)[i] = e \/ \E j \in DOMAIN queue :
                                          Append(queue, e)[i] = queue[j]
    BY AppendProperties, LenProperties DEF TypeOK
  <2>2. TypeOK' BY <1>5, <2>1 DEF PublishPut, TypeOK
  <2>3. Hands' /\ SingleDispatcher'
    BY <1>5 DEF PublishPut, Hands, SingleDispatcher, Alive, Working
  <2>4. Accepted'
    BY <1>5, <2>1 DEF PublishPut, Accepted, Working, TypeOK
  <2>5. Owed'
    BY <1>5 DEF PublishPut, Owed, Accepted, Working, TypeOK
  <2>6. EveryHandlerRuns'
    <3>1. delivered' = delivered /\ ran' = ran BY <1>5 DEF PublishPut
    <3>2. \A d \in Delivered : heard'[d] = heard[d]
      BY <1>5 DEF PublishPut, Delivered, Accepted, TypeOK
    <3>3. Delivered' = Delivered BY <3>1 DEF Delivered
    <3>4. QED BY <3>1, <3>2, <3>3 DEF EveryHandlerRuns
  <2>7. QED BY <2>2, <2>3, <2>4, <2>5, <2>6
<1>6. ASSUME NEW t \in Threads, Get(t) PROVE IInv'
  <2>1. /\ Head(queue) \in Events /\ Head(queue) = queue[1] /\ 1 \in DOMAIN queue
        /\ Tail(queue) \in Seq(Events)
        /\ \A i \in DOMAIN Tail(queue) : \E j \in DOMAIN queue :
             Tail(queue)[i] = queue[j]
    <3>1. queue \in Seq(Events) /\ queue # <<>> BY <1>6 DEF Get, TypeOK
    <3>2. \A i \in DOMAIN Tail(queue) : i + 1 \in DOMAIN queue
                                        /\ Tail(queue)[i] = queue[i + 1]
      BY <3>1, HeadTailProperties, LenProperties
    <3>3. QED BY <3>1, <3>2, HeadTailProperties, EmptySeq, LenProperties
  <2>2. TypeOK'
    <3>1. queue' \in Seq(Events) BY <1>6, <2>1 DEF Get
    <3>2. PICK e \in Events : work' = [work EXCEPT ![t].event = e]
      BY <1>6, <2>1 DEF Get
    <3>3. work' \in [Threads -> [event : Events \cup {NoEvent},
                                 todo : SUBSET Handlers]]
      BY <3>2 DEF TypeOK
    <3>4. QED BY <1>6, <3>1, <3>3 DEF Get, TypeOK, history, Pcs
  <2>3. Hands' /\ SingleDispatcher'
    BY <1>6, <2>1 DEF Get, Hands, SingleDispatcher, Alive, Working, TypeOK
  <2>4. Accepted'
    BY <1>6, <2>1 DEF Get, Accepted, Working, TypeOK, history
  <2>5. Owed' /\ EveryHandlerRuns'
    BY <1>6 DEF Get, Owed, EveryHandlerRuns, Delivered, TypeOK, history
  <2>6. QED BY <2>2, <2>3, <2>4, <2>5
<1>7. ASSUME NEW t \in Threads, GetTimesOut(t) \/ CheckEnabled(t) \/ Exit(t)
      PROVE  IInv'
  <2>1. /\ UNCHANGED <<enabled, queue, subscribers, dispatcher, work, publisher,
                     configured, offs, heard, ran, delivered>>
        /\ ~Working(t) /\ t \in Alive
        /\ \E pc \in {"empty", "get", "exit", "dead"} :
             thread' = [thread EXCEPT ![t] = pc]
    BY <1>7 DEF GetTimesOut, CheckEnabled, Exit, history, Working, Alive
  <2>2. TypeOK' BY <2>1 DEF TypeOK, Pcs
  <2>3. Hands' /\ SingleDispatcher' /\ Accepted'
    BY <2>1 DEF Hands, SingleDispatcher, Alive, Working, Accepted, TypeOK
  <2>4. Owed' BY <2>1 DEF Owed, TypeOK
  <2>5. EveryHandlerRuns' BY <2>1 DEF EveryHandlerRuns, Delivered
  <2>6. QED BY <2>2, <2>3, <2>4, <2>5
<1>8. ASSUME NEW t \in Threads, Take(t) PROVE IInv'
  <2>1. TypeOK' BY <1>8 DEF Take, history, TypeOK, Pcs
  <2>2. Hands' /\ SingleDispatcher'
    BY <1>8 DEF Take, history, Hands, SingleDispatcher, Alive, Working, TypeOK
  <2>3. Accepted' BY <1>8 DEF Take, history, Accepted, Working, TypeOK
  <2>4. Owed'
    <3>1. work[t].event \in Events BY <1>8 DEF Take, Hands, Working, TypeOK
    <3>2. QED BY <1>8, <3>1 DEF Take, history, Owed, TypeOK
  <2>5. EveryHandlerRuns' BY <1>8 DEF Take, history, EveryHandlerRuns, Delivered
  <2>6. QED BY <2>1, <2>2, <2>3, <2>4, <2>5
<1>9. ASSUME NEW t \in Threads, NEW h \in Handlers, Run(t, h) PROVE IInv'
  <2>1. work[t].event \in Events
    BY <1>9 DEF Run, Hands, Working, TypeOK
  <2>2. QED
    <3>1. TypeOK' BY <1>9, <2>1 DEF Run, TypeOK
    <3>2. Hands' /\ SingleDispatcher'
      BY <1>9 DEF Run, Hands, SingleDispatcher, Alive, Working, TypeOK
    <3>3. Accepted' BY <1>9 DEF Run, Accepted, Working, TypeOK
    <3>4. Owed' BY <1>9 DEF Run, Owed, TypeOK
    <3>5. EveryHandlerRuns' BY <1>9 DEF Run, EveryHandlerRuns, Delivered
    <3>6. QED BY <3>1, <3>2, <3>3, <3>4, <3>5
<1>10. ASSUME NEW t \in Threads, Finish(t) PROVE IInv'
  <2>1. work[t].event \in Events
    BY <1>10 DEF Finish, Hands, Working, TypeOK
  <2>2. /\ Append(delivered, work[t].event) \in Seq(Events)
        /\ \A i \in DOMAIN Append(delivered, work[t].event) :
             \/ Append(delivered, work[t].event)[i] = work[t].event
             \/ \E j \in DOMAIN delivered :
                  Append(delivered, work[t].event)[i] = delivered[j]
    BY <2>1, AppendProperties, LenProperties DEF TypeOK
  <2>3. TypeOK'
    <3>1. delivered' \in Seq(Events) BY <1>10, <2>2 DEF Finish
    <3>2. work' \in [Threads -> [event : Events \cup {NoEvent},
                                 todo : SUBSET Handlers]]
      BY <1>10 DEF Finish, TypeOK
    <3>3. QED BY <1>10, <3>1, <3>2 DEF Finish, TypeOK, Pcs
  <2>4. Hands' /\ SingleDispatcher'
    BY <1>10 DEF Finish, Hands, SingleDispatcher, Alive, Working, TypeOK
  <2>5. Accepted'
    BY <1>10, <2>2 DEF Finish, Accepted, Working, TypeOK
  <2>6. Owed' BY <1>10 DEF Finish, Owed, TypeOK
  <2>7. EveryHandlerRuns'
    BY <1>10, <2>2 DEF Finish, EveryHandlerRuns, Delivered, Owed
  <2>8. QED BY <2>3, <2>4, <2>5, <2>6, <2>7
<1>11. CASE UNCHANGED vars
  <2>1. TypeOK' BY <1>11 DEF vars, TypeOK
  <2>2. Hands' /\ SingleDispatcher' /\ Accepted' /\ Owed'
    BY <1>11 DEF vars, Hands, SingleDispatcher, Alive, Working, Accepted, Owed
  <2>3. EveryHandlerRuns' BY <1>11 DEF vars, EveryHandlerRuns, Delivered
  <2>4. QED BY <2>1, <2>2, <2>3
<1>12. QED
  BY <1>1, <1>2, <1>3, <1>4, <1>5, <1>6, <1>7, <1>8, <1>9, <1>10, <1>11
  DEF Next, Publisher, Dispatch

(* The invariant holds in every reachable state of the bus.                *)
LEMMA Inductive == Spec => []IInv
<1>1. Init => TypeOK
  <2> SUFFICES ASSUME Init PROVE TypeOK OBVIOUS
  <2>1. queue \in Seq(Events) /\ delivered \in Seq(Events) BY EmptySeq DEF Init
  <2>2. enabled \in BOOLEAN /\ configured \in BOOLEAN BY DEF Init
  <2>3. QED BY <2>1, <2>2 DEF Init, TypeOK, Pcs
<1>2. Init => Hands /\ SingleDispatcher /\ Accepted /\ Owed /\ EveryHandlerRuns
  BY DEF Init, Hands, SingleDispatcher, Alive, Accepted, Owed, Working,
     EveryHandlerRuns, Delivered
<1>3. Init => IInv BY <1>1, <1>2 DEF IInv
<1>4. QED BY <1>3, Step, PTL DEF Spec

(* The types of the bus hold in every reachable state; they are inductive  *)
(* only together with what the threads have in their hands.                *)
THEOREM TypeCorrect == Spec => []TypeOK
<1>1. IInv => TypeOK BY DEF IInv
<1>2. QED BY <1>1, Inductive, PTL

(* There is never a second dispatcher thread: is_alive, asked under the    *)
(* lock of set_enabled, is enough however often the bus is switched.       *)
THEOREM OneDispatcher == Spec => []SingleDispatcher
<1>1. IInv => SingleDispatcher BY DEF IInv
<1>2. QED BY <1>1, Inductive, PTL

(* A delivered event has been through every handler that was subscribed    *)
(* when publish() enqueued it, whichever of them raised.                   *)
THEOREM HandlersRun == Spec => []EveryHandlerRuns
<1>1. IInv => EveryHandlerRuns BY DEF IInv
<1>2. QED BY <1>1, Inductive, PTL

-------------------------------------------------------------------------------
(* Refinement: the bus implements EventChannel.                            *)

pendingOf == inHand \o queue

(* Whoever is alive is the dispatcher, so the event in hand is the one of  *)
(* the only thread that can have one.                                      *)
HandFacts ==
  /\ \A t \in Threads : Working(t) =>
       work[t].event \in Events /\ inHand = <<work[t].event>>
  /\ (\A t \in Threads : ~Working(t)) => inHand = <<>>

LEMMA InHand == IInv => HandFacts
<1> SUFFICES ASSUME IInv PROVE HandFacts OBVIOUS
<1>1. ASSUME NEW t \in Threads, Working(t)
      PROVE  t = dispatcher /\ work[t].event \in Events
  BY <1>1 DEF IInv, Working, SingleDispatcher, Alive, Hands, TypeOK
<1>2. ASSUME NEW t \in Threads, Working(t) PROVE inHand = <<work[t].event>>
  BY <1>1, <1>2 DEF inHand
<1>3. ASSUME \A t \in Threads : ~Working(t) PROVE inHand = <<>>
  BY <1>3 DEF inHand, IInv, Hands
<1>4. QED BY <1>1, <1>2, <1>3 DEF HandFacts

(* The queue behind the event in hand, as concatenations of sequences.     *)
LEMMA Queueing ==
  ASSUME NEW S, NEW q \in Seq(S), NEW e \in S
  PROVE  /\ <<>> \o q = q
         /\ <<e>> \in Seq(S) /\ <<>> \in Seq(S)
         /\ Head(<<e>> \o q) = e /\ Tail(<<e>> \o q) = q
         /\ <<e>> \o q # <<>>
         /\ \A p \in Seq(S) : p \o Append(q, e) = Append(p \o q, e)
         /\ q # <<>> => <<Head(q)>> \o Tail(q) = q
OBVIOUS

(* Every step of the bus is a step of the channel or a stutter.            *)
LEMMA ChannelStep ==
  IInv /\ IInv' /\ [Next]_vars => [Channel!Next]_<<pendingOf, delivered>>
<1> SUFFICES ASSUME IInv, IInv', [Next]_vars
             PROVE  Channel!Next \/ UNCHANGED <<pendingOf, delivered>>
  BY DEF pendingOf
<1> USE DEF pendingOf
<1>1. queue \in Seq(Events) /\ delivered \in Seq(Events) BY DEF IInv, TypeOK
<1>2. HandFacts /\ HandFacts'
  BY InHand, PTL
<1>3. inHand \in Seq(Events)
  <2>1. CASE \A t \in Threads : ~Working(t)
    BY <1>1, <1>2, <2>1, EmptySeq DEF HandFacts
  <2>2. ASSUME NEW t \in Threads, Working(t) PROVE inHand \in Seq(Events)
    <3>1. work[t].event \in Events /\ inHand = <<work[t].event>>
      BY <1>2, <2>2 DEF HandFacts
    <3>2. QED BY <1>1, <3>1, Queueing
  <2>3. QED BY <2>1, <2>2
<1>4. ASSUME \A t \in Threads : Working(t)' <=> Working(t),
             \A t \in Threads : work'[t].event = work[t].event
      PROVE  inHand' = inHand
  BY <1>2, <1>4 DEF HandFacts
<1>5. ASSUME NEW t \in Threads, t \in Alive
      PROVE  \A u \in Threads \ {t} : ~Working(u)
  BY <1>5 DEF IInv, SingleDispatcher, Alive, Working
<1>6. ASSUME Configure \/ \E on \in BOOLEAN : Switch(on)
      PROVE  UNCHANGED <<pendingOf, delivered>>
  <2>1. PICK on \in BOOLEAN : SetEnabled(on)
    BY <1>6 DEF Configure, Switch
  <2>2. work' = work /\ queue' = queue /\ delivered' = delivered
    BY <1>6 DEF Configure, Switch, history
  <2>3. \A t \in Threads : Working(t)' <=> Working(t)
    BY <2>1, <2>2, SetEnabledStep DEF IInv
  <2>4. QED BY <1>4, <2>2, <2>3
<1>7. ASSUME NEW h \in Handlers, Subscribe(h)
      PROVE  UNCHANGED <<pendingOf, delivered>>
  BY <1>4, <1>7 DEF Subscribe, history, Working
<1>8. ASSUME NEW e \in Events, PublishCheck(e)
      PROVE  UNCHANGED <<pendingOf, delivered>>
  BY <1>4, <1>8 DEF PublishCheck, history, Working
<1>9. ASSUME NEW e \in Events, PublishPut(e) PROVE Channel!Next
  <2>1. inHand' = inHand BY <1>4, <1>9 DEF PublishPut, Working
  <2>2. pendingOf' = Append(pendingOf, e)
    BY <1>1, <1>3, <1>9, <2>1, Queueing DEF PublishPut
  <2>3. delivered' = delivered BY <1>9 DEF PublishPut
  <2>4. QED BY <2>2, <2>3 DEF Channel!Next, Channel!Accept
<1>10. ASSUME NEW t \in Threads, Get(t)
       PROVE  UNCHANGED <<pendingOf, delivered>>
  <2>1. \A u \in Threads : ~Working(u)
    BY <1>5, <1>10 DEF Get, Alive, Working
  <2>2. inHand = <<>> BY <1>2, <2>1 DEF HandFacts
  <2>3. Working(t)' /\ work'[t].event = Head(queue)
    BY <1>10 DEF Get, Working, IInv, TypeOK
  <2>4. inHand' = <<Head(queue)>> BY <1>2, <2>3 DEF HandFacts
  <2>5. queue # <<>> /\ queue' = Tail(queue) /\ delivered' = delivered
    BY <1>10 DEF Get, history
  <2>6. Head(queue) \in Events BY <1>1, <2>5, HeadTailProperties
  <2>7. pendingOf' = pendingOf
    BY <1>1, <2>2, <2>4, <2>5, <2>6, Queueing
  <2>8. QED BY <2>5, <2>7
<1>11. ASSUME NEW t \in Threads, GetTimesOut(t) \/ CheckEnabled(t) \/ Exit(t)
       PROVE  UNCHANGED <<pendingOf, delivered>>
  <2>1. \A u \in Threads : Working(u)' <=> Working(u)
    BY <1>11 DEF GetTimesOut, CheckEnabled, Exit, Working, IInv, TypeOK
  <2>2. work' = work /\ queue' = queue /\ delivered' = delivered
    BY <1>11 DEF GetTimesOut, CheckEnabled, Exit, history
  <2>3. QED BY <1>4, <2>1, <2>2
<1>12. ASSUME NEW t \in Threads, Take(t) \/ \E h \in Handlers : Run(t, h)
       PROVE  UNCHANGED <<pendingOf, delivered>>
  <2>1. \A u \in Threads : Working(u)' <=> Working(u)
    BY <1>12 DEF Take, Run, Working, IInv, TypeOK
  <2>2. \A u \in Threads : work'[u].event = work[u].event
    BY <1>12 DEF Take, Run, IInv, TypeOK
  <2>3. queue' = queue /\ delivered' = delivered
    BY <1>12 DEF Take, Run, history
  <2>4. QED BY <1>4, <2>1, <2>2, <2>3
<1>13. ASSUME NEW t \in Threads, Finish(t) PROVE Channel!Next
  <2>1. Working(t) BY <1>13 DEF Finish, Working
  <2>2. work[t].event \in Events /\ inHand = <<work[t].event>>
    BY <1>2, <2>1 DEF HandFacts
  <2>3. \A u \in Threads : ~Working(u)'
    BY <1>5, <1>13 DEF Finish, Working, Alive, IInv, TypeOK
  <2>4. inHand' = <<>> BY <1>2, <2>3 DEF HandFacts
  <2>5. queue' = queue /\ delivered' = Append(delivered, work[t].event)
    BY <1>13 DEF Finish
  <2>6. /\ pendingOf # <<>> /\ Head(pendingOf) = work[t].event
        /\ pendingOf' = Tail(pendingOf)
    BY <1>1, <2>2, <2>4, <2>5, Queueing
  <2>7. QED BY <2>5, <2>6 DEF Channel!Next, Channel!Deliver
<1>14. CASE UNCHANGED vars
  BY <1>4, <1>14 DEF vars, Working
<1>15. QED
  BY <1>6, <1>7, <1>8, <1>9, <1>10, <1>11, <1>12, <1>13, <1>14
  DEF Next, Publisher, Dispatch

(* The bus implements the channel: what publish() accepted is delivered in *)
(* the order it was accepted, nothing twice and nothing lost on the way,   *)
(* while operators switch the bus off and on.                              *)
THEOREM ImplementsChannel == Spec => ChannelSpec
<1>1. Init => Channel!Init
  <2> SUFFICES ASSUME Init PROVE Channel!Init OBVIOUS
  <2>1. inHand = <<>> BY DEF Init, inHand
  <2>2. QED BY <2>1, EmptySeq, ConcatEmptySeq DEF Init, Channel!Init
<1>2. IInv /\ IInv' /\ [Next]_vars => [Channel!Next]_Channel!vars
  BY ChannelStep DEF pendingOf, Channel!vars
<1>3. QED BY <1>1, <1>2, Inductive, PTL DEF Spec, ChannelSpec, Channel!Spec

-------------------------------------------------------------------------------
(* Who serves what was accepted.  Configuration and operators decide who   *)
(* starts the dispatcher: while no one has switched the bus off, it is on  *)
(* exactly when the thread of its one start is in its loop.                *)
InLoop(t) == t \in Threads /\ thread[t] \in {"get", "empty", "take", "run"}

Starts ==
  /\ ~configured => /\ enabled = EnabledDefault /\ dispatcher = NoThread
                    /\ \A e \in Events : publisher[e] = "new"
  /\ configured /\ offs = 0 =>
       IF enabled THEN InLoop(dispatcher)
       ELSE dispatcher = NoThread /\ \A e \in Events : publisher[e] \in {"new", "dropped"}

(* What was accepted has a bus that is on and a dispatcher in its loop.    *)
AcceptedIsServed ==
  offs = 0 /\ (queue # <<>> \/ \E e \in Events : publisher[e] = "put") =>
    enabled /\ InLoop(dispatcher)

LEMMA StartsStep ==
  ASSUME ~(EnabledDefault /\ ConfiguredOn), IInv, Starts, [Next]_vars
  PROVE  Starts'
<1> USE DEF Starts, InLoop
<1>0. /\ enabled \in BOOLEAN /\ thread \in [Threads -> Pcs] /\ offs \in Nat
      /\ publisher \in [Events -> {"new", "put", "queued", "dropped"}]
      /\ SingleDispatcher /\ MaxOff \in Nat
  BY DEF IInv, TypeOK
<1>1. CASE Configure
  <2>1. /\ ~configured /\ configured' /\ SetEnabled(ConfiguredOn)
        /\ publisher' = publisher /\ enabled' = ConfiguredOn
    BY <1>1 DEF Configure, SetEnabled
  <2>2. CASE ~ConfiguredOn
    BY <2>1, <2>2 DEF SetEnabled
  <2>3. CASE ConfiguredOn /\ ~enabled
    BY <1>0, <2>1, <2>3 DEF SetEnabled, StartDispatcher, Alive
  <2>4. CASE ConfiguredOn /\ enabled
    BY <2>1, <2>4
  <2> QED BY <2>2, <2>3, <2>4
<1>2. ASSUME NEW on \in BOOLEAN, Switch(on) PROVE Starts'
  <2>1. /\ configured /\ configured' = configured /\ publisher' = publisher
        /\ enabled' = on /\ SetEnabled(on)
    BY <1>2 DEF Switch, SetEnabled
  <2>2. CASE ~on
    BY <1>0, <1>2, <2>1, <2>2 DEF Switch
  <2>3. CASE on /\ (enabled \/ offs # 0)
    BY <1>0, <1>2, <2>1, <2>3 DEF Switch, SetEnabled
  <2>4. CASE on /\ ~enabled /\ offs = 0
    BY <1>0, <2>1, <2>4 DEF SetEnabled, StartDispatcher, Alive
  <2> QED BY <2>2, <2>3, <2>4
<1>3. ASSUME NEW e \in Events, PublishCheck(e) \/ PublishPut(e) PROVE Starts'
  BY <1>0, <1>3 DEF PublishCheck, PublishPut
<1>4. ASSUME NEW t \in Threads, Dispatch(t) PROVE Starts'
  <2>1. /\ UNCHANGED <<enabled, dispatcher, publisher, configured, offs>>
        /\ thread[t] \in {"get", "empty", "exit", "take", "run"}
    BY <1>4 DEF Dispatch, Get, GetTimesOut, CheckEnabled, Exit, Take, Finish, Run, history
  <2>2. t = dispatcher
    BY <1>0, <2>1 DEF SingleDispatcher, Alive
  <2>3. CASE configured /\ offs = 0
    <3>1. enabled /\ thread[t] # "exit"
      BY <2>2, <2>3
    <3>2. thread'[t] \in {"get", "empty", "take", "run"}
      BY <1>0, <1>4, <3>1 DEF Dispatch, Get, GetTimesOut, CheckEnabled, Exit, Take, Finish, Run
    <3> QED BY <2>1, <2>2, <2>3, <3>1, <3>2
  <2>4. CASE ~(configured /\ offs = 0)
    BY <2>1, <2>2, <2>4
  <2> QED BY <2>3, <2>4
<1>5. ASSUME NEW h \in Handlers, Subscribe(h) PROVE Starts'
  BY <1>5 DEF Subscribe
<1>6. CASE UNCHANGED vars
  BY <1>6 DEF vars
<1> QED BY <1>1, <1>2, <1>3, <1>4, <1>5, <1>6 DEF Next, Publisher

(* Nothing waits in the queue without a dispatcher to take it, as long as  *)
(* no operator has switched the bus off, unless the bus is on by default   *)
(* and configured to be on: then configure() finds it on and starts none.  *)
THEOREM DispatcherServes ==
  ~(EnabledDefault /\ ConfiguredOn) => (Spec => []AcceptedIsServed)
<1> SUFFICES ASSUME ~(EnabledDefault /\ ConfiguredOn) PROVE Spec => []AcceptedIsServed
  OBVIOUS
<1>1. Init => Starts
  BY DEF Init, Starts
<1>2. IInv /\ Starts /\ [Next]_vars => Starts'
  BY StartsStep
<1>3. IInv /\ Starts => AcceptedIsServed
  <2> SUFFICES ASSUME IInv, Starts, offs = 0,
                      queue # <<>> \/ \E e \in Events : publisher[e] = "put"
               PROVE  enabled /\ InLoop(dispatcher)
    BY DEF AcceptedIsServed
  <2>1. \E e \in Events : publisher[e] \in {"put", "queued"}
    <3>1. CASE queue # <<>>
      <4>1. queue \in Seq(Events) /\ 1 \in DOMAIN queue
        BY <3>1, EmptySeq, LenProperties DEF IInv, TypeOK
      <4> QED BY <4>1 DEF IInv, Accepted
    <3> QED BY <3>1
  <2> QED BY <2>1 DEF Starts, IInv, TypeOK
<1> QED BY <1>1, <1>2, <1>3, Inductive, PTL DEF Spec

===============================================================================
