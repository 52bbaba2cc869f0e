------------------------------- MODULE EventBus -------------------------------
(***************************************************************************)
(* The in-process event bus (swarm/events.py): waiter and finish threads   *)
(* publish, one background dispatcher thread runs the handlers, operators  *)
(* switch the bus on and off while both are at work.                       *)
(*                                                                         *)
(* The module follows the events of one type: the types share the queue    *)
(* and the dispatcher and differ in their lists of handlers only.          *)
(***************************************************************************)
EXTENDS Naturals, Sequences

CONSTANTS
  Events,          \* what is published, each once, by a thread of its own
  NoEvent,
  Handlers,        \* what may be subscribed
  Threads,         \* dispatcher threads that may be created
  NoThread,
  EnabledDefault,  \* EVENT_BUS_ENABLED_DEFAULT
  ConfiguredOn,    \* event_bus_enabled in the configuration
  MaxOff           \* bound on the times an operator switches the bus off

ASSUME BusAssumption ==
  /\ NoThread \notin Threads /\ NoEvent \notin Events
  /\ EnabledDefault \in BOOLEAN /\ ConfiguredOn \in BOOLEAN
  /\ MaxOff \in Nat

VARIABLES
  enabled,      \* _enabled
  queue,        \* _queue
  subscribers,  \* _subscribers
  dispatcher,   \* _dispatcher
  thread,       \* where each dispatcher thread is
  work,         \* the event and the handlers it still has to run
  publisher,    \* where each publish() call is
  configured,   \* configure() has run
  offs,         \* times an operator switched the bus off
  heard,        \* handlers subscribed when the event was enqueued
  ran,          \* <<handler, event>> for every handler call that was made
  delivered     \* events in the order their last handler returned

vars == <<enabled, queue, subscribers, dispatcher, thread, work, publisher,
          configured, offs, heard, ran, delivered>>
history == <<heard, ran, delivered>>

Pcs == {"unborn", "get", "empty", "exit", "take", "run", "dead"}
Alive == {t \in Threads : thread[t] \notin {"unborn", "dead"}}

Init ==
  /\ enabled = EnabledDefault
  /\ queue = <<>> /\ subscribers = {}
  /\ dispatcher = NoThread
  /\ thread = [t \in Threads |-> "unborn"]
  /\ work = [t \in Threads |-> [event |-> NoEvent, todo |-> {}]]
  /\ publisher = [e \in Events |-> "new"]
  /\ configured = FALSE /\ offs = 0
  /\ heard = [e \in Events |-> {}] /\ ran = {} /\ delivered = <<>>

-------------------------------------------------------------------------------
(* Mutant: whether the dispatcher is alive is not asked.                   *)
StartDispatcherAlways ==
  \E t \in Threads :
    /\ thread[t] = "unborn"
    /\ thread' = [thread EXCEPT ![t] = "get"]
    /\ dispatcher' = t

(* _start_dispatcher: none is started while the last one is alive.         *)
StartDispatcher ==
  IF dispatcher \in Alive THEN UNCHANGED <<thread, dispatcher>>
  ELSE \E t \in Threads :
         /\ thread[t] = "unborn"
         /\ thread' = [thread EXCEPT ![t] = "get"]
         /\ dispatcher' = t

(* set_enabled, under the lock.                                            *)
SetEnabled(on) ==
  /\ enabled' = on
  /\ IF on /\ ~enabled THEN StartDispatcher ELSE UNCHANGED <<thread, dispatcher>>

(* configure: subscribe the handler of the lifecycle, then set_enabled.    *)
Configure ==
  /\ ~configured /\ configured' = TRUE
  /\ \E h \in Handlers : subscribers' = subscribers \cup {h}
  /\ SetEnabled(ConfiguredOn)
  /\ UNCHANGED <<queue, work, publisher, offs, history>>

(* POST /api/event-bus.                                                    *)
Switch(on) ==
  /\ configured
  /\ SetEnabled(on)
  /\ IF on THEN UNCHANGED offs ELSE offs < MaxOff /\ offs' = offs + 1
  /\ UNCHANGED <<queue, subscribers, work, publisher, configured, history>>

Subscribe(h) ==
  /\ configured /\ h \notin subscribers
  /\ subscribers' = subscribers \cup {h}
  /\ UNCHANGED <<enabled, queue, dispatcher, thread, work, publisher,
                 configured, offs, history>>

(* publish: the flag is read without the lock, then the event is put.      *)
PublishCheck(e) ==
  /\ configured /\ publisher[e] = "new"
  /\ publisher' = [publisher EXCEPT ![e] = IF enabled THEN "put" ELSE "dropped"]
  /\ UNCHANGED <<enabled, queue, subscribers, dispatcher, thread, work,
                 configured, offs, history>>

(* Mutant: the queue is a stack.                                           *)
PublishPutFront(e) ==
  /\ publisher[e] = "put"
  /\ publisher' = [publisher EXCEPT ![e] = "queued"]
  /\ queue' = <<e>> \o queue
  /\ heard' = [heard EXCEPT ![e] = subscribers]
  /\ UNCHANGED <<enabled, subscribers, dispatcher, thread, work, configured,
                 offs, ran, delivered>>

PublishPut(e) ==
  /\ publisher[e] = "put"
  /\ publisher' = [publisher EXCEPT ![e] = "queued"]
  /\ queue' = Append(queue, e)
  /\ heard' = [heard EXCEPT ![e] = subscribers]
  /\ UNCHANGED <<enabled, subscribers, dispatcher, thread, work, configured,
                 offs, ran, delivered>>

-------------------------------------------------------------------------------
(* _dispatch_loop.                                                         *)

Get(t) ==
  /\ thread[t] = "get" /\ queue # <<>>
  /\ queue' = Tail(queue)
  /\ work' = [work EXCEPT ![t].event = Head(queue)]
  /\ thread' = [thread EXCEPT ![t] = "take"]
  /\ UNCHANGED <<enabled, subscribers, dispatcher, publisher, configured, offs,
                 history>>

(* Mutant: the loop ends at the first empty queue.                         *)
GetTimesOutForGood(t) ==
  /\ thread[t] = "get" /\ queue = <<>>
  /\ thread' = [thread EXCEPT ![t] = "exit"]
  /\ UNCHANGED <<enabled, queue, subscribers, dispatcher, work, publisher,
                 configured, offs, history>>

GetTimesOut(t) ==
  /\ thread[t] = "get" /\ queue = <<>>
  /\ thread' = [thread EXCEPT ![t] = "empty"]
  /\ UNCHANGED <<enabled, queue, subscribers, dispatcher, work, publisher,
                 configured, offs, history>>

(* Mutant: the flag is not looked at.                                      *)
CheckEnabledNever(t) ==
  /\ thread[t] = "empty"
  /\ thread' = [thread EXCEPT ![t] = "get"]
  /\ UNCHANGED <<enabled, queue, subscribers, dispatcher, work, publisher,
                 configured, offs, history>>

CheckEnabled(t) ==
  /\ thread[t] = "empty"
  /\ thread' = [thread EXCEPT ![t] = IF enabled THEN "get" ELSE "exit"]
  /\ UNCHANGED <<enabled, queue, subscribers, dispatcher, work, publisher,
                 configured, offs, history>>

(* Between the return and the end of the thread it is still alive.         *)
Exit(t) ==
  /\ thread[t] = "exit"
  /\ thread' = [thread EXCEPT ![t] = "dead"]
  /\ UNCHANGED <<enabled, queue, subscribers, dispatcher, work, publisher,
                 configured, offs, history>>

(* The list of handlers is copied under the lock.                          *)
Take(t) ==
  /\ thread[t] = "take"
  /\ work' = [work EXCEPT ![t].todo = subscribers]
  /\ thread' = [thread EXCEPT ![t] = "run"]
  /\ UNCHANGED <<enabled, queue, subscribers, dispatcher, publisher, configured,
                 offs, history>>

(* Mutant: an exception of a handler ends the event.                       *)
RunUntilRaise(t, h) ==
  /\ thread[t] = "run" /\ h \in work[t].todo
  /\ ran' = ran \cup {<<h, work[t].event>>}
  /\ \E rest \in {work[t].todo \ {h}, {}} : work' = [work EXCEPT ![t].todo = rest]
  /\ UNCHANGED <<enabled, queue, subscribers, dispatcher, thread, publisher,
                 configured, offs, heard, delivered>>

(* One handler returns or raises: either way the next one runs. The order   *)
(* of the handlers of one event is left open.                              *)
Run(t, h) ==
  /\ thread[t] = "run" /\ h \in work[t].todo
  /\ ran' = ran \cup {<<h, work[t].event>>}
  /\ work' = [work EXCEPT ![t].todo = @ \ {h}]
  /\ UNCHANGED <<enabled, queue, subscribers, dispatcher, thread, publisher,
                 configured, offs, heard, delivered>>

Finish(t) ==
  /\ thread[t] = "run" /\ work[t].todo = {}
  /\ delivered' = Append(delivered, work[t].event)
  /\ work' = [work EXCEPT ![t].event = NoEvent]
  /\ thread' = [thread EXCEPT ![t] = "get"]
  /\ UNCHANGED <<enabled, queue, subscribers, dispatcher, publisher, configured,
                 offs, heard, ran>>

-------------------------------------------------------------------------------
Publisher(e) == PublishCheck(e) \/ PublishPut(e)

Dispatch(t) ==
  \/ Get(t) \/ GetTimesOut(t) \/ CheckEnabled(t) \/ Exit(t) \/ Take(t) \/ Finish(t)
  \/ \E h \in Handlers : Run(t, h)

Next ==
  \/ Configure
  \/ \E on \in BOOLEAN : Switch(on)
  \/ \E h \in Handlers : Subscribe(h)
  \/ \E e \in Events : Publisher(e)
  \/ \E t \in Threads : Dispatch(t)

Spec == Init /\ [][Next]_vars

(* Threads run; nobody has to switch the bus or to subscribe.              *)
Fairness ==
  /\ \A e \in Events : WF_vars(PublishPut(e))
  /\ \A t \in Threads : WF_vars(Dispatch(t))

LiveSpec == Spec /\ Fairness

-------------------------------------------------------------------------------
(* The types of the state.                                                 *)
TypeOK ==
  /\ enabled \in BOOLEAN /\ configured \in BOOLEAN
  /\ queue \in Seq(Events) /\ delivered \in Seq(Events)
  /\ subscribers \subseteq Handlers
  /\ dispatcher \in Threads \cup {NoThread}
  /\ thread \in [Threads -> Pcs]
  /\ work \in [Threads -> [event : Events \cup {NoEvent}, todo : SUBSET Handlers]]
  /\ publisher \in [Events -> {"new", "put", "queued", "dropped"}]
  /\ offs \in 0..MaxOff
  /\ heard \in [Events -> SUBSET Handlers]
  /\ ran \subseteq Handlers \X Events

(* Handlers run on a single background thread, however the bus is switched *)
(* off and on while the thread of an earlier "on" is still winding down.   *)
SingleDispatcher == Alive \subseteq {dispatcher}

(* The bus implements EventChannel: nothing accepted is lost, repeated or  *)
(* overtaken, whatever is switched meanwhile.                              *)
inHand ==
  IF dispatcher \in Threads /\ work[dispatcher].event # NoEvent
  THEN <<work[dispatcher].event>> ELSE <<>>

Channel == INSTANCE EventChannel WITH pending <- inHand \o queue
ChannelSpec == Channel!Spec

(* A delivered event has been through every handler subscribed when it was *)
(* enqueued, also when an earlier handler raised.                          *)
Delivered == {delivered[i] : i \in DOMAIN delivered}
EveryHandlerRuns ==
  \A e \in Delivered : \A h \in heard[e] : <<h, e>> \in ran

(* As long as no operator switches the bus off, what publish() accepted is *)
(* delivered.                                                              *)
AcceptedIsDelivered ==
  \A e \in Events :
    publisher[e] = "queued" ~> (e \in Delivered \/ offs > 0)

(* A bus that stays off stops its thread.                                  *)
OffStopsTheThread == <>[](~enabled) => <>[](Alive = {})
===============================================================================
