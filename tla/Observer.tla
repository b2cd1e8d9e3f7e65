------------------------------ MODULE Observer ------------------------------
(***************************************************************************)
(* The three observables: observable (observer.h), whose sinks may be      *)
(* unsubscribed, simple_observable and protected_observable                *)
(* (simple_observer.h).  Sinks subscribe, some of them with an event_loop  *)
(* to be notified in; any thread notifies.  notify_impl walks the sinks    *)
(* under the mutex, protected_notify_impl walks a copy without it; a sink  *)
(* is called directly or its call is posted to the sink's loop, depending  *)
(* on is_this_loop().                                                      *)
(*                                                                         *)
(* event_loop::is_this_loop() compares the caller with _id, which reset()  *)
(* sets to the thread that constructed or stopped the loop (Creator) and   *)
(* nothing sets to the thread that runs it.                                *)
(***************************************************************************)
EXTENDS Naturals, Sequences, FiniteSets, SequencesExt

CONSTANTS
    Threads,    \* threads that subscribe and notify
    LoopThread, \* the thread of the event_loop the sinks share
    Creator,    \* the thread that constructed that loop: its _id
    Sinks,      \* observers
    Looped,     \* those that subscribe with the loop
    NoSink,     \* the empty slot an unsubscribed sink leaves
    NoThread,   \* nobody has the mutex
    MaxEvents,  \* bound: calls of notify()
    MaxSlots    \* bound: slots of _observers, which never shrinks

ASSUME ObserverAssumption ==
    /\ LoopThread \in Threads /\ Creator \in Threads /\ NoThread \notin Threads
    /\ Looped \subseteq Sinks /\ NoSink \notin Sinks
    /\ MaxEvents \in Nat /\ MaxSlots \in Nat

Events == 1 .. MaxEvents

VARIABLES
    kind,       \* which of the three
    observers,  \* _observers: a sink or NoSink per slot
    guard,      \* who has _guard_for_observers
    walk,       \* per thread: the notification it is in
    event,      \* the number of notifications begun
    queue,      \* calls posted to the loop: <<sink, event>>
    due,        \* how often a sink was subscribed when an event was notified
    aborted,    \* events whose notify() ended with an exception
    got         \* how often a sink has got an event

vars == <<kind, observers, guard, walk, event, queue, due, aborted, got>>

Subscribed == Range(observers) \ {NoSink}
NoWalk == [slot |-> 0]

is_this_loop(t) == t = Creator

\* The slots a notification goes through: the vector itself, under the mutex, or
\* the copy.
Slots(t) == IF kind = "protected" THEN walk[t].copy ELSE observers
Walking(t) == walk[t].slot # 0
AtSlot(t) == Walking(t) /\ walk[t].slot \in DOMAIN Slots(t)
Sink(t) == Slots(t)[walk[t].slot]

\* p_el && !p_el->is_this_loop(): post; otherwise the sink is called.
Posts(t) == Sink(t) \in Looped /\ ~is_this_loop(t)

(***************************************************************************)
(* Plausible faults of the operations below, one small change each.  No    *)
(* specification uses them; each shows that some property notices it.      *)
(***************************************************************************)

\* unsubscribe() that erases the slot although a notification is under way.
UnsubscribeErases(s) ==
    /\ kind = "observable" /\ s \in Subscribed
    /\ observers' = SelectSeq(observers, LAMBDA x : x # s)
    /\ UNCHANGED <<kind, guard, walk, event, queue, due, aborted, got>>

(***************************************************************************)
(* Operations                                                              *)
(***************************************************************************)
Init == /\ kind \in {"observable", "simple", "protected"}
        /\ observers = <<>> /\ guard = NoThread
        /\ walk = [t \in Threads |-> NoWalk]
        /\ event = 0 /\ queue = <<>>
        /\ due = [e \in Events |-> [s \in Sinks |-> 0]] /\ aborted = {}
        /\ got = [s \in Sinks |-> [e \in Events |-> 0]]

\* observable::subscribe_impl(on): a sink that is there already keeps its slot;
\* a new one gets a new slot, empty slots are not used again.
Subscribe(s) ==
    /\ kind = "observable" /\ guard = NoThread
    /\ s \notin Subscribed /\ Len(observers) < MaxSlots
    /\ observers' = Append(observers, s)
    /\ UNCHANGED <<kind, guard, walk, event, queue, due, aborted, got>>

\* subscribe_impl(off): the slot is emptied.
Unsubscribe(s) ==
    /\ kind = "observable" /\ guard = NoThread
    /\ s \in Subscribed
    /\ observers' = [i \in DOMAIN observers |->
                        IF observers[i] = s THEN NoSink ELSE observers[i]]
    /\ UNCHANGED <<kind, guard, walk, event, queue, due, aborted, got>>

\* simple_observable::subscribe_impl: every call adds an observer, also from a
\* sink of a protected_observable that is being notified.
SubscribeAgain(s) ==
    /\ kind # "observable" /\ guard = NoThread
    /\ Len(observers) < MaxSlots
    /\ observers' = Append(observers, s)
    /\ UNCHANGED <<kind, guard, walk, event, queue, due, aborted, got>>

\* A notification takes the mutex.  async: notify(), or notify_ref(), which must
\* not post.
Notify(t, async, slots) ==
    /\ guard = NoThread /\ ~Walking(t) /\ event < MaxEvents
    /\ event' = event + 1
    /\ walk' = [walk EXCEPT ![t] = [slot |-> 1, event |-> event', async |-> async,
                                    copy |-> slots]]
    /\ due' = [due EXCEPT ![event'] = [s \in Sinks |->
                  Cardinality({i \in DOMAIN observers : observers[i] = s})]]
    /\ UNCHANGED <<kind, observers, queue, aborted, got>>

\* notify_impl keeps the mutex for the whole walk ...
NotifyBegin(t) == /\ kind # "protected" /\ \E async \in {TRUE, kind = "observable"} : Notify(t, async, <<>>)
                  /\ guard' = t

\* ... protected_notify_impl releases it once it has copied the observers.
ProtectedNotifyBegin(t) == /\ kind = "protected" /\ \E async \in BOOLEAN : Notify(t, async, observers)
                           /\ UNCHANGED guard

\* notify_item_impl: a sink gets the event.
CallSink(s, e) == got' = [got EXCEPT ![s][e] = @ + 1]

NextSlot(t) == walk' = [walk EXCEPT ![t].slot = @ + 1]

SkipSlot(t) ==
    /\ AtSlot(t) /\ Sink(t) = NoSink
    /\ NextSlot(t)
    /\ UNCHANGED <<kind, observers, guard, event, queue, due, aborted, got>>

PostSlot(t) ==
    /\ AtSlot(t) /\ Posts(t) /\ walk[t].async
    /\ queue' = Append(queue, <<Sink(t), walk[t].event>>)
    /\ NextSlot(t)
    /\ UNCHANGED <<kind, observers, guard, event, due, aborted, got>>

CallSlot(t) ==
    /\ AtSlot(t) /\ Sink(t) # NoSink /\ ~Posts(t)
    /\ CallSink(Sink(t), walk[t].event)
    /\ NextSlot(t)
    /\ UNCHANGED <<kind, observers, guard, event, queue, due, aborted>>

\* The walk is over; the mutex is released if it was held.
Leave(t) == /\ walk' = [walk EXCEPT ![t] = NoWalk]
            /\ guard' = IF guard = t THEN NoThread ELSE guard

\* A sink that is called directly throws, for one because it calls back into a
\* simple observable ("Owner try to relock"), or one that would have to be
\* posted cannot ("Async mode is not allowed"): the rest is not notified.
SinkThrows(t) ==
    /\ AtSlot(t) /\ Sink(t) # NoSink /\ (Posts(t) => ~walk[t].async)
    /\ aborted' = aborted \cup {walk[t].event}
    /\ Leave(t)
    /\ UNCHANGED <<kind, observers, event, queue, due, got>>

NotifyEnd(t) ==
    /\ Walking(t) /\ ~AtSlot(t)
    /\ Leave(t)
    /\ UNCHANGED <<kind, observers, event, queue, due, aborted, got>>

\* The loop executes a posted call.  (While its thread is itself inside
\* notify() it does not.)
LoopRuns ==
    /\ queue # <<>> /\ ~Walking(LoopThread)
    /\ CallSink(Head(queue)[1], Head(queue)[2])
    /\ queue' = Tail(queue)
    /\ UNCHANGED <<kind, observers, guard, walk, event, due, aborted>>

Next == \/ \E s \in Sinks : Subscribe(s) \/ Unsubscribe(s) \/ SubscribeAgain(s)
        \/ \E t \in Threads :
              \/ NotifyBegin(t) \/ ProtectedNotifyBegin(t)
              \/ SkipSlot(t) \/ PostSlot(t) \/ CallSlot(t) \/ SinkThrows(t) \/ NotifyEnd(t)
        \/ LoopRuns

Spec == Init /\ [][Next]_vars

(***************************************************************************)
(* Properties                                                              *)
(***************************************************************************)
Queued(s, e) == Cardinality({i \in DOMAIN queue : queue[i] = <<s, e>>})
UnderWay(e) == \E t \in Threads : Walking(t) /\ walk[t].event = e

\* Every sink gets an event as often as it was subscribed when the event was
\* notified, called or posted, unless a sink before it threw: never more often,
\* whatever subscribes and unsubscribes meanwhile, also when several threads walk
\* the sinks of a protected_observable at a time.
NotifiedOnce == \A s \in Sinks, e \in 1 .. event :
    LET n == got[s][e] + Queued(s, e) IN
    /\ n <= due[e][s]
    /\ ~UnderWay(e) /\ e \notin aborted => n = due[e][s]
=============================================================================
