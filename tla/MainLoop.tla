------------------------------ MODULE MainLoop ------------------------------
(***************************************************************************)
(* application_main_loop: the event_loop that runs in the main thread,     *)
(* inside start().  stop() called by another thread posts a callback that  *)
(* calls stop() again; called in the main thread, hence by a callback of   *)
(* the loop, it stops and resets the loop on the spot.                     *)
(*                                                                         *)
(* So reset() replaces the io_service whose run() is still on the stack.   *)
(* Using the destroyed object is undefined; the modelled outcome is the    *)
(* one the repository's tests rely on, run() returning because its stop    *)
(* flag had been set.  (A crash ends the behaviour and adds no state.)     *)
(***************************************************************************)
EXTENDS BaseQueueredLoop

CONSTANTS
    Clients,    \* the other threads
    MaxPosts,   \* bound: calls of post() or stop() per client
    MaxStarts   \* bound: calls of start()

ASSUME ClientsFinite == IsFiniteSet(Clients)
ASSUME BoundsAssumption == MaxPosts \in Nat /\ MaxStarts \in Nat

\* A plain callback, or one that calls stop() in the main thread: the lambda
\* posted by stop(), or an application's callback that ends the program.
Kinds == {"post", "stop"}
\* What application_impl posts for a signal.
SignalKinds == {"exit", "control"}

Jobs == [by : Clients, n : 1 .. MaxPosts, kind : Kinds \cup SignalKinds]
NoJob == [n |-> 0, kind |-> "none"]
StartJob == [n |-> 0, kind |-> "start"]

VARIABLES
    isRun,      \* _is_run
    main,       \* the main thread: "out" of start(), in "run", in a callback
                \* between stop_loop and reset ("stopping"), or "notify"
    onOld,      \* run() works for an io_service that reset() has replaced
    current,    \* the callback in progress
    starts,     \* calls of start() so far
    pc,         \* each client: "idle" or "enqueue"
    call,       \* the job of each client's last call
    wiped       \* callbacks still to come whose increment a reset() erased

loopVars == <<isRun, main, onOld, current, starts>>
clientVars == <<pc, call>>
vars == <<baseVars, loopVars, clientVars, wiped>>

\* Types, with at most one undone increment per client and one for the
\* callback that called stop().
TypeOK == /\ isRunning \in BOOLEAN /\ isRun \in BOOLEAN /\ onOld \in BOOLEAN
          /\ queueSize \in 0 .. QueueModulus - 1
          /\ main \in {"out", "run", "stopping", "notify"}
          /\ current \in Jobs \cup {StartJob, NoJob}
          /\ starts \in 0 .. MaxStarts
          /\ pc \in [Clients -> {"idle", "enqueue"}]
          /\ call \in [Clients -> Jobs \cup {NoJob}]
          /\ wiped \in 0 .. Cardinality(Clients) + 1

Init == /\ InitBase
        /\ isRun = FALSE /\ main = "out" /\ onOld = FALSE
        /\ current = NoJob
        /\ starts = 0
        /\ pc = [c \in Clients |-> "idle"]
        /\ call = [c \in Clients |-> NoJob]
        /\ wiped = 0

Pending == {c \in Clients : pc[c] = "enqueue"}

(***************************************************************************)
(* Plausible faults of the operations below, one small change each.  No    *)
(* specification uses them; each shows that some property notices it.      *)
(***************************************************************************)

\* run() that ends only when the loop's io_service has nothing left to do.
RunReturnDrained ==
    /\ main = "run" /\ current = NoJob
    /\ ~service.work /\ service.q = <<>>
    /\ main' = "notify"
    /\ UNCHANGED <<baseVars, isRun, onOld, current, starts, clientVars, wiped>>

(***************************************************************************)
(* The main thread                                                         *)
(***************************************************************************)

\* start_loop, the start lambda posted, and run() entered.
Start ==
    /\ main = "out" /\ ~isRunning /\ starts < MaxStarts
    /\ isRunning' = TRUE
    /\ service' = Posted([service EXCEPT !.work = TRUE], StartJob)
    /\ CountQueue(1)
    /\ main' = "run" /\ onOld' = FALSE /\ starts' = starts + 1
    /\ UNCHANGED <<isRun, current, clientVars, wiped>>

Take ==
    /\ main = "run" /\ ~onOld /\ current = NoJob /\ CanTake(service)
    /\ current' = Head(service.q)
    /\ service' = Taken(service)
    /\ isRun' = (isRun \/ current' = StartJob)
    /\ UNCHANGED <<isRunning, queueSize, main, onOld, starts, clientVars, wiped>>

\* A callback calls stop(): event_loop::stop() up to the end of stop_loop.
StopLoop ==
    /\ main = "run" /\ current.kind = "stop" /\ isRunning
    /\ stop_loop
    /\ main' = "stopping"
    /\ UNCHANGED <<queueSize, isRun, onOld, current, starts, clientVars, wiped>>

\* There is no thread to join; reset() replaces observers and io_service.
\* The increment of the callback that is executing is erased with the rest.
StopReset ==
    /\ main = "stopping" /\ main' = "run"
    /\ reset
    /\ onOld' = TRUE
    /\ isRun' = FALSE
    /\ wiped' = Cardinality(Pending) + 1
    /\ UNCHANGED <<current, starts, clientVars>>

\* The callback returns to its wrapper, which decrements _queue_size.
Finish ==
    /\ main = "run" /\ current # NoJob
    /\ current.kind = "stop" => ~isRunning
    /\ current' = NoJob
    /\ CountQueue(-1)
    /\ UNCHANGED <<isRunning, service, isRun, main, onOld, starts, clientVars, wiped>>

RunReturn ==
    /\ main = "run" /\ current = NoJob
    /\ onOld \/ RunReturns(service)
    /\ main' = "notify"
    /\ UNCHANGED <<baseVars, isRun, onOld, current, starts, clientVars, wiped>>

\* notify_stop(), on the new and empty observer if reset() has replaced it;
\* start() returns.
NotifyStop ==
    /\ main = "notify" /\ main' = "out"
    /\ UNCHANGED <<baseVars, isRun, onOld, current, starts, clientVars, wiped>>

(***************************************************************************)
(* Other threads: post() and stop()                                        *)
(***************************************************************************)
Register(c, kind) ==
    /\ pc[c] = "idle" /\ call[c].n < MaxPosts
    /\ call' = [call EXCEPT ![c] = [by |-> c, n |-> @.n + 1, kind |-> kind]]
    /\ pc' = [pc EXCEPT ![c] = "enqueue"]
    /\ CountQueue(1)
    /\ UNCHANGED <<isRunning, service, loopVars, wiped>>

Enqueue(c) ==
    /\ pc[c] = "enqueue"
    /\ pc' = [pc EXCEPT ![c] = "idle"]
    /\ service' = Posted(service, call[c])
    /\ UNCHANGED <<isRunning, queueSize, loopVars, call, wiped>>

MainNext == Start \/ Take \/ StopLoop \/ StopReset \/ Finish
              \/ RunReturn \/ NotifyStop

Next == MainNext \/ \E c \in Clients : Enqueue(c) \/ \E kind \in Kinds : Register(c, kind)

Spec == Init /\ [][Next]_vars

\* The main thread runs on inside start(), and so does a call of post().
FairSpec == /\ Spec
            /\ WF_vars(Take) /\ WF_vars(StopLoop) /\ WF_vars(StopReset)
            /\ WF_vars(Finish) /\ WF_vars(RunReturn) /\ WF_vars(NotifyStop)
            /\ \A c \in Clients : WF_vars(Enqueue(c))

(***************************************************************************)
(* Properties                                                              *)
(***************************************************************************)
Live == Cardinality(Pending) + Len(service.q) + (IF current = NoJob THEN 0 ELSE 1)

\* _queue_size against the callbacks still to be called.  Every stop() from a
\* callback erases that callback's own increment, so that its wrapper takes
\* the counter of the reset loop below zero.
QueueSizeAccounts == queueSize = (Live - wiped) % QueueModulus
=============================================================================
