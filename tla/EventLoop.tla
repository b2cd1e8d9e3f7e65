----------------------------- MODULE EventLoop -----------------------------
(***************************************************************************)
(* event_loop in its own thread: an owner starts and stops the loop, any   *)
(* number of times, while clients post callbacks, post delayed callbacks,  *)
(* wait for a callback (wait, wait_result without timeout) or wait for the *)
(* loop to have started (wait()).                                          *)
(*                                                                         *)
(* post() is two steps, the increment of _queue_size and the hand-over to  *)
(* whatever io_service the loop has by then: stop() may come in between.   *)
(* The strand adds nothing here: one thread runs the io_service.           *)
(***************************************************************************)
EXTENDS BaseQueueredLoop

CONSTANTS
    Clients,    \* threads that use the loop
    Owner,      \* the thread that starts and stops it
    MaxPosts,   \* bound, for each client: its calls of post, wait ...
    MaxStarts   \* bound: calls of start()

ASSUME BoundsAssumption == MaxPosts \in [Clients -> Nat] /\ MaxStarts \in Nat
\* A process has finitely many threads.
ASSUME ThreadsAssumption == IsFiniteSet(Clients) /\ Owner \notin Clients

\* post(callback); post(duration, callback) with a positive duration and with
\* one below a millisecond; wait and wait_result; wait().
Kinds == {"post", "delayed", "zero", "wait", "started"}

StartJob == [by |-> Owner, n |-> 0, kind |-> "start"]
NoJob == [by |-> Owner, n |-> 0, kind |-> "none"]

VARIABLES
    isRun,      \* _is_run
    thread,     \* the loop's thread: "none", "run" (io_service::run),
                \* "notify" (run() has returned) or "exited"
    current,    \* the callback the thread is executing
    owner,      \* the owner: "idle", "starting" or "stopping"
    starts,     \* calls of start() so far
    pc,         \* each client: "idle", "enqueue", "blocked" or "waited"
    call,       \* the job of the call each client makes, or made last
    lastRan,    \* the last call of each client whose callback was invoked
    onStart, onStop,    \* notifications of the observers since the last reset
    leaked,     \* increments of _queue_size that no callback will undo
    wiped       \* callbacks still to come whose increment a reset() erased

loopVars  == <<isRun, thread, current>>
ownerVars == <<owner, starts>>
clientVars == <<pc, call>>
ghostVars == <<lastRan, onStart, onStop, leaked, wiped>>
vars == <<baseVars, loopVars, ownerVars, clientVars, ghostVars>>

Init == /\ InitBase
        /\ isRun = FALSE
        /\ thread = "none"
        /\ current = NoJob
        /\ owner = "idle"
        /\ starts = 0
        /\ pc = [c \in Clients |-> "idle"]
        /\ call = [c \in Clients |-> NoJob]
        /\ lastRan = [c \in Clients |-> 0]
        /\ onStart = 0 /\ onStop = 0
        /\ leaked = 0 /\ wiped = 0

Goto(c, l) == pc' = [pc EXCEPT ![c] = l]

Pending == {c \in Clients : pc[c] = "enqueue"}

(***************************************************************************)
(* Plausible faults of the operations below, one small change each.  No    *)
(* specification uses them; each shows that some property notices it.      *)
(***************************************************************************)

\* A plain post() that goes through a timer, as the delayed one does.
EnqueueByTimer(c) ==
    /\ pc[c] = "enqueue"
    /\ \/ /\ call[c].kind # "zero"
          /\ service' = [service EXCEPT !.timers = @ \cup {call[c]}]
          /\ UNCHANGED leaked
       \/ /\ call[c].kind = "zero"
          /\ leaked' = leaked + 1
          /\ UNCHANGED service
    /\ Goto(c, IF call[c].kind \in {"wait", "started"} THEN "blocked" ELSE "idle")
    /\ UNCHANGED <<isRunning, queueSize, loopVars, ownerVars, call, lastRan,
                   onStart, onStop, wiped>>

(***************************************************************************)
(* The owner: start() and stop()                                           *)
(***************************************************************************)
StartLoop ==
    /\ owner = "idle" /\ ~isRunning
    /\ starts < MaxStarts
    /\ start_loop
    /\ owner' = "starting" /\ starts' = starts + 1
    /\ UNCHANGED <<queueSize, loopVars, clientVars, ghostVars>>

\* The start lambda is posted like any callback, then the thread is created.
StartThread ==
    /\ owner = "starting" /\ owner' = "idle"
    /\ CountQueue(1)
    /\ service' = Posted(service, StartJob)
    /\ thread' = "run"
    /\ UNCHANGED <<isRunning, isRun, current, starts, clientVars, ghostVars>>

StopLoop ==
    /\ owner = "idle" /\ isRunning
    /\ stop_loop
    /\ owner' = "stopping"
    /\ UNCHANGED <<queueSize, loopVars, starts, clientVars, ghostVars>>

\* _thread->join() returns, then reset(): new observers, io_service, strand.
StopReset ==
    /\ owner = "stopping" /\ thread = "exited" /\ owner' = "idle"
    /\ reset
    /\ isRun' = FALSE /\ thread' = "none"
    /\ onStart' = 0 /\ onStop' = 0 /\ leaked' = 0
    /\ wiped' = Cardinality(Pending)
    /\ UNCHANGED <<current, starts, clientVars, lastRan>>

(***************************************************************************)
(* The clients: post, wait and wait_result                                 *)
(***************************************************************************)

\* register_queue
Register(c, kind) ==
    /\ pc[c] = "idle" /\ call[c].n < MaxPosts[c]
    /\ call' = [call EXCEPT ![c] = [by |-> c, n |-> @.n + 1, kind |-> kind]]
    /\ CountQueue(1)
    /\ Goto(c, "enqueue")
    /\ UNCHANGED <<isRunning, service, loopVars, ownerVars, ghostVars>>

Call(c) == \E kind \in Kinds \ {"started"} : Register(c, kind)

\* wait(): if (!is_running()) wait([]() {});
WaitStarted(c) ==
    \/ ~isRunning /\ Register(c, "started")
    \/ /\ isRunning
       /\ pc[c] = "idle" /\ call[c].n < MaxPosts[c]
       /\ call' = [call EXCEPT ![c] = [by |-> c, n |-> @.n + 1, kind |-> "started"]]
       /\ Goto(c, "waited")
       /\ UNCHANGED <<baseVars, loopVars, ownerVars, ghostVars>>

\* service()->post, or the timer, of the call that was registered.  A wait
\* then blocks on its promise.  A duration of zero milliseconds fails its
\* assertion only now, after register_queue.
Enqueue(c) ==
    /\ pc[c] = "enqueue"
    /\ \/ /\ call[c].kind \in {"post", "wait", "started"}
          /\ service' = Posted(service, call[c])
          /\ UNCHANGED leaked
       \/ /\ call[c].kind = "delayed"
          /\ service' = [service EXCEPT !.timers = @ \cup {call[c]}]
          /\ UNCHANGED leaked
       \/ /\ call[c].kind = "zero"
          /\ leaked' = leaked + 1
          /\ UNCHANGED service
    /\ Goto(c, IF call[c].kind \in {"wait", "started"} THEN "blocked" ELSE "idle")
    /\ UNCHANGED <<isRunning, queueSize, loopVars, ownerVars, call, lastRan,
                   onStart, onStop, wiped>>

\* The caller of wait() goes on.
Waited(c) ==
    /\ pc[c] = "waited"
    /\ Goto(c, "idle")
    /\ UNCHANGED <<baseVars, loopVars, ownerVars, call, ghostVars>>

(***************************************************************************)
(* The loop's thread: base_queuered_loop::run                              *)
(***************************************************************************)

\* The next callback begins.  The start lambda sets _is_run first.
Take ==
    /\ thread = "run" /\ current = NoJob /\ CanTake(service)
    /\ current' = Head(service.q)
    /\ service' = Taken(service)
    /\ isRun' = (isRun \/ current' = StartJob)
    /\ lastRan' = IF current'.kind \in {"start", "delayed"} THEN lastRan
                  ELSE [lastRan EXCEPT ![current'.by] = current'.n]
    /\ UNCHANGED <<isRunning, queueSize, thread, ownerVars, clientVars,
                   onStart, onStop, leaked, wiped>>

\* The callback ends (the start lambda with notify_start, a waited one with
\* set_value) and its wrapper decrements _queue_size.
Finish ==
    /\ current # NoJob /\ current' = NoJob
    /\ CountQueue(-1)
    /\ onStart' = onStart + (IF current = StartJob THEN 1 ELSE 0)
    /\ pc' = [c \in Clients |->
                IF pc[c] = "blocked" /\ call[c] = current
                THEN IF current.kind = "started" THEN "waited" ELSE "idle"
                ELSE pc[c]]
    /\ UNCHANGED <<isRunning, service, isRun, thread, ownerVars, call, lastRan,
                   onStop, leaked, wiped>>

TimerFires ==
    /\ thread = "run" /\ ~service.stopped
    /\ \E job \in service.timers : service' = TimerExpired(service, job)
    /\ UNCHANGED <<isRunning, queueSize, loopVars, ownerVars, clientVars, ghostVars>>

\* io_service::run() returns
RunReturn ==
    /\ thread = "run" /\ current = NoJob /\ RunReturns(service)
    /\ thread' = "notify"
    /\ UNCHANGED <<baseVars, isRun, current, ownerVars, clientVars, ghostVars>>

NotifyStop ==
    /\ thread = "notify" /\ thread' = "exited"
    /\ onStop' = onStop + 1
    /\ UNCHANGED <<baseVars, isRun, current, ownerVars, clientVars, lastRan,
                   onStart, leaked, wiped>>

ThreadNext == Take \/ Finish \/ TimerFires \/ RunReturn \/ NotifyStop

OwnerNext == StartLoop \/ StartThread \/ StopLoop \/ StopReset

ClientNext(c) == Call(c) \/ WaitStarted(c) \/ Enqueue(c) \/ Waited(c)

Next == ThreadNext \/ OwnerNext \/ \E c \in Clients : ClientNext(c)

Spec == Init /\ [][Next]_vars

(***************************************************************************)
(* Properties                                                              *)
(***************************************************************************)
Executing == IF current = NoJob THEN 0 ELSE 1
InService == Len(service.q) + Cardinality(service.timers)
Live == Cardinality(Pending) + InService + Executing

\* _queue_size is the number of registered callbacks that have not finished,
\* plus the increments leaked by post(0ms, ...), less those of posts that a
\* reset() overtook between their two steps: such a callback is still
\* called, and drives the counter below zero, to 2^64 - 1.
QueueSizeAccounts == queueSize = (Live + leaked - wiped) % QueueModulus

InvokedStep ==
    /\ \A c \in Clients :
          /\ lastRan'[c] >= lastRan[c]
          /\ current' # current /\ current'.by = c /\ current'.kind # "delayed"
                => current'.n > lastRan[c]
    /\ onStop = 1 /\ onStop' = 1 => current' = current
    /\ owner = "stopping" /\ owner' = "idle" => onStop = 1 /\ current = NoJob

\* "Multiple invokes are executed in queue": the callbacks one client posts
\* are invoked in the order of its calls, each at most once, also when they
\* are posted before start() or while the loop is stopping.  The on_stop
\* callbacks come last: nothing begins or ends on the loop from notify_stop to
\* the reset, and stop() does not return without them.
InvokedInOrder == [][InvokedStep]_vars

Queued(c) == \E i \in 1 .. Len(service.q) : service.q[i] = call[c]

\* Calls return: a thread that waits for a callback in the queue of the running
\* loop goes on unless the loop is stopped, and stop() returns, since run()
\* leaves its handlers behind however many are queued.
CallsReturn ==
    /\ \A c \in Clients : pc[c] = "blocked" /\ isRunning /\ Queued(c)
                            ~> pc[c] # "blocked" \/ ~isRunning
    /\ owner = "stopping" ~> owner = "idle"
=============================================================================
