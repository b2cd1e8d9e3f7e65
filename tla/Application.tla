---------------------------- MODULE Application ----------------------------
(***************************************************************************)
(* application_impl: run() starts a thread for the signals, enters the     *)
(* main loop (MainLoop) and, when the loop has ended, joins that thread.   *)
(* All signals are blocked but in the signal thread, which waits for one   *)
(* at a time, records it in the one slot last_signal_data and handles what *)
(* it finds in the slot: an exit signal calls the exit observers in the    *)
(* main loop, waits for them and stops the loop; a control signal is       *)
(* posted to the loop.  A fail signal is handled by the thread it hits.    *)
(***************************************************************************)
EXTENDS MainLoop

CONSTANTS
    MaxSignals,     \* bound: signals sent to the process
    MaxUserPosts    \* bound: calls of loop().post() or stop() by a thread

Signal == "signal"  \* the signal thread among the Clients of the main loop
ASSUME ClientsAssumption == Signal \in Clients /\ Clients \cap {"none", "asked", "earlier"} = {}
ASSUME SignalBounds == MaxSignals \in Nat /\ MaxUserPosts \in Nat

VARIABLES
    app,         \* the main thread: "created", "ready", in run() at "init", "loop",
                 \* "ended", "join" or "notify"; or the process "exited" or "crashed"
    sig,         \* the signal thread, see SignalSteps
    initiated,   \* _signal_thread_initiated
    terminating, \* _signal_thread_terminating
    slot,        \* last_signal_data.type
    pending,     \* blocked signals that wait to be taken: "term" or "usr"
    sent,        \* signals sent
    failing,     \* a fail signal: "no" or "caught"
    exitCode,    \* _exit_code is not 0
    exitSub,     \* _exit_observer has a subscriber
    controlSub,  \* _control_observer has one
    exitCalls,   \* times _exit_observer was notified in this run
    stopper      \* whose stop() ended the loop; before that "none", or "asked" when
                 \* the signal thread of this run has called stop()

appVars == <<app, sig, initiated, terminating, slot, pending, sent, failing, exitCode,
             exitSub, controlSub, exitCalls, stopper>>
allVars == <<vars, appVars>>

SignalSteps == {"none", "started", "wait", "handle", "control", "exit", "exitPost",
                "exitWait", "stop", "stopPost", "ended"}

\* What last_signal_data tells of the signal it was written for.
SignalData == {"null", "fail", "exit", "usersignal"}

AppInit ==
    /\ Init
    /\ app = "created" /\ sig = "none" /\ initiated = FALSE /\ terminating = FALSE
    /\ slot = "null" /\ pending = {} /\ sent = 0 /\ failing = "no"
    /\ exitCode = FALSE /\ exitSub = FALSE /\ controlSub = FALSE
    /\ exitCalls = 0 /\ stopper = "none"

Up == app \notin {"exited", "crashed"}
InRun == app \in {"init", "loop", "ended", "join", "notify"}
NotifyExit == exitCalls' = IF exitCalls < 2 THEN exitCalls + 1 ELSE exitCalls

\* The signal thread goes on with step.
Goes(step) ==
    /\ sig' = step
    /\ UNCHANGED <<app, initiated, sent, failing, exitSub, controlSub, exitCalls, stopper>>

(***************************************************************************)
(* Plausible faults of the operations below, one small change each.  No    *)
(* specification uses them; each shows that some property notices it.      *)
(***************************************************************************)

\* run() that does not wake the signal thread.
AfterLoopNoSignal ==
    /\ app = "ended"
    /\ app' = IF terminating THEN "join" ELSE "notify"
    /\ UNCHANGED <<vars, sig, initiated, terminating, slot, pending, sent, failing, exitCode,
                   exitSub, controlSub, exitCalls, stopper>>

\* run() that notifies the exit observers whoever stopped the loop.
ReturnNotifies ==
    /\ app \in {"join", "notify"} /\ sig = "ended"
    /\ NotifyExit
    /\ app' = IF exitCode THEN "exited" ELSE "ready"
    /\ initiated' = FALSE /\ terminating' = FALSE /\ sig' = "none"
    /\ UNCHANGED <<vars, slot, pending, sent, failing, exitCode, exitSub, controlSub, stopper>>

\* process_exit that leaves it to the callback to stop the application.
ExitWaitedOnly ==
    /\ Up /\ sig = "exitWait" /\ exitCalls > 0 /\ Goes("ended")
    /\ UNCHANGED <<vars, terminating, slot, pending, exitCode>>

(***************************************************************************)
(* The main thread                                                         *)
(***************************************************************************)

\* init(), before any other thread exists: signals are blocked from here on.
init ==
    /\ app = "created" /\ app' = "ready"
    /\ UNCHANGED <<vars, sig, initiated, terminating, slot, pending, sent, failing, exitCode,
                   exitSub, controlSub, exitCalls, stopper>>

on_exit ==
    /\ app = "ready" /\ ~isRunning /\ ~exitSub /\ exitSub' = TRUE
    /\ UNCHANGED <<vars, app, sig, initiated, terminating, slot, pending, sent, failing,
                   exitCode, controlSub, exitCalls, stopper>>
on_control ==
    /\ app = "ready" /\ ~isRunning /\ ~controlSub /\ controlSub' = TRUE
    /\ UNCHANGED <<vars, app, sig, initiated, terminating, slot, pending, sent, failing,
                   exitCode, exitSub, exitCalls, stopper>>

\* run(): the signal thread is started ...
Run ==
    /\ app = "ready" /\ ~isRunning /\ starts < MaxStarts
    /\ app' = "init" /\ sig' = "started" /\ exitCalls' = 0 /\ stopper' = "none"
    /\ UNCHANGED <<vars, initiated, terminating, slot, pending, sent, failing, exitCode,
                   exitSub, controlSub>>

\* ... and waited for, and the main loop entered.
EnterLoop ==
    /\ app = "init" /\ initiated /\ app' = "loop"
    /\ Start
    /\ UNCHANGED <<sig, initiated, terminating, slot, pending, sent, failing, exitCode,
                   exitSub, controlSub, exitCalls, stopper>>

\* The loop's own steps.
LoopStep ==
    /\ app = "loop"
    /\ Take \/ StopReset \/ RunReturn
    /\ UNCHANGED appVars
\* A stop() that an earlier run's signal thread posted too late ends this run.
LoopStops ==
    /\ app = "loop" /\ StopLoop
    /\ stopper' = IF current.by = Signal /\ stopper # "asked" THEN "earlier" ELSE current.by
    /\ UNCHANGED <<app, sig, initiated, terminating, slot, pending, sent, failing, exitCode,
                   exitSub, controlSub, exitCalls>>
\* A callback returns; the one of process_exit has notified the exit observers.
CallbackReturns ==
    /\ app = "loop" /\ Finish
    /\ IF current.kind = "exit" THEN NotifyExit ELSE UNCHANGED exitCalls
    /\ UNCHANGED <<app, sig, initiated, terminating, slot, pending, sent, failing, exitCode,
                   exitSub, controlSub, stopper>>
\* start() returns.
LeaveLoop ==
    /\ app = "loop" /\ app' = "ended" /\ NotifyStop
    /\ UNCHANGED <<sig, initiated, terminating, slot, pending, sent, failing, exitCode,
                   exitSub, controlSub, exitCalls, stopper>>

\* The signal thread is joined; one that is not terminating is sent SIGTERM
\* first, and then the exit observers are to be notified here.
AfterLoop ==
    /\ app = "ended"
    /\ app' = IF terminating THEN "join" ELSE "notify"
    /\ pending' = IF terminating \/ sig = "ended" THEN pending ELSE pending \cup {"term"}
    /\ UNCHANGED <<vars, sig, initiated, terminating, slot, sent, failing, exitCode, exitSub,
                   controlSub, exitCalls, stopper>>

\* Joined: cleanup(), and run() returns, or the process exits with a code.
Return ==
    /\ app \in {"join", "notify"} /\ sig = "ended"
    /\ IF app = "notify" THEN NotifyExit ELSE UNCHANGED exitCalls
    /\ app' = IF exitCode THEN "exited" ELSE "ready"
    /\ initiated' = FALSE /\ terminating' = FALSE /\ sig' = "none"
    /\ UNCHANGED <<vars, slot, pending, sent, failing, exitCode, exitSub, controlSub, stopper>>

(***************************************************************************)
(* The signal thread                                                       *)
(***************************************************************************)
\* _signal_thread_initiated is set.
SignalThreadStarts ==
    /\ Up /\ sig = "started" /\ sig' = "wait" /\ initiated' = TRUE
    /\ UNCHANGED <<vars, app, terminating, slot, pending, sent, failing, exitCode, exitSub,
                   controlSub, exitCalls, stopper>>

\* A pending signal is taken; process_signal writes the slot.
WaitSignal ==
    /\ Up /\ sig = "wait" /\ Goes("handle")
    /\ \E s \in pending : /\ pending' = pending \ {s}
                          /\ slot' = IF s = "term" THEN "exit" ELSE "usersignal"
    /\ UNCHANGED <<vars, terminating, exitCode>>

\* A control signal is posted if somebody has subscribed.
process_control ==
    IF controlSub THEN Register(Signal, "control") /\ Goes("control")
    ELSE Goes("wait") /\ UNCHANGED vars

\* process_handler, by what the slot holds now.
process_handler ==
    /\ Up /\ sig = "handle"
    /\ \/ /\ slot = "exit" /\ terminating' = TRUE
          /\ Goes("exit") /\ UNCHANGED vars
       \/ slot = "usersignal" /\ process_control /\ UNCHANGED terminating
       \/ slot = "fail" /\ Goes("wait") /\ UNCHANGED <<vars, terminating>>
    /\ UNCHANGED <<slot, pending, exitCode>>

\* process_exit: nothing unless the main loop is running.
process_exit ==
    /\ Up /\ sig = "exit"
    /\ IF ~isRunning THEN Goes("ended") /\ UNCHANGED vars
       ELSE IF exitSub THEN Register(Signal, "exit") /\ Goes("exitPost")
       ELSE Goes("stop") /\ UNCHANGED vars
    /\ UNCHANGED <<terminating, slot, pending, exitCode>>

\* wait() of the loop returns when the exit callback has.
ExitWaited ==
    /\ Up /\ sig = "exitWait" /\ exitCalls > 0 /\ Goes("stop")
    /\ UNCHANGED <<vars, terminating, slot, pending, exitCode>>

\* stop(128 + signo)
SignalStop ==
    /\ Up /\ sig = "stop" /\ sig' = "stopPost" /\ Register(Signal, "stop")
    /\ exitCode' = TRUE
    /\ stopper' = IF stopper = "none" THEN "asked" ELSE stopper
    /\ UNCHANGED <<app, initiated, terminating, slot, pending, sent, failing, exitSub,
                   controlSub, exitCalls>>

\* What the signal thread posts reaches the queue.
SignalPosts ==
    /\ Up /\ Enqueue(Signal)
    /\ \/ sig = "control" /\ Goes("wait")
       \/ sig = "exitPost" /\ Goes("exitWait")
       \/ sig = "stopPost" /\ Goes("ended")
    /\ UNCHANGED <<terminating, slot, pending, exitCode>>

(***************************************************************************)
(* Other threads and the outside                                           *)
(***************************************************************************)

\* A thread posts to the main loop, or calls stop(exit_code).
UserCall(c) ==
    /\ Up /\ app # "created" /\ c # Signal /\ call[c].n < MaxUserPosts
    /\ \/ Register(c, "post") /\ UNCHANGED exitCode
       \/ Register(c, "stop") /\ exitCode' \in BOOLEAN
    /\ UNCHANGED <<app, sig, initiated, terminating, slot, pending, sent, failing, exitSub,
                   controlSub, exitCalls, stopper>>
UserPosts(c) ==
    /\ Up /\ c # Signal /\ Enqueue(c) /\ UNCHANGED appVars

\* A signal for the process; equal pending signals merge.
SendSignal ==
    /\ Up /\ app # "created" /\ sent < MaxSignals /\ sent' = sent + 1
    /\ \E s \in {"term", "usr"} : pending' = pending \cup {s}
    /\ UNCHANGED <<vars, app, sig, initiated, terminating, slot, failing, exitCode, exitSub,
                   controlSub, exitCalls, stopper>>

\* A thread hits a fail signal: process_signal writes the slot; then
\* process_fail reads it, and the process ends.
FailSignal ==
    /\ Up /\ app # "created" /\ failing = "no" /\ sent < MaxSignals /\ sent' = sent + 1
    /\ failing' = "caught" /\ slot' = "fail"
    /\ UNCHANGED <<vars, app, sig, initiated, terminating, pending, exitCode, exitSub,
                   controlSub, exitCalls, stopper>>
process_fail ==
    /\ Up /\ failing = "caught" /\ app' = "crashed"
    /\ UNCHANGED <<vars, sig, initiated, terminating, slot, pending, sent, failing, exitCode,
                   exitSub, controlSub, exitCalls, stopper>>

MainStep == Run \/ EnterLoop \/ LoopStep \/ LoopStops \/ CallbackReturns \/ LeaveLoop
              \/ AfterLoop \/ Return
SignalStep == SignalThreadStarts \/ WaitSignal \/ process_handler \/ process_exit
                \/ ExitWaited \/ SignalStop \/ SignalPosts

AppNext == \/ init \/ on_exit \/ on_control \/ MainStep \/ SignalStep
           \/ SendSignal \/ FailSignal \/ process_fail
           \/ \E c \in Clients : UserCall(c) \/ UserPosts(c)

AppSpec == AppInit /\ [][AppNext]_allVars

\* The main thread in run(), the signal thread, a thread that fails and a
\* call of post() go on.
AppFairSpec == /\ AppSpec
               /\ WF_allVars(MainStep /\ InRun) /\ WF_allVars(SignalStep)
               /\ WF_allVars(process_fail)
               /\ \A c \in Clients : WF_allVars(UserPosts(c))

(***************************************************************************)
(* Properties                                                              *)
(***************************************************************************)

\* The exit observers are notified at most once in a run; and when run() has
\* returned or the process has exited they have been, whether a signal or
\* stop() ended the loop; unless a stop() of another thread, or of an earlier
\* run, ended it and there was a signal too.
ExitNotifiedOnce ==
    [][/\ exitCalls' <= 1
       /\ Return /\ exitSub /\ exitCalls' = 0 => stopper # Signal /\ sent > 0]_allVars

\* The signal thread waits for an exit callback that will not be called: the
\* loop ended with the callback in its queue, or before it got there.
ExitWaitLost == sig = "exitWait" /\ app # "loop"

\* A run whose loop has ended returns, unless the signal thread waits for
\* the loop that has ended.
RunEnds == []<>(app \notin {"ended", "join", "notify"} \/ ExitWaitLost)

StopRequested == \E i \in 1 .. Len(service.q) : service.q[i].kind = "stop"

\* "makes 'run' exit": a stop() that was posted by another thread before or
\* during a run ends that run's loop.
StopEndsRun == (main = "run" /\ ~onOld /\ StopRequested) ~> (main = "out" \/ ~Up)

\* SIGTERM stops an application whose loop and signal thread are running.
TermStops ==
    ("term" \in pending /\ app = "loop" /\ sig = "wait") ~>
        (app \in {"ready", "exited", "crashed"} \/ ExitWaitLost)
=============================================================================
