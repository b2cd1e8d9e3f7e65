------------------------------ MODULE Timers ------------------------------
(***************************************************************************)
(* timer and periodical_timer (timers.h) on an event_loop: clients start   *)
(* and stop one timer while the owner starts and stops its loop.  A start  *)
(* is a delayed post of EventLoop with the id the timer had by then; the   *)
(* callback runs only if the timer still has that id.  The callback of a   *)
(* periodical timer starts the timer again before it calls the user's.     *)
(*                                                                         *)
(* The id is a plain int that every thread increments without a lock, so   *)
(* an increment is a load and a store.  event_loop::repeat() is a          *)
(* periodical timer of its own that nobody stops.                          *)
(***************************************************************************)
EXTENDS EventLoop

CONSTANTS
    Loop,       \* the loop's thread, which starts a periodical timer again
    MaxUses,    \* bound: users' calls of start() and stop() of the timer
    MaxPeriods, \* bound: how often a periodical timer starts itself again
    MaxRuns     \* bound: calls of start() of a loop with a timer

ASSUME TimersAssumption == Loop \notin Clients /\ MaxUses \in Nat /\ MaxPeriods \in Nat
                                /\ MaxRuns \in Nat

Users == Clients \cup {Loop}

VARIABLES
    program,    \* "loop": clients post and wait; otherwise they use a timer
                \* of the kind "single" or "periodical"
    value,      \* _current_timer_id->value
    use,        \* per thread: the start() or stop() it is in, after its load
    uses,       \* calls of start() and stop() by users so far
    periods,    \* starts by the periodical timer itself
    id,         \* the posts that are starts of the timer -> timer_id
    phase,      \* the loop: "none"; past the check of the ids, "again" (before the
                \* periodical timer's lambda has started it again) and "ring"
                \* (before the user's callback); "user" (in it)
    root,       \* what each start of the periodical timer goes back to
    ended,      \* starts that a later start() or stop() has ended
    escaped,    \* those for which that happened in the phase "again"
    late,       \* callbacks for which it happened in the phase "ring"
    raced,      \* two increments have overlapped
    latest,     \* the last start of the timer, NoJob after a stop
    rang        \* starts whose callback has been invoked

timerVars == <<program, value, use, uses, periods, id, phase, root, ended, escaped,
               late, raced, latest, rang>>
allVars == <<vars, timerVars>>

NoUse == [op |-> "none"]
Starts == DOMAIN id
Again(n) == [by |-> Loop, n |-> n, kind |-> "delayed"]

(***************************************************************************)
(* Plausible faults of the operations below, one small change each.  No    *)
(* specification uses them; each shows that some property notices it.      *)
(***************************************************************************)

\* The callback does not compare the ids.
RingsAlways(job) == TRUE

\* value++ for ++value: the start has the id from before.
TakenIdBefore(t) == use[t].value

(***************************************************************************)
(* start() and stop() of the timer                                         *)
(***************************************************************************)
TimersInit ==
    /\ Init
    /\ program \in {"loop", "single", "periodical"}
    /\ value = 0 /\ use = [t \in Users |-> NoUse] /\ uses = 0 /\ periods = 0
    /\ id = <<>> /\ phase = "none" /\ root = <<>>
    /\ ended = {} /\ escaped = {} /\ late = {} /\ raced = FALSE /\ latest = NoJob /\ rang = {}

\* The load of ++_current_timer_id->value.
Load(t, op) ==
    /\ use[t] = NoUse
    /\ use' = [use EXCEPT ![t] = [op |-> op, value |-> value, seen |-> Starts]]
    /\ raced' = (raced \/ \E u \in Users : use[u] # NoUse)
    /\ UNCHANGED <<program, value, id, phase, root, ended, escaped, late, latest, rang>>

TakenId(t) == use[t].value + 1

\* The store.  To the user it ends what was started before the load, whatever
\* that goes back to; the periodical timer's own start() ends nothing.
Store(t) ==
    /\ value' = use[t].value + 1
    /\ use' = [use EXCEPT ![t] = NoUse]
    /\ IF t = Loop /\ use[t].op = "start"
       THEN UNCHANGED <<ended, escaped, late>>
       ELSE /\ ended' = ended \cup {root[j] : j \in use[t].seen}
            /\ escaped' = IF phase = "again" THEN escaped \cup {root[current]} ELSE escaped
            /\ late' = IF phase = "ring" THEN late \cup {current} ELSE late
    /\ UNCHANGED <<program, raced, rang>>

\* f with the value v for the new argument k
With(f, k, v) == [x \in DOMAIN f \cup {k} |-> IF x = k THEN v ELSE f[x]]

\* The id a start has taken, and the periodical start it belongs to.
Started(job, t, from) ==
    /\ id' = With(id, job, TakenId(t))
    /\ root' = With(root, job, from)
    /\ latest' = job

Begin(c, op) ==
    /\ program # "loop" /\ uses < MaxUses /\ uses' = uses + 1
    /\ pc[c] = "idle"
    /\ Load(c, op)
    /\ UNCHANGED <<vars, periods>>

\* start(): the post is registered; EventLoop's Enqueue arms it.
Start(c) ==
    /\ use[c].op = "start"
    /\ Register(c, "delayed")
    /\ Store(c) /\ Started(call'[c], c, call'[c])
    /\ UNCHANGED <<phase, uses, periods>>

Stop(c) ==
    /\ use[c].op = "stop"
    /\ Store(c) /\ latest' = NoJob
    /\ UNCHANGED <<vars, id, root, phase, uses, periods>>

(***************************************************************************)
(* The lambda of start() in the loop's thread                              *)
(***************************************************************************)

\* id->value == timer_id
Rings(job) == id[job] = value

\* The loop begins a callback, which compares the ids.  (Past the bound a
\* periodical timer rings without starting again.)
TimerTake ==
    /\ Take
    /\ phase' = IF current' \notin Starts \/ ~Rings(current') THEN "none"
                ELSE IF program = "periodical" /\ periods < MaxPeriods THEN "again" ELSE "ring"
    /\ UNCHANGED <<program, value, use, uses, periods, id, root, ended, escaped, late, raced,
                   latest, rang>>

\* The periodical timer's lambda: this->start(duration, callback) ...
AgainLoad ==
    /\ phase = "again"
    /\ Load(Loop, "start")
    /\ UNCHANGED <<vars, uses, periods>>

AgainStore ==
    /\ phase = "again" /\ use[Loop].op = "start" /\ phase' = "ring"
    /\ periods' = periods + 1
    /\ Store(Loop) /\ Started(Again(periods'), Loop, root[current])
    /\ CountQueue(1)
    /\ service' = [service EXCEPT !.timers = @ \cup {latest'}]
    /\ UNCHANGED <<isRunning, loopVars, ownerVars, clientVars, ghostVars, uses>>

\* ... and then callback(), the user's: whoever stops the timer after the check
\* of the ids comes too late for it.
Ring ==
    /\ phase = "ring" /\ phase' = "user"
    /\ rang' = rang \cup {current}
    /\ UNCHANGED <<vars, program, value, use, uses, periods, id, root, ended, escaped, late,
                   raced, latest>>

\* It may stop the timer itself.
CallbackLoad ==
    /\ phase = "user" /\ uses < MaxUses /\ uses' = uses + 1
    /\ Load(Loop, "stop")
    /\ UNCHANGED <<vars, periods>>

CallbackStop ==
    /\ use[Loop].op = "stop"
    /\ Store(Loop) /\ latest' = NoJob
    /\ UNCHANGED <<vars, id, root, phase, uses, periods>>

TimerFinish ==
    /\ phase \in {"none", "user"} /\ use[Loop] = NoUse /\ phase' = "none"
    /\ Finish
    /\ UNCHANGED <<program, value, use, uses, periods, id, root, ended, escaped, late, raced,
                   latest, rang>>

Rest(c) == \/ program = "loop" /\ (Call(c) \/ WaitStarted(c))
           \/ Enqueue(c) \/ Waited(c)

TimersNext ==
    \/ (TimerFires \/ RunReturn \/ NotifyStop \/ StartThread \/ StopLoop \/ StopReset)
          /\ UNCHANGED timerVars
    \/ StartLoop /\ (program = "loop" \/ starts < MaxRuns) /\ UNCHANGED timerVars
    \/ \E c \in Clients : Rest(c) /\ UNCHANGED timerVars
    \/ \E c \in Clients, op \in {"start", "stop"} : Begin(c, op)
    \/ \E c \in Clients : Start(c) \/ Stop(c)
    \/ TimerTake \/ TimerFinish
    \/ AgainLoad \/ AgainStore \/ Ring \/ CallbackLoad \/ CallbackStop

TimersSpec == TimersInit /\ [][TimersNext]_allVars

(***************************************************************************)
(* Each thread runs on: the loop's, the owner's in start() and stop(), and *)
(* a client's in a call that has begun; and the timers of a running        *)
(* io_service expire.  Nobody is obliged to call anything.                 *)
(***************************************************************************)
LoopNext == \/ TimerTake \/ TimerFinish \/ AgainLoad \/ AgainStore \/ Ring \/ CallbackStop
            \/ (RunReturn \/ NotifyStop) /\ UNCHANGED timerVars

TimersFairness ==
    /\ WF_allVars(LoopNext)
    /\ WF_allVars(TimerFires /\ UNCHANGED timerVars)
    /\ WF_allVars((StartThread \/ StopReset) /\ UNCHANGED timerVars)
    /\ \A c \in Clients : WF_allVars(Start(c) \/ Stop(c) \/ (Enqueue(c) /\ UNCHANGED timerVars))

FairTimersSpec == TimersSpec /\ TimersFairness

(***************************************************************************)
(* Properties                                                              *)
(***************************************************************************)

\* Once a start() or stop() has returned, nothing started before it rings any
\* more, neither the timer nor a later period of it, but the one callback that
\* had found its id unchanged by then ("Thread safe" says the class); provided
\* that no two of these calls overlapped, whose increments may get lost, and that
\* the call did not come between the check of a periodical timer's lambda and the
\* start() in it, which revives the timer.
StoppedIsSilent ==
    [][\A j \in rang' \ rang : \/ root[j] \notin ended \/ j \in late
                               \/ root[j] \in escaped \/ raced]_allVars

\* The timer is on, in the first run of its loop, and its last start has not
\* passed the check.  (A stop() of the loop drops the starts it holds.)
On == /\ latest # NoJob /\ latest \notin rang /\ isRunning /\ starts = 1 /\ ~raced
      /\ current = latest => phase = "none"

\* A timer that is on gets to its check, unless the loop is stopped or the timer
\* used again, and rings then, whatever happens; so does each period of a
\* periodical timer.
TimerRings == (On ~> ~On) /\ (phase \in {"again", "ring"} ~> phase = "user")

(***************************************************************************)
(* The inductive invariant behind QueueSizeAccounts and InvokedInOrder.    *)
(***************************************************************************)
Immediate(j) == j.kind \in {"post", "wait", "started"}

\* What the loop can hold: calls of clients, starts of a periodical timer by
\* itself and the start lambda.
JobType == [by : Clients, n : Nat, kind : Kinds \ {"zero"}]
             \cup [by : {Loop}, n : Nat, kind : {"delayed"}] \cup {StartJob}
CallType == [by : Clients \cup {Owner}, n : Nat, kind : Kinds \cup {"none"}]

LoopTypeOK ==
    /\ service \in [q : Seq(JobType), timers : SUBSET JobType, stopped : BOOLEAN, work : BOOLEAN]
    /\ IsFiniteSet(service.timers)
    /\ queueSize \in Nat /\ leaked \in Nat /\ wiped \in Nat
    /\ current \in JobType \cup {NoJob}
    /\ pc \in [Clients -> {"idle", "enqueue", "blocked", "waited"}]
    /\ call \in [Clients -> CallType]
    /\ lastRan \in [Clients -> Nat]

\* A client's jobs are numbered by its calls; the one it is about to hand over
\* has the highest number, so that no job is in the io_service twice.
Behind(c, n) == n <= call[c].n /\ (pc[c] = "enqueue" => n < call[c].n)

Numbered ==
    /\ \A c \in Clients : /\ Behind(c, lastRan[c])
                          /\ pc[c] = "enqueue" => call[c].by = c /\ call[c].kind # "none"
    /\ \A j \in service.timers :
          j.kind = "delayed" /\ (j.by \in Clients => Behind(j.by, j.n))
    /\ \A i \in 1 .. Len(service.q) :
          service.q[i].by \in Clients => Behind(service.q[i].by, service.q[i].n)

\* The queue holds what each client posted in the order of its calls, all of it
\* after what has been invoked.
Ordered ==
    \A i \in 1 .. Len(service.q) : Immediate(service.q[i]) =>
       /\ lastRan[service.q[i].by] < service.q[i].n
       /\ \A k \in 1 .. Len(service.q) :
             i < k /\ Immediate(service.q[k]) /\ service.q[k].by = service.q[i].by
                => service.q[i].n < service.q[k].n

\* The thread exists from start() to the join in stop(), executes callbacks only
\* inside run() and ends with notify_stop().
ThreadLives ==
    /\ thread # "run" => current = NoJob
    /\ onStop = IF thread = "exited" THEN 1 ELSE 0
    /\ owner = "starting" => isRunning /\ thread = "none"
    /\ owner = "idle" /\ ~isRunning => thread = "none"

LoopInv == LoopTypeOK /\ Numbered /\ Ordered /\ ThreadLives /\ QueueSizeAccounts

\* The starts of a periodical timer by itself are numbered, too.
PeriodsNumbered == /\ periods \in Nat
                   /\ \A j \in service.timers : j.by = Loop => j.n <= periods

TimersIInv == LoopInv /\ PeriodsNumbered

(***************************************************************************)
(* The inductive invariant behind StoppedIsSilent: as long as no two calls *)
(* overlapped, the ids of all starts are at most the timer's, and smaller  *)
(* for a start that was ended.                                             *)
(***************************************************************************)
StartsNumbered ==
    /\ value \in Nat /\ DOMAIN root = Starts /\ ended \subseteq Starts
    /\ \A j \in Starts :
          /\ id[j] \in Nat /\ root[j] \in Starts
          /\ j.by \in Users /\ j.n \in Nat /\ j.kind = "delayed"
          /\ j.n <= IF j.by = Loop THEN periods ELSE call[j.by].n

UsesKnown ==
    \A t \in Users : use[t] # NoUse =>
       /\ use[t].op \in {"start", "stop"} /\ use[t].value \in Nat /\ use[t].seen \subseteq Starts

IdsInTurn ==
    /\ \A t, u \in Users : use[t] # NoUse /\ use[u] # NoUse => t = u
    /\ \A t \in Users : use[t] # NoUse => use[t].value = value /\ use[t].seen = Starts
    /\ \A j \in Starts : /\ id[j] <= value
                         /\ root[j] \in ended \ escaped => id[j] < value
    /\ phase \in {"again", "ring"} =>
          root[current] \notin ended \ escaped \/ (phase = "ring" /\ current \in late)

\* Only a start rings, and so only a start is started again.
AgainStart == phase \in {"again", "ring"} => current \in Starts

Silence == /\ use = [t \in Users |-> use[t]]
           /\ StartsNumbered /\ UsesKnown /\ AgainStart
           /\ ~raced => IdsInTurn

SilenceIInv == TimersIInv /\ Silence
=============================================================================
