----------------------------- MODULE EventPool -----------------------------
(***************************************************************************)
(* event_pool: nb_threads threads run one io_service, so callbacks execute *)
(* concurrently.  start() posts a lambda that occupies one thread and      *)
(* spins until every thread has counted _waiting_threads down; only then   *)
(* is the pool 'run' and are the start observers notified.                 *)
(***************************************************************************)
EXTENDS BaseQueueredLoop

CONSTANTS
    Pool,           \* the threads of the pool
    Clients,        \* threads that post to it
    MaxPosts,       \* bound: calls of post() per client
    MaxStarts,      \* bound: calls of start()
    SpuriousCAS,    \* compare_exchange_weak may fail on equal values
    SpawnMayFail    \* std::thread's constructor may throw

\* SRV_ASSERT(nb_threads > 0, "Threads are required")
ASSUME PoolAssumption == IsFiniteSet(Pool) /\ Pool # {}
\* A process has finitely many threads.
ASSUME ClientsAssumption == IsFiniteSet(Clients)
ASSUME PoolBoundsAssumption == /\ MaxPosts \in Nat /\ MaxStarts \in Nat
                               /\ SpuriousCAS \in BOOLEAN
                               /\ SpawnMayFail \in BOOLEAN

Jobs == Clients \X (1 .. MaxPosts)
StartJob == <<"start", 0>>
NoJob == <<"none", 0>>

VARIABLES
    isRun,          \* _is_run
    waiting,        \* _waiting_threads
    threads,        \* _threads: what each thread does
    threadIds,      \* _thread_ids
    job,            \* the callback each thread executes
    owner,          \* the owner: "idle", "starting" (with threads to spawn)
                    \* or "stopping"
    starts,         \* calls of start() so far
    posting,        \* the clients between register_queue and service()->post
    posts,          \* calls of post() so far, per client
    started,        \* notifications of the start observers since the last reset
    wiped           \* callbacks still to come whose increment a reset() erased

poolVars == <<isRun, waiting, threads, threadIds, job>>
ownerVars == <<owner, starts>>
clientVars == <<posting, posts>>
vars == <<baseVars, poolVars, ownerVars, clientVars, started, wiped>>

\* A thread registers its id, counts down, enters run() and, when run() has
\* returned, notifies the stop observers and exits.
ThreadPCs == {"none", "new", "listed", "run", "notify", "exited"}

\* Types; the start observers hear of a run once.
TypeOK == /\ isRunning \in BOOLEAN /\ isRun \in BOOLEAN
          /\ queueSize \in 0 .. QueueModulus - 1
          /\ service \in [q : Seq(Jobs \cup {StartJob}), timers : {{}},
                          stopped : BOOLEAN, work : BOOLEAN]
          /\ waiting \in 0 .. Cardinality(Pool)
          /\ threads \in [Pool -> ThreadPCs]
          /\ threadIds \subseteq Pool
          /\ job \in [Pool -> Jobs \cup {StartJob, NoJob}]
          /\ owner \in {"idle", "starting", "stopping"}
          /\ starts \in 0 .. MaxStarts
          /\ posting \subseteq Clients
          /\ posts \in [Clients -> 0 .. MaxPosts]
          /\ started \in 0 .. 1
          /\ wiped \in 0 .. Cardinality(Clients)

Init == /\ InitBase
        /\ isRun = FALSE
        /\ waiting = 0
        /\ threads = [t \in Pool |-> "none"]
        /\ threadIds = {}
        /\ job = [t \in Pool |-> NoJob]
        /\ owner = "idle" /\ starts = 0
        /\ posting = {} /\ posts = [c \in Clients |-> 0]
        /\ started = 0
        /\ wiped = 0

Goto(t, l) == threads' = [threads EXCEPT ![t] = l]

(***************************************************************************)
(* Plausible faults of the operations below, one small change each.  No    *)
(* specification uses them; each shows that some property notices it.      *)
(***************************************************************************)

\* A countdown that the last thread forgets.
EnterRunNoCount(t) ==
    /\ threads[t] = "listed"
    /\ waiting' = IF waiting > 1 THEN waiting - 1 ELSE waiting
    /\ Goto(t, "run")
    /\ UNCHANGED <<baseVars, isRun, threadIds, job, ownerVars, clientVars, started, wiped>>

\* The start lambda that does not spin.
StartedAtOnce(t) ==
    /\ job[t] = StartJob
    /\ isRun' = TRUE /\ started' = started + 1
    /\ job' = [job EXCEPT ![t] = NoJob]
    /\ UNCHANGED <<baseVars, waiting, threads, threadIds, ownerVars, clientVars, wiped>>

\* stop() that joins only the first thread that exits.
StopResetJoinOne ==
    /\ owner = "stopping" /\ owner' = "idle"
    /\ \E t \in Pool : threads[t] = "exited"
    /\ reset
    /\ isRun' = FALSE /\ waiting' = 0 /\ threadIds' = {}
    /\ threads' = [t \in Pool |-> IF threads[t] = "exited" THEN "none" ELSE threads[t]]
    /\ started' = 0 /\ wiped' = Cardinality(posting)
    /\ UNCHANGED <<job, starts, clientVars>>

(***************************************************************************)
(* The owner: start() and stop()                                           *)
(***************************************************************************)

\* start_loop; _waiting_threads = nb_threads(); the start lambda goes to the
\* io_service directly, uncounted by _queue_size.
StartLoop ==
    /\ owner = "idle" /\ ~isRunning /\ starts < MaxStarts
    /\ isRunning' = TRUE
    /\ waiting' = Cardinality(Pool)
    /\ service' = Posted([service EXCEPT !.work = TRUE], StartJob)
    /\ owner' = "starting" /\ starts' = starts + 1
    /\ UNCHANGED <<queueSize, isRun, threads, threadIds, job, clientVars, started, wiped>>

\* One turn of the loop that creates the threads; the last ends start().
Spawn ==
    /\ owner = "starting"
    /\ \E t \in Pool :
          /\ threads[t] = "none"
          /\ Goto(t, "new")
          /\ owner' = IF \E u \in Pool \ {t} : threads[u] = "none"
                      THEN "starting" ELSE "idle"
    /\ UNCHANGED <<baseVars, isRun, waiting, threadIds, job, starts, clientVars, started, wiped>>

\* The constructor throws: start() catches, calls stop() and rethrows.
SpawnFails ==
    /\ SpawnMayFail
    /\ owner = "starting"
    /\ stop_loop
    /\ owner' = "stopping"
    /\ UNCHANGED <<queueSize, poolVars, starts, clientVars, started, wiped>>

StopLoop ==
    /\ owner = "idle" /\ isRunning
    /\ stop_loop
    /\ owner' = "stopping"
    /\ UNCHANGED <<queueSize, poolVars, starts, clientVars, started, wiped>>

\* Every thread that was created is joined; then all is reset.
StopReset ==
    /\ owner = "stopping" /\ owner' = "idle"
    /\ \A t \in Pool : threads[t] \in {"none", "exited"}
    /\ reset
    /\ isRun' = FALSE /\ waiting' = 0 /\ threadIds' = {}
    /\ threads' = [t \in Pool |-> "none"]
    /\ started' = 0 /\ wiped' = Cardinality(posting)
    /\ UNCHANGED <<job, starts, clientVars>>

(***************************************************************************)
(* The threads of the pool                                                 *)
(***************************************************************************)

\* _thread_ids.emplace_back, under _thread_ids_mutex
ListId(t) ==
    /\ threads[t] = "new"
    /\ threadIds' = threadIds \cup {t}
    /\ Goto(t, "listed")
    /\ UNCHANGED <<baseVars, isRun, waiting, job, ownerVars, clientVars, started, wiped>>

\* _waiting_threads -= 1, then run()
EnterRun(t) ==
    /\ threads[t] = "listed"
    /\ waiting' = waiting - 1
    /\ Goto(t, "run")
    /\ UNCHANGED <<baseVars, isRun, threadIds, job, ownerVars, clientVars, started, wiped>>

Take(t) ==
    /\ threads[t] = "run" /\ job[t] = NoJob /\ CanTake(service)
    /\ job' = [job EXCEPT ![t] = Head(service.q)]
    /\ service' = Taken(service)
    /\ UNCHANGED <<isRunning, queueSize, isRun, waiting, threads, threadIds,
                   ownerVars, clientVars, started, wiped>>

\* The start lambda's CAS finds 0: _is_run is set and the observers notified.
\* (While the counter is positive the CAS fails and the lambda spins.)
Started(t) ==
    /\ job[t] = StartJob
    /\ waiting = 0
    /\ isRun' = TRUE /\ started' = started + 1
    /\ job' = [job EXCEPT ![t] = NoJob]
    /\ UNCHANGED <<baseVars, waiting, threads, threadIds, ownerVars, clientVars, wiped>>

\* if (!waiting_threads) return;  A spurious failure leaves 0 in the local.
StartGivesUp(t) ==
    /\ SpuriousCAS
    /\ job[t] = StartJob
    /\ waiting = 0
    /\ job' = [job EXCEPT ![t] = NoJob]
    /\ UNCHANGED <<baseVars, isRun, waiting, threads, threadIds, ownerVars,
                   clientVars, started, wiped>>

Finish(t) ==
    /\ job[t] \in Jobs
    /\ CountQueue(-1)
    /\ job' = [job EXCEPT ![t] = NoJob]
    /\ UNCHANGED <<isRunning, service, isRun, waiting, threads, threadIds,
                   ownerVars, clientVars, started, wiped>>

RunReturn(t) ==
    /\ threads[t] = "run" /\ job[t] = NoJob /\ RunReturns(service)
    /\ Goto(t, "notify")
    /\ UNCHANGED <<baseVars, isRun, waiting, threadIds, job, ownerVars, clientVars, started, wiped>>

\* notify_stop(), once in every thread
NotifyStop(t) ==
    /\ threads[t] = "notify"
    /\ Goto(t, "exited")
    /\ UNCHANGED <<baseVars, isRun, waiting, threadIds, job, ownerVars, clientVars, started, wiped>>

(***************************************************************************)
(* The clients: post()                                                     *)
(***************************************************************************)
Register(c) ==
    /\ c \notin posting /\ posts[c] < MaxPosts
    /\ posting' = posting \cup {c}
    /\ posts' = [posts EXCEPT ![c] = @ + 1]
    /\ CountQueue(1)
    /\ UNCHANGED <<isRunning, service, poolVars, ownerVars, started, wiped>>

Enqueue(c) ==
    /\ c \in posting
    /\ posting' = posting \ {c}
    /\ service' = Posted(service, <<c, posts[c]>>)
    /\ UNCHANGED <<isRunning, queueSize, poolVars, ownerVars, posts, started, wiped>>

ThreadNext(t) == \/ ListId(t) \/ EnterRun(t) \/ Take(t) \/ Started(t) \/ StartGivesUp(t)
                 \/ Finish(t) \/ RunReturn(t) \/ NotifyStop(t)

OwnerNext == StartLoop \/ Spawn \/ SpawnFails \/ StopLoop \/ StopReset

Next == \/ OwnerNext
        \/ \E t \in Pool : ThreadNext(t)
        \/ \E c \in Clients : Register(c) \/ Enqueue(c)

Spec == Init /\ [][Next]_vars

(***************************************************************************)
(* Threads run, callbacks end, and start(), stop() and post() go on once   *)
(* called; nobody is obliged to call them.                                 *)
(***************************************************************************)
Fairness == /\ WF_vars(Spawn \/ SpawnFails) /\ WF_vars(StopReset)
            /\ \A t \in Pool : WF_vars(ThreadNext(t))
            /\ \A c \in Clients : WF_vars(Enqueue(c))

FairSpec == Spec /\ Fairness

(***************************************************************************)
(* Properties                                                              *)
(***************************************************************************)
Busy == {t \in Pool : job[t] \in Jobs}
Counted(q) == {i \in 1 .. Len(q) : q[i] # StartJob}

\* _queue_size against the callbacks still to be called, when several threads
\* finish callbacks at once: the start lambda is not counted, and the posts a
\* reset() overtook are (see EventLoop).
QueueSizeAccounts ==
    queueSize = (Cardinality(posting) + Cardinality(Busy)
                   + Cardinality(Counted(service.q)) - wiped) % QueueModulus

\* The start observers are notified, and is_run() holds, only when every
\* thread of the pool has registered its id and entered run().
StartIsBarrier ==
    isRun => /\ threadIds = Pool
             /\ \A t \in Pool : threads[t] \in {"run", "notify", "exited"}

\* is_this_loop() is right wherever it can matter: a thread that executes a
\* callback finds its own id, so that stop() from a callback can be refused.
CallbackThreadListed == \A t \in Pool : job[t] # NoJob => t \in threadIds

\* stop() is a barrier: once it has returned, and until the next start(), no
\* thread of the pool exists and no callback is in progress.
StopIsBarrier ==
    owner = "idle" /\ ~isRunning
       => \A t \in Pool : threads[t] = "none" /\ job[t] = NoJob

(***************************************************************************)
(* The inductive invariant behind StartIsBarrier, StopIsBarrier and        *)
(* CallbackThreadListed: _waiting_threads counts the threads that have not *)
(* entered run(), and _thread_ids holds those past their registration.     *)
(***************************************************************************)
Pending == {t \in Pool : threads[t] \in {"none", "new", "listed"}}

Active == isRunning \/ owner # "idle"

IInv == /\ threads \in [Pool -> ThreadPCs]
        /\ job = [t \in Pool |-> job[t]]
        /\ threadIds = {t \in Pool : threads[t] \in {"listed", "run", "notify", "exited"}}
        /\ \A t \in Pool : job[t] # NoJob => threads[t] = "run"
        /\ owner = "starting" => isRunning
        /\ Active => waiting = Cardinality(Pending)
        /\ ~Active => ~isRun /\ \A t \in Pool : threads[t] = "none"
        /\ isRun => Pending = {}

(***************************************************************************)
(* The inductive invariant behind TypeOK and QueueSizeAccounts adds that   *)
(* the start lambda exists at most once: it waits in the io_service, or a  *)
(* thread executes it, or it has notified the start observers.             *)
(***************************************************************************)
Starting == {t \in Pool : job[t] = StartJob}

StartOnce ==
    LET q == service.q IN
    /\ \A i, j \in (1 .. Len(q)) \ Counted(q) : i = j
    /\ \A t, u \in Starting : t = u
    /\ Counted(q) # 1 .. Len(q) => Starting = {} /\ started = 0
    /\ Starting # {} => started = 0
    /\ ~Active => Counted(q) = 1 .. Len(q) /\ started = 0 /\ waiting = 0

AccountsIInv == /\ IInv /\ TypeOK /\ StartOnce
                /\ \A c \in posting : posts[c] # 0
                /\ QueueSizeAccounts

StartPending == \/ \E t \in Pool : job[t] = StartJob
                \/ \E i \in 1 .. Len(service.q) : service.q[i] = StartJob

\* A pool that is not stopped gets to its 'run' state although one of its
\* threads is kept busy waiting for the others: the start lambda ends, with
\* is_run() set unless its CAS failed spuriously.  And stop() returns, whichever
\* state of the start procedure it meets, once every thread has been created.
\* (If creating one fails, start() calls stop() while the start lambda spins for
\* a thread that will never exist.)
CallsReturn ==
    /\ isRunning ~> isRun \/ ~isRunning \/ ~StartPending
    /\ owner = "stopping" /\ (\A t \in Pool : threads[t] # "none") ~> owner = "idle"
=============================================================================
