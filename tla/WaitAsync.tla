----------------------------- MODULE WaitAsync -----------------------------
(***************************************************************************)
(* wait_async and wait_async_result as event_loop::wait and wait_result    *)
(* use them: callers hand a wrapper of their callback to one loop thread,  *)
(* which executes the wrappers one after the other, and wait for it with   *)
(* or without a timeout.                                                   *)
(*                                                                         *)
(* The wrapper refers to locals of its caller: the promise and the outcome *)
(* ('complete', or 'result').  With a timeout a mutex in a shared_ptr,     *)
(* which the wrapper knows by a weak_ptr, stands between the two: the      *)
(* wrapper takes use_count() > 1 for "the caller is still there".          *)
(***************************************************************************)
EXTENDS Naturals

CONSTANTS
    Calls,      \* the calls, each made once by a thread of its own
    Timed,      \* those with timeout_ms > 0
    WithResult  \* those of wait_async_result, the others of wait_async: the
                \* locals are destroyed in a different order

ASSUME VariantsAssumption == Timed \subseteq Calls /\ WithResult \subseteq Calls

VARIABLE call   \* the state of each call, see CallState

CallState == [
    caller   : {"idle", "waiting", "locking", "locked", "leaving", "half", "returned"},
    worker   : {"none", "queued", "running", "ended", "locked", "writing",
                "setting", "unlocking", "done"},    \* the wrapper
    guard    : {"free", "caller", "worker"},        \* who has locked *pguard
    refs     : 0 .. 2,                              \* shared_ptrs to it
    promise  : {"unset", "value", "exception"},     \* wait_ctx
    outcome  : {"initial", "set"},                  \* complete / result
    threw    : BOOLEAN,             \* the callback ended with an exception
    ret      : {"none", "initial", "set", "throw"}, \* what the caller gets
    alive    : SUBSET {"promise", "outcome"},       \* locals that exist
    dangling : BOOLEAN]             \* the wrapper wrote to one that does not

\* Types; at most the caller's and the wrapper's shared_ptr hold the mutex.
WaitTypeOK == call \in [Calls -> CallState]

WrapperBusy(c) == call[c].worker \notin {"none", "queued", "done"}

(***************************************************************************)
(* Plausible faults of the operations below, one small change each.  No    *)
(* specification uses them; each shows that some property notices it.      *)
(***************************************************************************)

\* The promise completed before the callback is called.
WorkerEntersSet(c) ==
    /\ call[c].worker = "queued" /\ \A d \in Calls : ~WrapperBusy(d)
    /\ c \in Timed => call[c].refs > 0
    /\ call' = [call EXCEPT ![c].worker = "running", ![c].promise = "value",
                            ![c].refs = IF c \in Timed THEN @ + 1 ELSE @]

\* The outcome written whether or not the callback threw.
WorkerSeesCallerWrites(c) ==
    /\ call[c].worker = "locked" /\ call[c].refs > 1
    /\ call' = [call EXCEPT ![c].worker = "writing"]

\* A lock that is not released on the exception path.
WorkerUnlocksNot(c) ==
    /\ call[c].worker = "unlocking"
    /\ call' = [call EXCEPT ![c].worker = "done",
          ![c].guard = IF call[c].threw THEN @ ELSE "free",
          ![c].refs = @ - 1]

(***************************************************************************)
(* The caller                                                              *)
(***************************************************************************)
WaitInit == call = [c \in Calls |->
    [caller |-> "idle", worker |-> "none", guard |-> "free",
     refs |-> IF c \in Timed THEN 1 ELSE 0,
     promise |-> "unset", outcome |-> "initial", threw |-> FALSE,
     ret |-> "none", alive |-> {"promise", "outcome"}, dangling |-> FALSE]]

\* caller_func(asynch_func_wrapper), that is post()
Begin(c) ==
    /\ call[c].caller = "idle"
    /\ call' = [call EXCEPT ![c].caller = "waiting", ![c].worker = "queued"]

\* The future is ready and get() returns or throws.  Without a timeout there
\* is no mutex to lock.
Ready(c) ==
    /\ call[c].caller = "waiting" /\ call[c].promise # "unset"
    /\ call' = [call EXCEPT
          ![c].caller = IF c \in Timed /\ call[c].promise = "value"
                        THEN "locking" ELSE "leaving",
          ![c].ret = CASE call[c].promise = "exception" -> "throw"
                       [] call[c].promise = "value" /\ c \in Timed -> @
                       [] OTHER -> call[c].outcome]

\* wait_for() expires.
Timeout(c) ==
    /\ c \in Timed
    /\ call[c].caller = "waiting" /\ call[c].promise = "unset"
    /\ call' = [call EXCEPT ![c].caller = "locking"]

\* unique_lock lck(*pguard); the return value is taken under the lock.
CallerLocks(c) ==
    /\ call[c].caller = "locking" /\ call[c].guard = "free"
    /\ call' = [call EXCEPT ![c].caller = "locked", ![c].guard = "caller",
                            ![c].ret = call[c].outcome]

\* lck is the first local to be destroyed.
CallerUnlocks(c) ==
    /\ call[c].caller = "locked"
    /\ call' = [call EXCEPT ![c].caller = "leaving", ![c].guard = "free"]

\* The other locals go in the reverse order of their declaration: pguard
\* before wait_ctx in wait_async_result, wait_ctx before pguard in wait_async.
LeaveFirst(c) ==
    /\ call[c].caller = "leaving"
    /\ call' = [call EXCEPT
          ![c].caller = "half",
          ![c].refs = IF c \in Timed \cap WithResult THEN @ - 1 ELSE @,
          ![c].alive = IF c \in WithResult THEN @ ELSE @ \ {"promise"}]

LeaveLast(c) ==
    /\ call[c].caller = "half"
    /\ call' = [call EXCEPT
          ![c].caller = "returned",
          ![c].refs = IF c \in Timed \ WithResult THEN @ - 1 ELSE @,
          ![c].alive = {}]

(***************************************************************************)
(* The wrapper, in the loop's thread                                       *)
(***************************************************************************)

\* pguard_.lock() finds the mutex: the callback is called.
WorkerEnters(c) ==
    /\ call[c].worker = "queued" /\ \A d \in Calls : ~WrapperBusy(d)
    /\ c \in Timed => call[c].refs > 0
    /\ call' = [call EXCEPT ![c].worker = "running",
                            ![c].refs = IF c \in Timed THEN @ + 1 ELSE @]

\* "else event queue was overloaded"
WorkerSkips(c) ==
    /\ call[c].worker = "queued" /\ \A d \in Calls : ~WrapperBusy(d)
    /\ c \in Timed /\ call[c].refs = 0
    /\ call' = [call EXCEPT ![c].worker = "done"]

\* With a timeout the wrapper goes on to the mutex,
CallbackEnds(c) ==
    /\ c \in Timed /\ call[c].worker = "running"
    /\ \E t \in BOOLEAN : call' = [call EXCEPT ![c].threw = t, ![c].worker = "ended"]

\* without one it writes at once: wait_async_result its result,
EndlessResultEnds(c) ==
    /\ c \in WithResult \ Timed /\ call[c].worker = "running"
    /\ \E t \in BOOLEAN :
          call' = [call EXCEPT ![c].threw = t,
                               ![c].worker = IF t THEN "setting" ELSE "writing"]

\* and wait_async, which returns true without being told, only the promise.
EndlessEnds(c) ==
    /\ c \notin WithResult \cup Timed /\ call[c].worker = "running"
    /\ \E t \in BOOLEAN :
          call' = [call EXCEPT ![c].threw = t, ![c].worker = "setting",
                               ![c].outcome = IF t THEN @ ELSE "set"]

WorkerLocks(c) ==
    /\ call[c].worker = "ended" /\ call[c].guard = "free"
    /\ call' = [call EXCEPT ![c].worker = "locked", ![c].guard = "worker"]

\* if (pguard.use_count() > 1)
WorkerSeesCaller(c) ==
    /\ call[c].worker = "locked" /\ call[c].refs > 1
    /\ call' = [call EXCEPT
          ![c].worker = IF call[c].threw THEN "setting" ELSE "writing"]

\* "else timeout was arisen"
WorkerSeesNoCaller(c) ==
    /\ call[c].worker = "locked" /\ call[c].refs <= 1
    /\ call' = [call EXCEPT ![c].worker = "unlocking"]

\* complete = true;  result = ...
WorkerWrites(c) ==
    /\ call[c].worker = "writing"
    /\ call' = [call EXCEPT ![c].worker = "setting", ![c].outcome = "set",
                            ![c].dangling = @ \/ "outcome" \notin call[c].alive]

\* wait_ctx.set_value(true) or set_exception(...)
WorkerSets(c) ==
    /\ call[c].worker = "setting"
    /\ call' = [call EXCEPT
          ![c].worker = IF c \in Timed THEN "unlocking" ELSE "done",
          ![c].promise = IF call[c].threw THEN "exception" ELSE "value",
          ![c].dangling = @ \/ "promise" \notin call[c].alive]

\* ~lock_guard, then the wrapper's shared_ptr is released.
WorkerUnlocks(c) ==
    /\ call[c].worker = "unlocking"
    /\ call' = [call EXCEPT ![c].worker = "done", ![c].guard = "free",
                            ![c].refs = @ - 1]

CallerNext(c) == \/ Ready(c) \/ Timeout(c) \/ CallerLocks(c) \/ CallerUnlocks(c)
                 \/ LeaveFirst(c) \/ LeaveLast(c)

WrapperNext(c) == \/ WorkerLocks(c) \/ WorkerSeesCaller(c) \/ WorkerSeesNoCaller(c)
                  \/ WorkerWrites(c) \/ WorkerSets(c) \/ WorkerUnlocks(c)

WaitNext == \E c \in Calls : \/ Begin(c) \/ CallerNext(c) \/ WrapperNext(c)
                             \/ WorkerEnters(c) \/ WorkerSkips(c)
                             \/ CallbackEnds(c) \/ EndlessResultEnds(c) \/ EndlessEnds(c)

WaitSpec == WaitInit /\ [][WaitNext]_call

(***************************************************************************)
(* The caller and the wrapper's own code run on.  Whether the wrapper is   *)
(* ever called, and whether the callback ends, is not for this code to     *)
(* say: neither WorkerEnters nor the end of the callback is fair.          *)
(***************************************************************************)
WaitFairSpec == WaitSpec /\ \A c \in Calls : WF_call(CallerNext(c)) /\ WF_call(WrapperNext(c))

(***************************************************************************)
(* Properties                                                              *)
(***************************************************************************)

\* "return it's result or initial_result if timeout was", and an exception
\* only if the callback threw: no interleaving of timeout and completion
\* makes a caller return an outcome that its callback did not produce, and a
\* caller that finds the promise fulfilled, be it at the very moment of the
\* timeout, does not report the initial outcome.
ReturnIsHonest ==
    [][\A c \in Calls : call[c].ret = "none" =>
          LET called == call[c].worker \notin {"none", "queued", "running"} IN
          /\ call'[c].ret = "set" => called /\ ~call[c].threw
          /\ call'[c].ret = "throw" => called /\ call[c].threw
          /\ call'[c].ret = "initial" => call[c].promise # "value"]_call

\* A wait with a timeout returns, whatever the loop and the callbacks do.
TimedWaitReturns ==
    \A c \in Timed : call[c].caller = "waiting" ~> call[c].caller = "returned"

\* "Callback that is invoked in thread owned by this event_loop only before
\* this function return": without a timeout the wrapper is through when its
\* caller leaves and has touched only locals that existed.  (With one, the
\* callback may outlast the caller.)
EndlessIsSynchronous == \A c \in Calls \ Timed :
    /\ ~call[c].dangling
    /\ call[c].caller \in {"leaving", "half", "returned"} => call[c].worker = "done"
=============================================================================
