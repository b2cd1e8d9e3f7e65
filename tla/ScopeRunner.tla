---------------------------- MODULE ScopeRunner ----------------------------
(***************************************************************************)
(* network::scope_runner: an atomic counter through which asynchronous     *)
(* handlers enter a scope (continue_lock) and through which the owner      *)
(* cancels all future scopes (stop).                                       *)
(*                                                                         *)
(* Every atomic operation on 'count' is a step of its own.  A failed CAS   *)
(* of stop() changes nothing (it reloads a local and spins), so it is a    *)
(* stuttering step; a failed CAS of continue_lock() refreshes 'expected'.  *)
(* compare_exchange_weak may fail spuriously: TryFail needs no mismatch.   *)
(***************************************************************************)
EXTENDS Integers, FiniteSets

CONSTANT Threads    \* the threads that run handlers or call stop()

\* Lock counting is only meaningful for finitely many threads.
ASSUME ThreadsFinite == IsFiniteSet(Threads)

VARIABLES
    count,      \* std::atomic<long> count
    pc,         \* what each thread is doing
    expected    \* the local 'expected' of continue_lock

runnerVars == <<count, pc, expected>>

PCs == {"idle", "try", "locked", "stopping", "stopped"}

\* Types, and the range of the counter: a lock per thread at most, -1 for a
\* stopped runner, never less.
RunnerTypeOK == /\ count \in -1 .. Cardinality(Threads)
                /\ pc \in [Threads -> PCs]
                /\ expected \in [Threads -> Int]

RunnerInit == /\ count = 0
              /\ pc = [t \in Threads |-> "idle"]
              /\ expected = [t \in Threads |-> 0]

Goto(t, l) == pc' = [pc EXCEPT ![t] = l]

(***************************************************************************)
(* Plausible faults of the operations below, one small change each.  No    *)
(* specification uses them; each shows that some property notices it.      *)
(***************************************************************************)

\* The early return of stop() taken whenever the first CAS fails.
StopAlreadyBusy(t) ==
    /\ pc[t] = "stopping" /\ count # 0
    /\ Goto(t, "stopped")
    /\ UNCHANGED <<count, expected>>

\* stop() without its early return: on a stopped runner it spins for ever.
StopAlreadySpins(t) == pc[t] = "stopping" /\ count < 0 /\ UNCHANGED runnerVars

(***************************************************************************)
(* continue_lock                                                           *)
(***************************************************************************)

\* long expected = count;
LoadCount(t) ==
    /\ pc[t] = "idle"
    /\ expected' = [expected EXCEPT ![t] = count]
    /\ Goto(t, "try")
    /\ UNCHANGED count

\* The CAS succeeds: the shared_lock exists from here on.
TryLock(t) ==
    /\ pc[t] = "try"
    /\ expected[t] >= 0
    /\ count = expected[t]
    /\ count' = expected[t] + 1
    /\ Goto(t, "locked")
    /\ UNCHANGED expected

\* The CAS fails, by interference or spuriously, and reloads 'expected'.
TryFail(t) ==
    /\ pc[t] = "try"
    /\ expected[t] >= 0
    /\ expected' = [expected EXCEPT ![t] = count]
    /\ UNCHANGED <<count, pc>>

\* expected < 0: nullptr, the handler returns without entering its scope.
RefuseScope(t) ==
    /\ pc[t] = "try"
    /\ expected[t] < 0
    /\ Goto(t, "idle")
    /\ UNCHANGED <<count, expected>>

\* ~shared_lock at the end of the handler's scope.
Release(t) ==
    /\ pc[t] = "locked"
    /\ count' = count - 1
    /\ Goto(t, "idle")
    /\ UNCHANGED expected

(***************************************************************************)
(* stop                                                                    *)
(***************************************************************************)
EnterStop(t) ==
    /\ pc[t] = "idle"
    /\ Goto(t, "stopping")
    /\ UNCHANGED <<count, expected>>

\* compare_exchange_weak(expected = 0, -1) succeeds.
StopCAS(t) ==
    /\ pc[t] = "stopping"
    /\ count = 0
    /\ count' = -1
    /\ Goto(t, "stopped")
    /\ UNCHANGED expected

\* if (expected < 0) return;
StopAlready(t) ==
    /\ pc[t] = "stopping"
    /\ count < 0
    /\ Goto(t, "stopped")
    /\ UNCHANGED <<count, expected>>

\* The caller of stop() goes on; its thread may later run a handler again.
LeaveStop(t) ==
    /\ pc[t] = "stopped"
    /\ Goto(t, "idle")
    /\ UNCHANGED <<count, expected>>

Step(t) == \/ LoadCount(t) \/ TryLock(t) \/ TryFail(t) \/ RefuseScope(t)
           \/ Release(t) \/ EnterStop(t) \/ StopCAS(t) \/ StopAlready(t)
           \/ LeaveStop(t)

RunnerNext == \E t \in Threads : Step(t)

(***************************************************************************)
(* A thread that is inside continue_lock, in a scope or spinning in stop() *)
(* keeps running; nobody is obliged to start a handler or to call stop().  *)
(***************************************************************************)
Fairness == \A t \in Threads :
    /\ WF_runnerVars(TryLock(t)) /\ WF_runnerVars(RefuseScope(t))
    /\ WF_runnerVars(Release(t))
    /\ WF_runnerVars(StopCAS(t)) /\ WF_runnerVars(StopAlready(t))

RunnerSpec == RunnerInit /\ [][RunnerNext]_runnerVars

RunnerFairSpec == RunnerSpec /\ Fairness

(***************************************************************************)
(* Properties                                                              *)
(***************************************************************************)
Holders == {t \in Threads : pc[t] = "locked"}

\* The counter is exactly the number of live shared_locks, or -1 with none
\* alive: no interleaving of the CAS loops loses or invents a lock, and a
\* shared_lock destroyed after stop() never decrements the -1.
CountIsHolders == IF count < 0 THEN count = -1 /\ Holders = {}
                               ELSE count = Cardinality(Holders)

\* "Blocks until all shared locks are released": whenever some call of stop()
\* has returned, also one that found the runner already stopped, no handler
\* is inside its scope.
StopExcludesScopes == (\E t \in Threads : pc[t] = "stopped") => Holders = {}

\* "... then prevents future shared locks": a stopped runner never lets any
\* thread enter a scope again, whatever 'expected' it loaded before.
StoppedForGood == [][count < 0 => Holders' = {} /\ count' = count]_runnerVars

\* The inductive strengthening: StopExcludesScopes alone says nothing of the
\* step in which a thread enters its scope, so the invariant records that a
\* call of stop() only ever returns on a runner whose counter is negative.
StopMeansNegative == (\E t \in Threads : pc[t] = "stopped") => count < 0

RunnerInv == /\ count \in Int
             /\ pc \in [Threads -> PCs]
             /\ expected \in [Threads -> Int]
             /\ CountIsHolders
             /\ StopMeansNegative

\* stop() returns once handlers cease to arrive.  (While scopes keep
\* overlapping the counter need never be 0 and stop() spins: no queueing.)
StopReturns ==
    (<>[](\A u \in Threads : pc[u] # "try"))
       => \A t \in Threads : pc[t] = "stopping" ~> pc[t] = "stopped"
=============================================================================
