--------------------------- MODULE ProtectedMutex ---------------------------
(***************************************************************************)
(* protected_mutex<std::mutex>: a mutex that keeps the id of its owner in  *)
(* the atomic _ows, to throw where std::mutex has undefined behaviour.     *)
(*                                                                         *)
(* Every atomic operation is a step.  Users outside Misusers hold the      *)
(* lock with std::lock_guard, as all users in the repository do: they      *)
(* alternate lock() and unlock(), and an exception out of unlock() leaves  *)
(* ~lock_guard, which is noexcept, so the process is terminated.  Misusers *)
(* call lock() and unlock() in any order and catch what is thrown.         *)
(***************************************************************************)
EXTENDS FiniteSets

CONSTANTS
    Users,      \* the threads that use the mutex
    Misusers,   \* those that may lock twice or unlock what they do not own
    Nobody      \* the value 0 of _ows, and the owner of a free std::mutex

ASSUME MisusersAssumption == Misusers \subseteq Users
ASSUME NobodyAssumption == Nobody \notin Users

VARIABLES
    ows,        \* std::atomic<size_t> _ows: hash of the owner's id, or 0
    mutex,      \* Mutex _mutex: the thread that has it
    pc,         \* what each thread is doing
    et          \* the local et_ of unlock()

mutexVars == <<ows, mutex, pc, et>>

MaybeThread == Users \cup {Nobody}

\* Between the acquisition and the release of _mutex.  "relock" is an owner
\* inside a second _mutex.lock(), "aborted" one whose unlock() threw out of
\* ~lock_guard.
InsidePCs == {"storing", "crit", "relock", "unlocking", "aborted"}
PCs == InsidePCs \cup {"idle", "locking", "clearing"}

\* Types: the owner word only ever holds 0 or the id of a user.
MutexTypeOK == /\ ows \in MaybeThread
               /\ mutex \in MaybeThread
               /\ pc \in [Users -> PCs]
               /\ et \in [Users -> MaybeThread]

Goto(t, l) == pc' = [pc EXCEPT ![t] = l]

(***************************************************************************)
(* Plausible faults of the operations below, one small change each.  No    *)
(* specification uses them; each shows that some property notices it.      *)
(***************************************************************************)

\* unlock() that only refuses when the mutex is free, as its first message
\* ("Attempt to unlock not locked mutex") suggests.
UnlockCheckFree(t) ==
    /\ pc[t] \in {"idle", "crit"}
    /\ t \in Misusers \/ pc[t] = "crit"
    /\ ows # Nobody
    /\ et' = [et EXCEPT ![t] = t]
    /\ Goto(t, "unlocking")
    /\ UNCHANGED <<ows, mutex>>

\* _mutex.try_lock() with its result ignored.
InnerLockTry(t) ==
    /\ pc[t] = "locking"
    /\ mutex' = IF mutex = Nobody THEN t ELSE mutex
    /\ Goto(t, "storing")
    /\ UNCHANGED <<ows, et>>

(***************************************************************************)
(* Operations                                                              *)
(***************************************************************************)
MutexInit == /\ ows = Nobody
             /\ mutex = Nobody
             /\ pc = [t \in Users |-> "idle"]
             /\ et = [t \in Users |-> Nobody]

\* lock(): the compare_exchange_strong of the check fails, nothing is thrown.
LockCheck(t) ==
    /\ pc[t] \in {"idle", "crit"}
    /\ t \in Misusers \/ pc[t] = "idle"
    /\ ows # t
    /\ Goto(t, IF pc[t] = "crit" THEN "relock" ELSE "locking")
    /\ UNCHANGED <<ows, mutex, et>>

\* lock(): _mutex.lock() returns.  In "relock" the caller already has the
\* mutex: std::mutex leaves that undefined, glibc blocks for ever.
InnerLock(t) ==
    /\ pc[t] = "locking"
    /\ mutex = Nobody
    /\ mutex' = t
    /\ Goto(t, "storing")
    /\ UNCHANGED <<ows, et>>

\* lock(): _ows.store(et)
LockStore(t) ==
    /\ pc[t] = "storing"
    /\ ows' = t
    /\ Goto(t, "crit")
    /\ UNCHANGED <<mutex, et>>

\* unlock(): the check finds the caller's id in _ows.
UnlockCheck(t) ==
    /\ pc[t] \in {"idle", "crit"}
    /\ t \in Misusers \/ pc[t] = "crit"
    /\ ows = t
    /\ et' = [et EXCEPT ![t] = t]
    /\ Goto(t, "unlocking")
    /\ UNCHANGED <<ows, mutex>>

\* unlock(): the check fails and one of the two SRV_ASSERTs throws, whichever
\* value et_ has.  (A misuser catches it and nothing has changed.)
UnlockThrow(t) ==
    /\ pc[t] = "crit"
    /\ t \notin Misusers
    /\ ows # t
    /\ Goto(t, "aborted")
    /\ UNCHANGED <<ows, mutex, et>>

\* unlock(): _mutex.unlock().  Called by a thread that does not have it, it
\* would release the owner's lock.
InnerUnlock(t) ==
    /\ pc[t] = "unlocking"
    /\ mutex' = Nobody
    /\ Goto(t, "clearing")
    /\ UNCHANGED <<ows, et>>

\* unlock(): compare_exchange_weak(et_, 0) succeeds.
Clear(t) ==
    /\ pc[t] = "clearing"
    /\ ows = et[t]
    /\ ows' = Nobody
    /\ Goto(t, "idle")
    /\ UNCHANGED <<mutex, et>>

\* unlock(): the CAS fails, by interference or spuriously, and loads et_.
ClearFail(t) ==
    /\ pc[t] = "clearing"
    /\ et' = [et EXCEPT ![t] = ows]
    /\ UNCHANGED <<ows, mutex, pc>>

Step(t) == \/ LockCheck(t) \/ InnerLock(t) \/ LockStore(t) \/ UnlockCheck(t)
           \/ UnlockThrow(t) \/ InnerUnlock(t) \/ Clear(t) \/ ClearFail(t)

\* The process has not been terminated by an exception out of ~lock_guard.
Alive == \A t \in Users : pc[t] # "aborted"

MutexNext == Alive /\ \E t \in Users : Step(t)

MutexSpec == MutexInit /\ [][MutexNext]_mutexVars

(***************************************************************************)
(* Properties                                                              *)
(***************************************************************************)
Inside == {t \in Users : pc[t] \in InsidePCs}

Lock == INSTANCE ExclusiveLock WITH Threads <- Users, inside <- Inside

\* protected_mutex implements the exclusive lock, also under misuse: nobody
\* enters beside an owner and only the owner's unlock() ends its ownership.
ImplementsLock == Lock!Spec

\* "It throws exceptions instead undefined behavior", for unlock(): whoever
\* gets past the check of unlock() has the inner mutex.
UnlockOnlyByOwner == \A t \in Users : pc[t] = "unlocking" => mutex = t

\* lock() never throws "Owner try to relock" at a thread that has left
\* unlock(): a stale _ows never names a thread outside the lock.
NoFalseRelock == \A t \in Users : pc[t] \in {"idle", "locking"} => ows # t

\* The inductive invariant: the inner mutex belongs to exactly the thread
\* between InnerLock and InnerUnlock, and _ows names a thread only from its
\* LockStore to its Clear.
MutexInv == /\ MutexTypeOK
            /\ \A t \in Users : mutex = t <=> t \in Inside
            /\ \A t \in Users :
                  ows = t => pc[t] \in (InsidePCs \ {"storing"}) \cup {"clearing"}
=============================================================================
