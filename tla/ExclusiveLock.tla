--------------------------- MODULE ExclusiveLock ---------------------------
(***************************************************************************)
(* What protected_mutex promises to its callers: a BasicLockable exclusive *)
(* lock.  A thread enters only when nobody is inside, and only a thread    *)
(* that is inside leaves.                                                  *)
(***************************************************************************)
CONSTANT Threads
VARIABLE inside     \* the threads between lock() and unlock()

Init == inside = {}

Enter(t) == inside = {} /\ inside' = {t}
Leave(t) == inside = {t} /\ inside' = {}

Next == \E t \in Threads : Enter(t) \/ Leave(t)

Spec == Init /\ [][Next]_inside
=============================================================================
