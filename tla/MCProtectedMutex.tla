-------------------------- MODULE MCProtectedMutex --------------------------
(* ProtectedMutex for a few threads: all of them users of std::lock_guard, *)
(* or some of them calling lock() and unlock() improperly.                 *)
EXTENDS ProtectedMutex, TLC
=============================================================================
