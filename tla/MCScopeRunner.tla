--------------------------- MODULE MCScopeRunner ---------------------------
(* ScopeRunner for four threads, each of which may run handlers and call   *)
(* stop() any number of times.                                             *)
EXTENDS ScopeRunner, TLC
=============================================================================
