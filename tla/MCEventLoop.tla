---------------------------- MODULE MCEventLoop ----------------------------
(* EventLoop for one owner and two clients, one of which calls twice.  The *)
(* modulus is larger than all callbacks the bounds allow, start lambdas    *)
(* included.                                                               *)
EXTENDS Timers, TLC

CONSTANTS c1, c2

OneCallsTwice == (c1 :> 2) @@ (c2 :> 1)
=============================================================================
