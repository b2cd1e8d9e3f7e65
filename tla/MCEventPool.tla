---------------------------- MODULE MCEventPool ----------------------------
(* EventPool for three threads and two clients.  The modulus is larger     *)
(* than all callbacks the bounds allow.                                    *)
EXTENDS EventPool, TLC
=============================================================================
