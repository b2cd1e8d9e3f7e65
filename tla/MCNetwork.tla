----------------------------- MODULE MCNetwork -----------------------------
(* Network with two connections, of which one may wait to be accepted.     *)
EXTENDS Network
=============================================================================
