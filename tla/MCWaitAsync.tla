---------------------------- MODULE MCWaitAsync ----------------------------
(* WaitAsync for four calls that share a loop: waits with and without a    *)
(* timeout, each with and without a result.                                *)
EXTENDS WaitAsync, TLC
=============================================================================
