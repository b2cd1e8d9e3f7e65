----------------------------- MODULE MCObserver -----------------------------
(* Observer with a sink in the loop and one without, notified by the       *)
(* loop's thread, by the thread that constructed the loop and by another.  *)
EXTENDS Observer, TLC
=============================================================================
