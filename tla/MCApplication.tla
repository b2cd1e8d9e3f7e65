--------------------------- MODULE MCApplication ---------------------------
(* Application with one thread besides the main and the signal thread.     *)
EXTENDS Application
=============================================================================
