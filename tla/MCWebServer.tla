---------------------------- MODULE MCWebServer ----------------------------
(* WebServer with two threads: one connection to accept and one in use.    *)
EXTENDS WebServer
=============================================================================
