---------------------------- MODULE MCWebClient ----------------------------
(* WebClient with two requests.                                        *)
EXTENDS WebClient
=============================================================================
