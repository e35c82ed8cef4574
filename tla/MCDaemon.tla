------------------------------ MODULE MCDaemon ------------------------------
(* Clients with the token and one without it.                              *)
EXTENDS Daemon

CONSTANTS c1, c2, stranger
=============================================================================
