---------------------------- MODULE MCSessionStore ----------------------------
(* TLC instance of SessionStore: turns, canvas messages and dispatches that *)
(* contend for the key.                                                     *)
EXTENDS SessionStore
=============================================================================
