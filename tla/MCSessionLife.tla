---------------------------- MODULE MCSessionLife ----------------------------
(* TLC instance of SessionLife: a candidate who joins up to three times.    *)
EXTENDS SessionLife
=============================================================================
