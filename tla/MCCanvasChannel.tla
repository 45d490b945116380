---------------------------- MODULE MCCanvasChannel ----------------------------
(* TLC instance of CanvasChannel: two scenes that the candidate goes back   *)
(* and forth between, two sends at a time.                                  *)
EXTENDS CanvasChannel
=============================================================================
