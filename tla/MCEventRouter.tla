---------------------------- MODULE MCEventRouter ----------------------------
(* TLC instance of EventRouter.                                             *)
EXTENDS EventRouter, TLC

InterimSymmetry == Permutations(Interims)
==============================================================================
