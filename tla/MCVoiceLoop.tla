----------------------------- MODULE MCVoiceLoop -----------------------------
(* TLC instance of VoiceLoop: overlapping turns, canvas messages, a         *)
(* barge-in.                                                                *)
EXTENDS VoiceLoop
=============================================================================
