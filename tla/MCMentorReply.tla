---------------------------- MODULE MCMentorReply ----------------------------
(* TLC instance of MentorReply.                                             *)
EXTENDS MentorReply

MCUtterances == 1 .. MaxEvents
=============================================================================
