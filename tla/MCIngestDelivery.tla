--------------------------- MODULE MCIngestDelivery ---------------------------
(* TLC instance of IngestDelivery: one session that is created, ended and   *)
(* deleted by calls that race with the agent's appends.                     *)
EXTENDS IngestDelivery

CONSTANTS s1, u1, u2, c1, c2, c3

MCCalls == UserCalls \cup (Payloads \X (1 .. MaxAttempts))

Ask(route, who) == [route |-> route, session |-> s1, who |-> who, shape |-> "fits"]
MCScript ==
  [c \in UserCalls |->
    CASE c = c1 -> {Ask("create", u1)}
      [] c = c2 -> {Ask("end", u1), Ask("end", u2), Ask("token", u2), Ask("bootstrap", Agent)}
      [] c = c3 -> {Ask("end", u1), Ask("delete", u1), Ask("get", u1), Ask("get", u2), Ask("list", u2)}]
=============================================================================
