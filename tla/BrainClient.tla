------------------------------ MODULE BrainClient ------------------------------
(***************************************************************************)
(* BrainClient.decide() (brain/client.py): one call at a time, the SDK's    *)
(* attempts under it, the deadline over it, and what becomes of the answer. *)
(* An attempt the provider has worked on is charged whether or not its      *)
(* answer is heard; what decide() reports is what the session's cost cap    *)
(* counts.                                                                  *)
(***************************************************************************)
EXTENDS Naturals

CONSTANTS MaxRetries   \* the SDK's max_retries

ASSUME RetriesAssumption == MaxRetries \in Nat

VARIABLES
  call,        \* "idle", "waiting" for the provider, or the answer is "ready"
  retries,     \* of the call under way
  charge,      \* of the answer that is ready
  charged,     \* history: by the provider, for the last call
  counted,     \* cost_usd of the decision it returned
  abandoned    \* history: an attempt of it failed, timed out or was cancelled

brain == <<call, retries, charge, charged, counted, abandoned>>

BrainInit ==
  /\ call = "idle" /\ retries = 0 /\ charge = 0
  /\ charged = 0 /\ counted = 0 /\ abandoned = FALSE

(* What decide() tells apart in a Message, and the decision it makes of it. *)
Answers ==
  {"speak", "unsure", "quiet", "xml_updates", "bad_stop", "no_block", "no_object",
   "off_schema", "too_long", "control_chars"}

StaySilent(reason) == [decision |-> "stay_silent", reason |-> reason]
SchemaViolation == StaySilent("schema_violation")

SanitizeUtterance(answer) ==
  CASE answer = "too_long" -> "utterance_too_long"
    [] answer = "control_chars" -> "utterance_has_control_chars"
    [] OTHER -> "none"

(* state_updates that came as text are recovered before they are validated. *)
FromToolBlock(answer) ==
  IF SanitizeUtterance(answer) # "none" THEN StaySilent(SanitizeUtterance(answer))
  ELSE IF answer = "quiet" THEN StaySilent("none")
  ELSE [decision |-> "speak", reason |-> "none"]

DecisionOf(answer) ==
  CASE answer = "bad_stop" -> StaySilent("unexpected_stop_reason")
    [] answer = "no_block" -> StaySilent("missing_tool_block")
    [] answer \in {"no_object", "off_schema"} -> SchemaViolation
    [] OTHER -> FromToolBlock(answer)

-----------------------------------------------------------------------------
Decide ==
  /\ call = "idle" /\ call' = "waiting"
  /\ charged' = 0 /\ counted' = 0 /\ abandoned' = FALSE
  /\ UNCHANGED <<retries, charge>>

(* The provider finishes its work; a response may come without a usage.     *)
Generates ==
  /\ call = "waiting" /\ call' = "ready"
  /\ \E c \in {0, 1} : charge' = c /\ charged' = charged + c
  /\ UNCHANGED <<retries, counted, abandoned>>

Abandons ==
  /\ call # "idle" /\ abandoned' = TRUE
  /\ charge' = 0
  /\ UNCHANGED <<charged, counted>>

(* 429, 5xx, or the connection is lost: the SDK tries again.                *)
Retries ==
  /\ Abandons /\ retries < MaxRetries
  /\ retries' = retries + 1 /\ call' = "waiting"

Finishes == call' = "idle" /\ retries' = 0

UsageOf_ToolUseOnly(answer) == IF answer = "bad_stop" THEN 0 ELSE charge
UsageOf(answer) == charge

Receives(answer) ==
  /\ call = "ready" /\ Finishes
  /\ counted' = UsageOf(answer) /\ charge' = 0
  /\ UNCHANGED <<charged, abandoned>>

(* RateLimitError, APIStatusError after the last try.                       *)
FailsQuietly == Abandons /\ retries = MaxRetries /\ Finishes

(* The deadline: wait_for's TimeoutError, or the APIConnectionError that    *)
(* the SDK makes of the cancellation.                                       *)
TimesOut == Abandons /\ Finishes

(* 400 and 401, not retried; a connection lost for good before the deadline.*)
Raises ==
  /\ Abandons /\ Finishes
  /\ call = "waiting" \/ retries = MaxRetries

(* cancel_in_flight(): CancelledError propagates, or the SDK makes an       *)
(* APIConnectionError of it, before the deadline.                           *)
Cancelled == Abandons /\ Finishes
=============================================================================
