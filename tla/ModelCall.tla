------------------------------ MODULE ModelCall ------------------------------
(* One bounded call of a model: llm/client.py.  Time is counted in ticks, a  *)
(* budget bounds every attempt and every wait between attempts.              *)
EXTENDS Integers, Sequences, FiniteSets

CONSTANTS RequestTimeout,   \* the longest one attempt may take
          MinAttempt,       \* the least time an attempt is worth starting with
          RetryDelay,       \* the wait before the second attempt, growing with each
          MaxRetries,       \* attempts after the first
          MinOutputBudget,  \* tokens below which an answer cannot be completed
          TpmLimit,         \* tokens a minute the account allows
          SafetyMargin,     \* tokens held back from them
          MaxTokens         \* tokens asked for

ASSUME ModelCallAssumption ==
    /\ {RequestTimeout, MinAttempt, RetryDelay, MaxRetries} \subseteq Nat
    /\ {MinOutputBudget, TpmLimit, SafetyMargin, MaxTokens} \subseteq Nat
    /\ MinAttempt > 0

Smaller(a, b) == IF a < b THEN a ELSE b
Larger(a, b)  == IF a < b THEN b ELSE a

\* What is left of the minute for the answer once the prompt is paid for.
OutputBudget(prompt) == Larger(0, Smaller(MaxTokens, TpmLimit - prompt - SafetyMargin))

-----------------------------------------------------------------------------
(* What a provider answers                                                 *)

TransientStatus == {408, 413, 429}

RefusedForGood(status) == status \in (400 .. 499) \ TransientStatus

\* Keys nobody asked for are dropped; any other fault of the answer refuses it whole.
Accepts(errors) == errors \subseteq {"extra_forbidden"}

\* The boundary at which a reply is found wanting, "none" for one that is accepted.
PhaseOf(reply) ==
    CASE reply.status = 0 -> "transport"
      [] reply.status >= 400 -> "provider_status"
      [] reply.body # "read" -> reply.body
      [] reply.finish = "length" -> "truncated"
      [] ~reply.json -> "content_json"
      [] ~Accepts(reply.errors) -> "response_schema"
      [] ~reply.usage -> "audit_schema"
      [] OTHER -> "none"

\* Asking again cannot mend a refusal, a truncated answer or one of the wrong shape.
IsFinal(reply) ==
    \/ PhaseOf(reply) \in {"truncated", "response_schema", "audit_schema"}
    \/ PhaseOf(reply) = "provider_status" /\ RefusedForGood(reply.status)

-----------------------------------------------------------------------------
(* The call                                                                *)

\* at: "ready" between attempts, "asked" with one in flight, "over" when it ended.
Opened(budget) == [at |-> "ready", budget |-> budget, spent |-> 0, attempt |-> 0,
                   phase |-> "none", answer |-> <<>>]

Failed(call, phase) == [call EXCEPT !.at = "over", !.phase = phase]

Preflight(call, key, prompt) ==
    CASE ~key -> Failed(call, "preflight_missing_key")
      [] key /\ OutputBudget(prompt) < MinOutputBudget -> Failed(call, "preflight_output_budget")
      [] OTHER -> call

Left(call) == call.budget - call.spent

AttemptLimit(call) == Smaller(RequestTimeout, Left(call))

Ask(call) == IF Left(call) < MinAttempt THEN Failed(call, "budget_exhausted")
             ELSE [call EXCEPT !.at = "asked", !.attempt = @ + 1]

\* A wait is begun only when a real attempt still fits behind it.
WaitOrGiveUp(call, phase) ==
    LET delay == RetryDelay * call.attempt
    IN  CASE call.attempt > MaxRetries -> Failed(call, phase)
          [] call.attempt <= MaxRetries /\ Left(call) < delay + MinAttempt ->
                Failed(call, "budget_exhausted")
          [] OTHER -> [call EXCEPT !.at = "ready", !.spent = @ + delay]

Answered(call, reply, took) ==
    LET now == [call EXCEPT !.spent = @ + took]
    IN  CASE PhaseOf(reply) = "none" ->
                [now EXCEPT !.at = "over", !.phase = "none", !.answer = reply.tasks]
          [] IsFinal(reply) -> Failed(now, PhaseOf(reply))
          [] OTHER -> WaitOrGiveUp(now, PhaseOf(reply))
=============================================================================
