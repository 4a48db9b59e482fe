---------------------------- MODULE RetryDecision ----------------------------
(***************************************************************************)
(* The retry engine, internal/retry/retry.go: a pure decision on a failed  *)
(* attempt.  Durations are left out except for what they decide: whether   *)
(* the request's deadline has passed, and whether the delay would reach    *)
(* past it.  The proxy always asks in plan mode and without a deadline.    *)
(***************************************************************************)
EXTENDS Integers

ErrorClasses == {"invalid_request", "authentication", "payment_required", "model_not_found",
                 "rate_limit", "quota_exhausted", "timeout", "transport", "server",
                 "malformed_response", "cancelled", "unknown"}
Deliveries == {"nothing_sent", "headers_sent", "body_started", "stream_completed"}
Actions == {"retry_same_route", "fail_over", "return_terminal_error",
            "terminate_partial_stream", "return_client_cancelled"}
HealthEffects == {"none", "backoff_route", "backoff_credential", "mark_route_stale",
                  "block_credential"}

Inputs == [class: ErrorClasses, delivery: Deliveries, planMode: BOOLEAN,
           maximum: Int,             \* Policy.MaximumAttempts
           attempt: Int,             \* 1-based, the attempt that failed
           sameRoute: BOOLEAN,       \* SameRouteAvailable
           fallbacks: Int,           \* FallbacksRemaining
           retries: Int,             \* SameRouteRetriesRemaining
           entries: Int,             \* PlanEntriesRemaining
           budget: Int,              \* TotalAttemptsRemaining
           deadlinePassed: BOOLEAN, delayTooLong: BOOLEAN]

(* Classes that say the route or its credential is of no use for the request. *)
RouteIsUseless == {"authentication", "payment_required", "model_not_found", "malformed_response"}
Retryable == {"rate_limit", "timeout", "transport", "server"} \cup RouteIsUseless

Decision(action, health) == [action |-> action, health |-> health]
Terminal(health) == Decision("return_terminal_error", health)

HealthOf(class) ==
    CASE class \in {"authentication", "payment_required"} -> "backoff_credential"
      [] class = "model_not_found" -> "mark_route_stale"
      [] OTHER -> "backoff_route"

Target(in) == IF in.planMode THEN in.entries > 0 ELSE in.fallbacks > 0

(* Whether the route that failed is not tried again at once. *)
LeaveRoute(in) ==
    \/ in.class \in RouteIsUseless
    \/ in.planMode /\ in.retries <= 0
    \/ ~in.planMode /\ (~in.sameRoute \/ in.attempt > 1)

Decide(in) ==
    CASE in.class = "cancelled" -> Decision("return_client_cancelled", "none")
      [] in.class # "cancelled" /\ in.delivery # "nothing_sent" ->
            Decision("terminate_partial_stream", "none")
      [] in.class = "invalid_request" /\ in.delivery = "nothing_sent" -> Terminal("none")
      [] in.class = "quota_exhausted" /\ in.delivery = "nothing_sent" ->
            IF Target(in) THEN Decision("fail_over", "block_credential")
            ELSE Terminal("block_credential")
      [] OTHER ->
            IF \/ in.planMode /\ in.budget <= 1
               \/ in.attempt < 1 \/ in.attempt >= in.maximum
               \/ in.deadlinePassed
               \/ in.class \notin Retryable
            THEN Terminal("none")
            ELSE IF LeaveRoute(in) /\ ~Target(in) /\ (in.planMode \/ ~in.sameRoute)
            THEN Terminal(HealthOf(in.class))
            ELSE IF in.delayTooLong THEN Terminal(HealthOf(in.class))
            ELSE Decision(IF LeaveRoute(in) /\ Target(in) THEN "fail_over" ELSE "retry_same_route",
                          HealthOf(in.class))
=============================================================================
