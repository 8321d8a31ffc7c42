------------------------------ MODULE Breaker ------------------------------
(***************************************************************************)
(* The circuit breaker of app/resilience/circuit.py as operators: what one *)
(* pass of run_drill's loop does with the breaker's local state and one    *)
(* condition of the primary.  CircuitBreaker folds it over a script,       *)
(* CircuitDrill runs it in threads that share the stores.                  *)
(*                                                                         *)
(* The loop asks a condition one question, whether it is "healthy".        *)
(*                                                                         *)
(* An operator named Op_Variant is not part of the specification: it is a  *)
(* plausible bug in Op, used to see that a property notices it.            *)
(***************************************************************************)
EXTENDS Integers

CONSTANTS
    FailureThreshold,   \* FAILURE_THRESHOLD
    CooldownProbes,     \* COOLDOWN_PROBES
    MaxAttempts         \* BACKOFF_MAX_ATTEMPTS

ASSUME BreakerConstants ==
    /\ FailureThreshold \in Nat \ {0}
    /\ CooldownProbes \in Nat
    /\ MaxAttempts \in Nat \ {0}

Roles == {"primary", "fallback"}

\* state, consecutive_failures and probes_since_open between two requests
BreakerState == [state : {"closed", "open"}, failures : Nat, probes : Nat]

Fresh == [state |-> "closed", failures |-> 0, probes |-> 0]

\* An open circuit that has waited out its cooldown gets one probe.
Handling(b) ==
    IF b.state = "open" /\ b.probes >= CooldownProbes THEN "half_open"
    ELSE b.state

Outcome(b, role, attempts, transition) ==
    [breaker |-> b, role |-> role, attempts |-> attempts,
     transition |-> transition]

\* Open: the primary is skipped.
Shed_NotCounted(b) == Outcome(b, "fallback", 0, "shed")

Shed(b) == Outcome([b EXCEPT !.probes = @ + 1], "fallback", 0, "shed")

\* Half-open: one probe to the primary.
ProbeSucceeds(b) == Outcome(Fresh, "primary", 1, "recovered")

ProbeFails_Retries(b) ==
    Outcome([state |-> "open", failures |-> b.failures, probes |-> 0],
            "fallback", MaxAttempts, "probe_failed")

ProbeFails_StaysHalfOpen(b) ==
    Outcome([state |-> "half_open", failures |-> b.failures, probes |-> 0],
            "fallback", 1, "probe_failed")

ProbeFails(b) ==
    Outcome([state |-> "open", failures |-> b.failures, probes |-> 0],
            "fallback", 1, "probe_failed")

\* Closed: the primary serves, or is retried to the cap and failed over.
Serve_KeepsFailures(b) == Outcome(b, "primary", 1, "healthy")

Serve(b) == Outcome([b EXCEPT !.failures = 0], "primary", 1, "healthy")

FailOver_TripsLate(b) ==
    IF b.failures >= FailureThreshold
    THEN Outcome([state |-> "open", failures |-> b.failures + 1, probes |-> 0],
                 "fallback", MaxAttempts, "trip")
    ELSE Outcome([b EXCEPT !.failures = @ + 1],
                 "fallback", MaxAttempts, "failover")

FailOver_ExtraTry(b) ==
    IF b.failures + 1 >= FailureThreshold
    THEN Outcome([state |-> "open", failures |-> b.failures + 1, probes |-> 0],
                 "fallback", MaxAttempts + 1, "trip")
    ELSE Outcome([b EXCEPT !.failures = @ + 1],
                 "fallback", MaxAttempts + 1, "failover")

FailOver(b) ==
    IF b.failures + 1 >= FailureThreshold
    THEN Outcome([state |-> "open", failures |-> b.failures + 1, probes |-> 0],
                 "fallback", MaxAttempts, "trip")
    ELSE Outcome([b EXCEPT !.failures = @ + 1],
                 "fallback", MaxAttempts, "failover")

\* One request of the loop, under the primary's condition c.
Handle(b, c) ==
    CASE Handling(b) = "open" -> Shed(b)
      [] Handling(b) = "half_open" /\ c = "healthy" -> ProbeSucceeds(b)
      [] Handling(b) = "half_open" /\ c # "healthy" -> ProbeFails(b)
      [] Handling(b) = "closed" /\ c = "healthy" -> Serve(b)
      [] Handling(b) = "closed" /\ c # "healthy" -> FailOver(b)

\* What the same request costs a caller that has no breaker.
UnguardedAttempts(c) == IF c = "healthy" THEN 1 ELSE MaxAttempts
============================================================================
