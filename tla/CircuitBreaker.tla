-------------------------- MODULE CircuitBreaker ---------------------------
(***************************************************************************)
(* run_drill as one thread sees it: the breaker over the requests of a     *)
(* script, with the counts the summary reports.  The repository ships one  *)
(* script; the breaker must be right for every one, so the script is any   *)
(* member of Scripts.                                                      *)
(***************************************************************************)
EXTENDS Breaker, Sequences

CONSTANTS
    Conditions,     \* the keys of CONDITIONS
    Scripts         \* the values CIRCUIT_DRILL_SEQUENCE may have

ASSUME ScriptsAssumption == Scripts \subseteq Seq(Conditions)

VARIABLES
    script,         \* CIRCUIT_DRILL_SEQUENCE
    breaker,        \* the breaker between two requests
    timeline,       \* one record per request handled
    served,         \* primary_count and fallback_count
    attempts,       \* total_primary_attempts
    unguarded,      \* attempts_without_breaker, of the requests handled
    spent           \* history: total_primary_attempts before each request

vars == <<script, breaker, timeline, served, attempts, unguarded, spent>>

Init ==
    /\ script \in Scripts
    /\ breaker = Fresh
    /\ timeline = <<>>
    /\ served = [r \in Roles |-> 0]
    /\ attempts = 0
    /\ unguarded = 0
    /\ spent = <<>>

Request ==
    LET c == script[Len(timeline) + 1]
        out == Handle(breaker, c)
    IN  /\ Len(timeline) < Len(script)
        /\ breaker' = out.breaker
        /\ timeline' = Append(timeline,
             [primary_condition |-> c, circuit |-> Handling(breaker),
              transition |-> out.transition, role |-> out.role,
              primary_attempts |-> out.attempts])
        /\ served' = [served EXCEPT ![out.role] = @ + 1]
        /\ attempts' = attempts + out.attempts
        /\ unguarded' = unguarded + UnguardedAttempts(c)
        /\ spent' = Append(spent, attempts)
        /\ UNCHANGED script

Next == Request

Spec == Init /\ [][Next]_vars

----------------------------------------------------------------------------
Entry == [primary_condition : Conditions,
          circuit : {"closed", "open", "half_open"},
          transition : {"shed", "recovered", "probe_failed", "healthy",
                        "failover", "trip"},
          role : Roles,
          primary_attempts : Nat]

\* The locals of run_drill are what its summary says they are.
TypeOK ==
    /\ script \in Seq(Conditions)
    /\ breaker \in BreakerState
    /\ timeline \in Seq(Entry)
    /\ served \in [Roles -> Nat]
    /\ attempts \in Nat
    /\ unguarded \in Nat
    /\ spent \in Seq(Nat)

\* A circuit is closed exactly below the failure threshold, and an open one
\* never waits beyond its cooldown: state, consecutive_failures and
\* probes_since_open agree between any two requests, through re-opened and
\* recovered circuits.
StateAgrees ==
    /\ breaker.state = "closed" <=> breaker.failures < FailureThreshold
    /\ breaker.state = "open" => breaker.probes <= CooldownProbes

\* No retry storm: the breaker never costs the primary more attempts than
\* callers without one would make, nor more than the retry budget ceiling.
StormBound ==
    /\ attempts <= unguarded
    /\ unguarded <= MaxAttempts * Len(timeline)

\* Every request is answered once, by the primary only if it was healthy and
\* the circuit let the request through ("the primary only serves when it is
\* healthy again").
EveryCallerServed ==
    /\ served["primary"] + served["fallback"] = Len(timeline)
    /\ \A i \in 1..Len(timeline) : timeline[i].role = "primary" =>
         /\ timeline[i].primary_condition = "healthy"
         /\ timeline[i].circuit # "open"

Unhealthy(i) == timeline[i].primary_condition # "healthy"

AttemptsFrom(i) == attempts - spent[i]

\* An outage has a budget: however long the primary fails without a break, it
\* sees the attempts of FAILURE_THRESHOLD requests and then one probe per
\* cooldown, whatever state the outage found the breaker in.
OutageBudget == \A i \in 1..Len(timeline) :
    (\A j \in i..Len(timeline) : Unhealthy(j)) =>
        LET length == Len(timeline) - i + 1
            retried == IF length < FailureThreshold THEN length
                       ELSE FailureThreshold
        IN  AttemptsFrom(i) <= MaxAttempts * retried
                + (length + CooldownProbes) \div (CooldownProbes + 1)

\* A healed primary is back in service within one cooldown and one probe:
\* after that many healthy requests in a row the circuit is closed.
RecoversWithinCooldown ==
    LET last == Len(timeline) IN
    /\ last > CooldownProbes
    /\ \A j \in last - CooldownProbes .. last : ~Unhealthy(j)
    => breaker.state = "closed"

\* Only FAILURE_THRESHOLD failing requests with no success between them trip
\* the circuit, and never fewer.
TripNeedsRunOfFailures == \A i \in 1..Len(timeline) :
    timeline[i].transition = "trip" =>
        /\ i >= FailureThreshold
        /\ \A j \in i - FailureThreshold + 1 .. i :
             Unhealthy(j) /\ timeline[j].circuit = "closed"
============================================================================
