------------------------------ MODULE Incident ------------------------------
(***************************************************************************)
(* The fixed population behind the observability endpoints: the stages of  *)
(* a traced request and the numbers of the operator dashboard              *)
(* (app/observability/observe.py, app/incident/diagnose.py).  Times are    *)
(* milliseconds, costs are units of 0.0001 dollar, rates are percent.      *)
(***************************************************************************)
EXTENDS Integers, Sequences

Stage(span, cost) == [span |-> span, cost |-> cost]

HealthyStages(provider_ms) ==
    <<Stage("ingress", 2), Stage("queue", 6), Stage("routing", 3),
      Stage("provider_call", provider_ms), Stage("response", 1)>>

FallbackStages(primary_ms, backoff_ms, fallback_ms) ==
    <<Stage("ingress", 2), Stage("queue", 6), Stage("routing", 3),
      Stage("provider_call", primary_ms), Stage("retry_backoff", backoff_ms),
      Stage("fallback", fallback_ms), Stage("response", 1)>>

IncidentStages_LongBackoff ==
    <<Stage("ingress", 2), Stage("queue", 40), Stage("routing", 3),
      Stage("provider_call", 3100), Stage("retry_backoff", 250),
      Stage("fallback", 400), Stage("response", 5)>>

IncidentStages ==
    <<Stage("ingress", 2), Stage("queue", 40), Stage("routing", 3),
      Stage("provider_call", 3100), Stage("retry_backoff", 200),
      Stage("fallback", 400), Stage("response", 5)>>

\* child_total in _build_trace: where the root span ends
ChildTotal(stages) ==
    LET upTo[i \in 0..Len(stages)] ==
            IF i = 0 THEN 0 ELSE upTo[i - 1] + stages[i].cost
    IN  upTo[Len(stages)]

----------------------------------------------------------------------------
Dimensions == {"latency", "quota", "cost", "quality"}

\* The order of the alert timeline and of _FIRE
FireOrder == <<"latency", "quota", "cost", "quality">>

Rank(d) == CHOOSE i \in 1..Len(FireOrder) : FireOrder[i] = d

\* The three numbers of a dashboard panel; the current latency is measured
\* from the incident's trace.
Panel(baseline, current, objective) ==
    [baseline |-> baseline, current |-> current, objective |-> objective]

Dashboard ==
    [latency |-> Panel(950, ChildTotal(IncidentStages), 2500),
     quota   |-> Panel(55, 98, 90),
     cost    |-> Panel(120, 185, 150),
     quality |-> Panel(92, 68, 90)]

\* The comparator of a panel: a pass rate is a floor, the others a ceiling.
Breaches(d, value) == IF d = "quality" THEN value < Dashboard[d].objective
                      ELSE value > Dashboard[d].objective

\* "at" of the alert timeline, in seconds
AlertAt == [latency |-> 30, quota |-> 70, cost |-> 120, quality |-> 160]

============================================================================
