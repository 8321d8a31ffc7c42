------------------------------ MODULE Telemetry ------------------------------
(***************************************************************************)
(* What run_observe (app/observability/observe.py) and run_incident        *)
(* (app/incident/diagnose.py) derive from their fixed population and from  *)
(* the traces they build.  Times are milliseconds, costs are units of      *)
(* 0.0001 dollar, rates are tenths of a percent, scores hundredths.        *)
(***************************************************************************)
EXTENDS Incident, ReleaseGates, FiniteSetsExt, Functions

\* The children of a trace laid out one after the other, then their root: the
\* order in which _build_trace ends its spans
Span(name, start_ms, duration_ms) ==
    [span |-> name, start_ms |-> start_ms, duration_ms |-> duration_ms]

\* cost of the stage with that span
CostOf(stages, name) ==
    stages[CHOOSE i \in 1..Len(stages) : stages[i].span = name].cost

\* The two exemplar traces of run_observe, and the trace of run_incident
FailoverStages == FallbackStages(1200, 200, 400)
SlowStages == HealthyStages(2100)

----------------------------------------------------------------------------
HealthyMs == 712
FailoverMs == 1812
SlowMs == 2112

\* The batch, in ascending order of latency
Latencies == [i \in 1..20 |-> IF i <= 15 THEN HealthyMs
                              ELSE IF i <= 18 THEN FailoverMs ELSE SlowMs]

CostOfLatency(ms) == IF ms = FailoverMs THEN 52 ELSE 81

\* _percentile of a sorted list
Percentile(values, pct) == values[RoundHalfEven(pct * (Len(values) - 1), 100) + 1]

Rate(part, whole) == RoundHalfEven(1000 * part, whole)

Fallbacks == 3
Retries == 3
QueuePeak == 4
CostTotal ==
    MapThenSumSet(LAMBDA i : CostOfLatency(Latencies[i]), 1..Len(Latencies))

Metrics ==
    [latency_p50_ms |-> Percentile(Latencies, 50),
     latency_p95_ms |-> Percentile(Latencies, 95),
     availability |-> Rate(Len(Latencies), Len(Latencies)),
     fallback_rate |-> Rate(Fallbacks, Len(Latencies)),
     retry_rate |-> Rate(Retries, Len(Latencies)),
     queue_depth |-> QueuePeak,
     cost |-> CostTotal,
     requests |-> Len(Latencies)]

----------------------------------------------------------------------------
QualityBar == 85

\* The sampled requests, named by the start of their ids, and their scores
Scores == [r6b1e |-> 92, r9f04 |-> 90, r2a7c |-> 55, rc3d8 |-> 61, r77b2 |-> 88]

QualityStatus(id) == IF Scores[id] >= QualityBar THEN "pass" ELSE "fail"

PassRate == Rate(Cardinality({id \in DOMAIN Scores : QualityStatus(id) = "pass"}),
                 Cardinality(DOMAIN Scores))

\* The series of GET /metrics, the histogram as the latencies it counted
MetricsExposition ==
    [latencies |-> Latencies, requests |-> Len(Latencies), fallbacks |-> Fallbacks,
     retries |-> Retries, queue_depth |-> QueuePeak, cost |-> CostTotal,
     quality_pass_rate |-> PassRate]

\* The objectives that run_observe finds breached
Firing ==
    LET breached == [availability |-> Metrics.availability < 990,
                     latency_p95 |-> Metrics.latency_p95_ms > 2500,
                     quality_pass_rate |-> PassRate < 900]
    IN  {slo \in DOMAIN breached : breached[slo]}

\* The three structured logs: what _structured_log emits, and what the report
\* keeps of them once sample_verdict has been looked up
Event(id, latency_ms, quality_status) ==
    [request_id |-> id, latency_ms |-> latency_ms, quality_status |-> quality_status]

EmittedLogs == <<Event("r6b1e", HealthyMs, "pass"), Event("r4f18", FailoverMs, "pass"),
                 Event("r2a7c", SlowMs, "fail")>>

SampleVerdict(id) == IF id \in DOMAIN Scores THEN QualityStatus(id) ELSE "not_sampled"

Logs == [i \in 1..Len(EmittedLogs) |->
           [EmittedLogs[i] EXCEPT !.quality_status = SampleVerdict(EmittedLogs[i].request_id)]]

\* The report of run_observe on the two traces it built
ObserveReport(failover, slow) ==
    [trace |-> [trace_id |-> failover, request_id |-> "r4f18",
                total_ms |-> ChildTotal(FailoverStages)],
     logs |-> Logs,
     metrics |-> Metrics,
     metrics_exposition |-> MetricsExposition,
     quality |-> [sample_size |-> Cardinality(DOMAIN Scores), pass_rate |-> PassRate],
     slo |-> [firing |-> Firing, disposition |-> IF Firing # {} THEN "ALERT" ELSE "OK"],
     diagnose |-> [trace_id |-> slow, request_id |-> "r2a7c",
                   total_ms |-> ChildTotal(SlowStages),
                   slowest_ms |-> CostOf(SlowStages, "provider_call")],
     correlate |-> [request_id |-> "r2a7c", quality_status |-> "fail"]]

----------------------------------------------------------------------------
\* The cost drift of the incident and its two drivers
CostDrivers == [retries |-> 50, fallback |-> 15]

WindowRequests == 40
Accepted == 34
Rejected429 == 6
Sampled == 25
SamplesPassed == 17
FailureReasons == <<3, 3, 2>>

IncidentQuality ==
    [sample_size |-> Sampled, sampled_from |-> Accepted, passed |-> SamplesPassed,
     failed |-> Sampled - SamplesPassed, pass_rate |-> Rate(SamplesPassed, Sampled),
     failure_reasons |-> FailureReasons]

\* The dimensions that the operator decides about
IncidentAction == {"latency", "quota", "cost", "quality"}

\* The contributors to the incident's latency: four named stages, and what
\* remains of the total
Contributors ==
    LET by(span) == CostOf(IncidentStages, span)
        other == ChildTotal(IncidentStages) - (by("queue") + by("retry_backoff")
                     + by("fallback") + by("provider_call"))
    IN  [queue |-> by("queue"), retry_backoff |-> by("retry_backoff"),
         fallback |-> by("fallback"), other |-> other,
         provider_call |-> by("provider_call")]

\* The report of run_incident on the trace it built
IncidentReport(traced) ==
    [alerts |-> FireOrder,
     dashboard |-> Dashboard,
     isolate |-> [trace_id |-> traced, total_ms |-> ChildTotal(IncidentStages),
                  contributors |-> Contributors,
                  shares |-> [s \in DOMAIN Contributors |->
                                Rate(Contributors[s], ChildTotal(IncidentStages))]],
     quota |-> [submitted |-> WindowRequests, accepted |-> Accepted,
                rejected_429 |-> Rejected429, utilization |-> 98],
     cost |-> [baseline |-> 120, current |-> 185, drivers |-> CostDrivers,
               reconciles |-> 120 + CostDrivers.retries + CostDrivers.fallback = 185],
     quality |-> IncidentQuality,
     action |-> IncidentAction]
============================================================================
