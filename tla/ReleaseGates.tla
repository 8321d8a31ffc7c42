---------------------------- MODULE ReleaseGates ----------------------------
(***************************************************************************)
(* The decisions of app/lifecycle: the baseline gate (validation.py), the  *)
(* canary and its exposure (canary.py), the deployment pattern and the     *)
(* maturity level (readiness.py).  Quality and cost are hundredths, rates    *)
(* tenths of a percent, times milliseconds.                                *)
(***************************************************************************)
EXTENDS Integers, FiniteSets

Floor(threshold) == [threshold |-> threshold, direction |-> "min"]
Ceiling(threshold) == [threshold |-> threshold, direction |-> "max"]

\* BASELINE and PROMOTION_CRITERIA
Baseline == [quality |-> Floor(90), latency |-> Ceiling(800), cost |-> Ceiling(35),
             failure |-> Ceiling(10), contract |-> Floor(990)]

PromotionCriteria == [quality |-> Floor(90), latency |-> Ceiling(900),
                      cost |-> Ceiling(35), failure |-> Ceiling(10),
                      contract |-> Floor(990)]

Passes(value, bar) == IF bar.direction = "min" THEN value >= bar.threshold
                      ELSE value <= bar.threshold

\* The dimensions that miss their bar
Breached(metrics, bars) == {d \in DOMAIN bars : ~Passes(metrics[d], bars[d])}

\* gate: eligible only if every dimension clears the baseline
Gate(metrics) == [breaches |-> Breached(metrics, Baseline),
                  eligible |-> Breached(metrics, Baseline) = {}]

\* The report of run_validation on the passing and the failing candidate: the
\* decisions are fixed words, eligibility is computed.
ValidationReport(candidates) ==
    LET gated == [c \in DOMAIN candidates |-> Gate(candidates[c])]
        Eligible(yes) == {c \in DOMAIN candidates : gated[c].eligible = yes}
    IN  [gate |-> [checks |-> Cardinality(DOMAIN Baseline) * Cardinality(DOMAIN candidates)],
         baseline |-> Baseline,
         report |-> gated,
         pass |-> gated.passing,
         fail |-> gated.failing,
         decision |-> [passing |-> "promote_to_candidate_default", failing |-> "blocked"],
         reconcile |-> [eligible_candidates |-> Eligible(TRUE),
                        blocked_candidates |-> Eligible(FALSE),
                        disposition |-> "CONFIRMED"]]

----------------------------------------------------------------------------
\* Python's round(num / den): to the nearest, half to even
RoundHalfEven(num, den) ==
    LET q == num \div den
        twice == 2 * (num % den)
    IN  IF twice > den \/ (twice = den /\ q % 2 = 1) THEN q + 1 ELSE q

\* math.ceil(ELIGIBLE_REQUESTS * CANARY_PCT / 100)
CanaryRequests(n, pct) == (n * pct + 99) \div 100

\* The receipt trail: the last requests of the window take the canary lane.
Lanes(n, pct) ==
    [i \in 1..n |-> IF i > n - CanaryRequests(n, pct) THEN "canary" ELSE "approved"]

InLane(lanes, lane) == Cardinality({i \in DOMAIN lanes : lanes[i] = lane})

MeasuredExposure(n, pct) == RoundHalfEven(100 * InLane(Lanes(n, pct), "canary"), n)

Bounded_Strict(n, pct) == MeasuredExposure(n, pct) < pct

\* It compares what was rounded: a third of a point too much is still bounded.
Bounded(n, pct) == MeasuredExposure(n, pct) <= pct

\* run_canary indexes the first receipt of each lane: an empty lane raises.
CanaryRaises(n, pct) ==
    \E lane \in {"approved", "canary"} : InLane(Lanes(n, pct), lane) = 0

\* The report of run_canary; "PROMOTE" and "ROLLBACK" are fixed words.
CanaryReport(n, pct, healthy, degraded) ==
    LET bounded == Bounded(n, pct)
        met == Breached(healthy, PromotionCriteria) = {}
    IN  [start |-> [canary_requests |-> CanaryRequests(n, pct),
                    production_requests |-> n - CanaryRequests(n, pct),
                    blast_radius_bounded |-> bounded],
         watch |-> healthy,
         criteria |-> [breaches |-> Breached(healthy, PromotionCriteria),
                       criteria_met |-> met, exposure_bounded |-> bounded,
                       eligible_to_promote |-> met /\ bounded],
         exposure |-> [approved_receipts |-> InLane(Lanes(n, pct), "approved"),
                       canary_receipts |-> InLane(Lanes(n, pct), "canary"),
                       canary_exposure_pct |-> MeasuredExposure(n, pct),
                       receipt_check |-> IF bounded THEN "PASS" ELSE "FAIL"],
         promote |-> [decision |-> "PROMOTE", criteria_met |-> met,
                      exposure_bounded |-> bounded],
         rollback |-> [decision |-> "ROLLBACK",
                       breaches |-> Breached(degraded, PromotionCriteria),
                       affected_requests |-> CanaryRequests(n, pct), affected_pct |-> pct],
         reconcile |-> [max_exposure_pct |-> pct,
                        disposition |-> IF bounded THEN "CONFIRMED" ELSE "BLOCKED"]]

----------------------------------------------------------------------------
\* The audit: score, and "gap" for one dimension of five
AuditScore == [scalability |-> 4, observability |-> 4, security |-> 2,
               cost_efficiency |-> 3, reliability |-> 4]

Gaps == {"security"}

\* Redaction coverage of the security gap, in percent
Redaction == [verified |-> 1240, total |-> 2000, coverage_pct |-> 62,
              unverified |-> 760, required_pct |-> 95, gap_pp |-> 33]

\* The measured workload: 9.8 requests per second, in tenths
Workload == [rps |-> 98, steady |-> TRUE, target |-> 500, p95 |-> 420,
             cold_start_penalty |-> 1800, cold_start_tolerable |-> FALSE]

PatternFor(cold_ok, rps, steady) ==
    IF ~cold_ok /\ rps < 200 /\ steady THEN "containers"
    ELSE IF cold_ok /\ ~steady THEN "serverless"
    ELSE IF rps >= 1000 THEN "dedicated_gpu"
    ELSE "containers"

RecommendedPattern ==
    PatternFor(Workload.cold_start_tolerable, Workload.rps, Workload.steady)

\* A gap, no load test to the ceiling and a single region hold the level back.
LoadTested == FALSE
MultiRegion == FALSE

MaturityLevel ==
    IF Gaps = {} /\ LoadTested /\ MultiRegion THEN "scale_ready"
    ELSE IF Cardinality(DOMAIN AuditScore \ Gaps) >= 4 THEN "managed_production"
    ELSE "prototype"

\* The triggers of the runbook: the latency that scales out, and the service
\* objective that the alert compares with
Runbook == [scale_out_p95 |-> 2000, scale_out_queue_depth |-> 20, monitored_p95 |-> 2500]

\* The report of run_readiness
ReadinessReport ==
    [deprecation |-> "MIGRATED",
     audit |-> [rows |-> AuditScore, gaps |-> Gaps,
                ready |-> Cardinality(DOMAIN AuditScore \ Gaps), redaction |-> Redaction],
     workload |-> Workload,
     decision |-> RecommendedPattern,
     patterns |-> "containers",
     runbook |-> Runbook,
     maturity |-> MaturityLevel]
============================================================================
