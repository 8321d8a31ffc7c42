------------------------------- MODULE Reports -------------------------------
(***************************************************************************)
(* The report endpoints of app/main.py: the observability batch, the       *)
(* incident, the prompt lifecycle, the baseline validation, the canary and *)
(* the readiness check.  Each module keeps its report in a dictionary of   *)
(* the process, _STATE, that a run replaces and the GET endpoints read; a  *)
(* worker is a thread of the pool.  What the reports say is computed in    *)
(* Telemetry.tla and ReleaseGates.tla; here are the threads, the shared    *)
(* span store, the prompt registry on disk, and restarts.                  *)
(***************************************************************************)
EXTENDS Telemetry

CONSTANTS
    Workers,        \* threads of the pool
    Versions,       \* prompt versions of the registry, one release each
    FirstRegistry,  \* the registry as shipped
    Settings,       \* candidates and canary windows the process may start with
    P95s,           \* latencies that are injected
    None,
    MaxOps,         \* bound: handlers started
    MaxTraces,      \* bound: traces built
    MaxEdits,       \* bound: edits of the registry
    MaxRestarts     \* bound: restarts of the process

ASSUME ReportsConstants ==
    /\ FirstRegistry.approved \in Versions
    /\ \A s \in Settings : s.window \in Nat /\ s.pct \in Nat
    /\ MaxOps \in Nat /\ MaxTraces \in Nat
    /\ MaxEdits \in Nat /\ MaxRestarts \in Nat

VARIABLES
    byTrace,    \* by_trace of _InMemoryExporter: the finished spans of a trace
    nextTrace,  \* the next fresh trace id
    emitted,    \* the structured events written to the log
    observe, incident, prompts, validation, canary,     \* _STATE of each module
    readiness,  \* _STATE of readiness.py: the report and the injected p95
    registry,   \* prompts/registry.yaml
    settings,   \* the tables of validation.py and canary.py
    pc,         \* where each worker is in its handler
    local,      \* the locals of each worker
    answer,     \* the last answer of /observe/logs and of the readiness GETs
    lastP95,    \* history: the last p95 injected since the process started
    ops, edits, restarts

states == <<observe, incident, prompts, validation, canary, readiness>>
traces == <<byTrace, nextTrace, emitted>>
env    == <<registry, settings, edits, restarts>>
vars   == <<states, traces, env, pc, local, answer, lastP95, ops>>

----------------------------------------------------------------------------
Empty == [key \in {} |-> None]      \* a dictionary with no key

\* dict.get(key, {})
Get(state, key) == IF key \in DOMAIN state THEN state[key] ELSE Empty

NoLocal == [op |-> "none", ids |-> <<>>, done |-> 0, cursor |-> 0,
            p95 |-> None, approved |-> None, replayed |-> None, logs |-> Empty]

NoReadiness == [report |-> Empty, injected |-> None]

NoAnswer == [op |-> "none"]

Idle(w) == pc[w] = "idle"

Init ==
    /\ byTrace = [t \in 1..MaxTraces |-> <<>>] /\ nextTrace = 1 /\ emitted = {}
    /\ observe = Empty /\ incident = Empty /\ prompts = Empty
    /\ validation = Empty /\ canary = Empty /\ readiness = NoReadiness
    /\ pc = [w \in Workers |-> "idle"]
    /\ local = [w \in Workers |-> NoLocal]
    /\ answer = NoAnswer /\ lastP95 = None
    /\ settings \in Settings
    /\ registry = FirstRegistry
    /\ ops = 0 /\ edits = 0 /\ restarts = 0

Goto(w, at) == pc' = [pc EXCEPT ![w] = at]

Begin(w, start, at) ==
    /\ Idle(w) /\ ops < MaxOps
    /\ ops' = ops + 1
    /\ local' = [local EXCEPT ![w] = start]
    /\ Goto(w, at)
    /\ UNCHANGED <<states, traces, env, answer, lastP95>>

Done(w) == Goto(w, "idle") /\ local' = [local EXCEPT ![w] = NoLocal]

----------------------------------------------------------------------------
(***************************************************************************)
(* POST /observe/run and POST /incident/run: _build_trace ends the child   *)
(* spans of a trace one by one and its root last; the simple processor     *)
(* exports each when it ends.  The report is published after the traces.   *)
(***************************************************************************)
Plan(op) == IF op = "observe" THEN <<FailoverStages, SlowStages>>
            ELSE <<IncidentStages>>

ObserveRun(w) == Begin(w, [NoLocal EXCEPT !.op = "observe"], "root")

IncidentRun(w) == Begin(w, [NoLocal EXCEPT !.op = "incident"], "root")

StartRoot(w) ==
    /\ pc[w] = "root" /\ nextTrace <= MaxTraces
    /\ nextTrace' = nextTrace + 1
    /\ local' = [local EXCEPT ![w] =
                   [local[w] EXCEPT !.ids = Append(@, nextTrace), !.done = 0, !.cursor = 0]]
    /\ Goto(w, "child")
    /\ UNCHANGED <<byTrace, emitted, states, env, answer, lastP95, ops>>

Stages(w) == Plan(local[w].op)[Len(local[w].ids)]
TraceId(w) == local[w].ids[Len(local[w].ids)]

Export(w, span) == byTrace' = [byTrace EXCEPT ![TraceId(w)] = Append(@, span)]

EndChild_KeepsCursor(w) ==
    /\ pc[w] = "child" /\ local[w].done < Len(Stages(w))
    /\ LET stage == Stages(w)[local[w].done + 1] IN
         /\ Export(w, Span(stage.span, local[w].cursor, stage.cost))
         /\ local' = [local EXCEPT ![w].done = @ + 1]
    /\ UNCHANGED <<nextTrace, emitted, states, env, pc, answer, lastP95, ops>>

EndChild(w) ==
    /\ pc[w] = "child" /\ local[w].done < Len(Stages(w))
    /\ LET stage == Stages(w)[local[w].done + 1] IN
         /\ Export(w, Span(stage.span, local[w].cursor, stage.cost))
         /\ local' = [local EXCEPT ![w] =
                        [local[w] EXCEPT !.done = @ + 1, !.cursor = @ + stage.cost]]
    /\ UNCHANGED <<nextTrace, emitted, states, env, pc, answer, lastP95, ops>>

EndRoot(w) ==
    /\ pc[w] = "child" /\ local[w].done = Len(Stages(w))
    /\ Export(w, Span("request", 0, ChildTotal(Stages(w))))
    /\ Goto(w, IF Len(local[w].ids) < Len(Plan(local[w].op)) THEN "root"
               ELSE local[w].op)
    /\ UNCHANGED <<nextTrace, emitted, states, env, local, answer, lastP95, ops>>

PublishObserve(w) ==
    /\ pc[w] = "observe"
    /\ emitted' = emitted \union Range(EmittedLogs)
    /\ observe' = ObserveReport(local[w].ids[1], local[w].ids[2])
    /\ Done(w)
    /\ UNCHANGED <<byTrace, nextTrace, incident, prompts, validation, canary,
                   readiness, env, answer, lastP95, ops>>

PublishIncident(w) ==
    /\ pc[w] = "incident"
    /\ incident' = IncidentReport(local[w].ids[1])
    /\ Done(w)
    /\ UNCHANGED <<traces, observe, prompts, validation, canary, readiness,
                   env, answer, lastP95, ops>>

\* GET /observe/logs reads the state twice: the logs, then the number observed.
ObserveLogs(w) == Begin(w, [NoLocal EXCEPT !.op = "logs"], "logs")

ReadLogs(w) ==
    /\ pc[w] = "logs"
    /\ local' = [local EXCEPT ![w].logs = Get(observe, "logs")]
    /\ Goto(w, "observed")
    /\ UNCHANGED <<states, traces, env, answer, lastP95, ops>>

ReadObserved(w) ==
    /\ pc[w] = "observed"
    /\ answer' = [op |-> "logs", logs |-> local[w].logs,
                  observed |-> Get(Get(observe, "metrics"), "requests")]
    /\ Done(w)
    /\ UNCHANGED <<states, traces, env, lastP95, ops>>

----------------------------------------------------------------------------
(***************************************************************************)
(* POST /lifecycle/prompts/run: the registry is read twice, once for the   *)
(* report and once for the replay.  The version files are immutable, so    *)
(* the hash of a result is the version it was computed from.               *)
(***************************************************************************)
PromptsRun(w) == Begin(w, [NoLocal EXCEPT !.op = "prompts"], "registry")

HasStatus(status) == \E v \in Versions : registry.status[v] = status

LoadRegistry(w) ==
    /\ pc[w] = "registry"
    /\ HasStatus("superseded") /\ HasStatus("candidate")
    /\ local' = [local EXCEPT ![w].approved = registry.approved]
    /\ Goto(w, "replay")
    /\ UNCHANGED <<states, traces, env, answer, lastP95, ops>>

\* next() finds no superseded or no candidate version, or a file cannot be
\* read: the handler raises and the report of an earlier run stays.
RegistryFails(w) ==
    /\ pc[w] \in {"registry", "replay"}
    /\ Done(w)
    /\ UNCHANGED <<states, traces, env, answer, lastP95, ops>>

ReplayRegistry_Cached(w) ==
    /\ pc[w] = "replay"
    /\ local' = [local EXCEPT ![w].replayed = local[w].approved]
    /\ Goto(w, "prompts")
    /\ UNCHANGED <<states, traces, env, answer, lastP95, ops>>

ReplayRegistry(w) ==
    /\ pc[w] = "replay"
    /\ local' = [local EXCEPT ![w].replayed = registry.approved]
    /\ Goto(w, "prompts")
    /\ UNCHANGED <<states, traces, env, answer, lastP95, ops>>

\* Six production receipts and the one after the rollback carry the approved
\* version; active_ok and no_candidate compare what was just assigned.
PromptsReport(approved, replayed) ==
    [registry |-> [approved_release |-> approved, versions |-> Versions],
     receipts |-> [i \in 1..6 |-> approved],
     isolation |-> [production |-> approved, candidate_in_production |-> 0],
     rollback |-> [active_release_after |-> approved, retained |-> Versions],
     post_rollback_receipt |-> approved,
     reproducibility |-> [recorded |-> approved, replayed |-> replayed],
     reconcile |-> IF replayed = approved THEN "CONFIRMED" ELSE "BLOCKED"]

PublishPrompts(w) ==
    /\ pc[w] = "prompts"
    /\ prompts' = PromptsReport(local[w].approved, local[w].replayed)
    /\ Done(w)
    /\ UNCHANGED <<observe, incident, validation, canary, readiness, traces,
                   env, answer, lastP95, ops>>

\* An operator promotes a version or rolls back to one: approved_release and
\* the statuses change together, in one write of the file.
EditRegistry(v) ==
    /\ edits < MaxEdits /\ v # registry.approved
    /\ edits' = edits + 1
    /\ registry' = [approved |-> v,
                    status |-> [registry.status EXCEPT ![registry.approved] = "superseded",
                                                       ![v] = "approved"]]
    /\ UNCHANGED <<states, traces, settings, restarts, pc, local, answer, lastP95, ops>>

----------------------------------------------------------------------------
(***************************************************************************)
(* POST /lifecycle/validation/run, /canary/run and /readiness/run read     *)
(* nothing that changes: one step each.                                    *)
(***************************************************************************)
Instant == /\ ops < MaxOps
           /\ ops' = ops + 1
           /\ UNCHANGED <<observe, incident, prompts, traces, env, pc, local,
                          answer, lastP95>>

ValidationRun ==
    /\ Instant
    /\ validation' = ValidationReport(settings.candidates)
    /\ UNCHANGED <<canary, readiness>>

\* A window with an empty lane raises; the earlier report stays.
CanaryRun ==
    LET n == settings.window
        pct == settings.pct
    IN  /\ Instant
        /\ canary' = IF CanaryRaises(n, pct) THEN canary
                     ELSE CanaryReport(n, pct, settings.healthy, settings.degraded)
        /\ UNCHANGED <<validation, readiness>>

RunReadiness_Replaces == readiness' = [report |-> ReadinessReport, injected |-> None]

\* _STATE.update: an injected p95 stays.
RunReadiness == readiness' = [readiness EXCEPT !.report = ReadinessReport]

ReadinessRun ==
    /\ Instant
    /\ RunReadiness
    /\ UNCHANGED <<validation, canary>>

(***************************************************************************)
(* Every other readiness handler goes through state(), which builds the    *)
(* report if the dictionary has no key at all.                             *)
(***************************************************************************)
InjectBreach_SkipsState(w, p95) ==
    Begin(w, [NoLocal EXCEPT !.op = "inject", !.p95 = p95], "use")

\* POST /lifecycle/readiness/inject-breach and /admin/inject-latency
InjectBreach(w, p95) ==
    Begin(w, [NoLocal EXCEPT !.op = "inject", !.p95 = p95], "state")

\* GET /lifecycle/readiness/alert and /admin/alerts
Alert(w) == Begin(w, [NoLocal EXCEPT !.op = "alert"], "state")

\* The other GETs of /lifecycle/readiness
ReadinessGet(w) == Begin(w, [NoLocal EXCEPT !.op = "readiness"], "state")

CheckState(w) ==
    /\ pc[w] = "state"
    /\ Goto(w, IF readiness = NoReadiness THEN "build" ELSE "use")
    /\ UNCHANGED <<states, traces, env, local, answer, lastP95, ops>>

BuildState(w) ==
    /\ pc[w] = "build"
    /\ RunReadiness
    /\ Goto(w, "use")
    /\ UNCHANGED <<observe, incident, prompts, validation, canary, traces, env,
                   local, answer, lastP95, ops>>

SetInjected(w) ==
    /\ pc[w] = "use" /\ local[w].op = "inject"
    /\ readiness' = [readiness EXCEPT !.injected = local[w].p95]
    /\ lastP95' = local[w].p95
    /\ Done(w)
    /\ UNCHANGED <<observe, incident, prompts, validation, canary, traces, env,
                   answer, ops>>

\* alert(): the injected p95 against _SERVICE_SLO_P95_MS
ReadAlert(w) ==
    LET p95 == readiness.injected IN
    /\ pc[w] = "use" /\ local[w].op = "alert"
    /\ answer' = [op |-> "alert", measured_ms |-> p95, injected |-> lastP95,
                  fired |-> p95 # None /\ p95 > Runbook.monitored_p95]
    /\ Done(w)
    /\ UNCHANGED <<states, traces, env, lastP95, ops>>

ReadReadiness(w) ==
    /\ pc[w] = "use" /\ local[w].op = "readiness"
    /\ answer' = [op |-> "readiness", keys |-> DOMAIN readiness.report]
    /\ Done(w)
    /\ UNCHANGED <<states, traces, env, lastP95, ops>>

----------------------------------------------------------------------------
\* The process restarts, or uvicorn reloads it after an edit of its tables:
\* every dictionary, trace and handler is gone, the registry stays.
Restart ==
    /\ restarts < MaxRestarts
    /\ restarts' = restarts + 1
    /\ byTrace' = [t \in 1..MaxTraces |-> <<>>] /\ nextTrace' = 1 /\ emitted' = {}
    /\ observe' = Empty /\ incident' = Empty /\ prompts' = Empty
    /\ validation' = Empty /\ canary' = Empty /\ readiness' = NoReadiness
    /\ pc' = [w \in Workers |-> "idle"]
    /\ local' = [w \in Workers |-> NoLocal]
    /\ answer' = NoAnswer /\ lastP95' = None
    /\ settings' \in Settings
    /\ UNCHANGED <<registry, edits, ops>>

Run(w) ==
    \/ ObserveRun(w) \/ IncidentRun(w) \/ ObserveLogs(w) \/ PromptsRun(w)
    \/ \E p95 \in P95s : InjectBreach(w, p95)
    \/ Alert(w) \/ ReadinessGet(w)

Step(w) ==
    \/ StartRoot(w) \/ EndChild(w) \/ EndRoot(w)
    \/ PublishObserve(w) \/ PublishIncident(w)
    \/ ReadLogs(w) \/ ReadObserved(w)
    \/ LoadRegistry(w) \/ RegistryFails(w) \/ ReplayRegistry(w) \/ PublishPrompts(w)
    \/ CheckState(w) \/ BuildState(w)
    \/ SetInjected(w) \/ ReadAlert(w) \/ ReadReadiness(w)

Next ==
    \/ \E w \in Workers : Run(w) \/ Step(w)
    \/ ValidationRun \/ CanaryRun \/ ReadinessRun
    \/ \E v \in Versions : EditRegistry(v)
    \/ Restart

Spec == Init /\ [][Next]_vars

----------------------------------------------------------------------------
(***************************************************************************)
(* What the GET endpoints ask for: state().get(key, {}) with these keys.   *)
(***************************************************************************)
ObserveKeys == {"trace", "logs", "metrics", "metrics_exposition", "quality",
                "slo", "diagnose", "correlate"}
IncidentKeys == {"alerts", "dashboard", "isolate", "quota", "cost", "quality", "action"}
PromptsKeys == {"registry", "receipts", "isolation", "rollback",
                "post_rollback_receipt", "reproducibility", "reconcile"}
ValidationKeys == {"gate", "baseline", "pass", "fail", "decision", "reconcile"}
CanaryKeys == {"start", "watch", "criteria", "exposure", "promote", "rollback",
               "reconcile"}
ReadinessKeys == {"deprecation", "audit", "workload", "decision", "patterns",
                  "runbook", "maturity"}

Answers(state, keys) == state # Empty => keys \subseteq DOMAIN state

\* After a run every endpoint of its module answers with something, and "a GET
\* before the POST /run never returns empty" for readiness, after a restart,
\* between injections and whatever other threads build.  Logs that are shown
\* come with the number of requests they were drawn from.
EndpointsAnswer ==
    /\ Answers(observe, ObserveKeys) /\ Answers(incident, IncidentKeys)
    /\ Answers(prompts, PromptsKeys) /\ Answers(validation, ValidationKeys)
    /\ Answers(canary, CanaryKeys)
    /\ answer.op = "readiness" => ReadinessKeys \subseteq answer.keys
    /\ answer.op = "logs" => (answer.logs # Empty => answer.observed = Len(Latencies))

\* The alert follows the last injection of this process and nothing else: it
\* survives a new readiness run and a lazy build on another thread, and it is
\* silent after a restart, however injections and reads interleave.
AlertFollowsInjection == answer.op = "alert" =>
    /\ answer.measured_ms = answer.injected
    /\ answer.fired <=> answer.injected # None /\ answer.injected > 2500

\* The spans stored under a trace id lie end to end under a root that they
\* fill, and this is the total that the report shows.
TraceIs(tid, total_ms) ==
    LET spans == byTrace[tid]
        n == Len(spans)
        EndOf(i) == spans[i].start_ms + spans[i].duration_ms
    IN  /\ n > 1
        /\ spans[n] = Span("request", 0, total_ms)
        /\ spans[1].start_ms = 0 /\ EndOf(n - 1) = total_ms
        /\ \A i \in 1..n - 2 : EndOf(i) = spans[i + 1].start_ms

OfAllStages(f) == f.queue + f.retry_backoff + f.fallback + f.other + f.provider_call

\* The numbers of the observability report agree with each other and with the
\* traces, though runs on other threads share the span store: a trace takes
\* what the log of its request says, the slow one is the p95 and fails
\* sampling as the correlation says, a log has a verdict only if sampled, and
\* what Prometheus reads off /metrics gives the summary of /observe/metrics.
ObserveReconciles == observe # Empty =>
    LET Log(id) == CHOOSE e \in Range(observe.logs) : e.request_id = id
        slow == observe.diagnose
        series == observe.metrics_exposition
    IN  /\ TraceIs(observe.trace.trace_id, Log(observe.trace.request_id).latency_ms)
        /\ TraceIs(slow.trace_id, slow.total_ms)
        /\ slow.total_ms = Log(slow.request_id).latency_ms
        /\ slow.total_ms = observe.metrics.latency_p95_ms
        /\ 2 * slow.slowest_ms > slow.total_ms
        /\ observe.correlate = [request_id |-> slow.request_id,
                                quality_status |-> Log(slow.request_id).quality_status]
        /\ \A e \in Range(observe.logs) :
             e.quality_status # "not_sampled" => e.request_id \in DOMAIN Scores
        /\ Rate(series.fallbacks, series.requests) = observe.metrics.fallback_rate
        /\ Rate(series.retries, series.requests) = observe.metrics.retry_rate
        /\ Percentile(series.latencies, 95) = slow.total_ms
        /\ series.quality_pass_rate = observe.quality.pass_rate
        /\ "quality_pass_rate" \in observe.slo.firing <=> series.quality_pass_rate < 900

\* The incident's panels, drivers and shares sum to what they explain ("the
\* trace must reconcile"), and the provider call dwarfs the rest of its trace.
IncidentReconciles == incident # Empty =>
    LET total == incident.isolate.total_ms
        ms == incident.isolate.contributors
        panel == incident.dashboard
        failures == incident.quality.failure_reasons
    IN  /\ TraceIs(incident.isolate.trace_id, total)
        /\ OfAllStages(ms) = total /\ 2 * ms["provider_call"] > total
        /\ OfAllStages(incident.isolate.shares) \in 998..1002
        /\ panel["latency"].current = total
        /\ \A d \in Dimensions : Breaches(d, panel[d].current)
        /\ incident.quota.accepted + incident.quota.rejected_429 = incident.quota.submitted
        /\ incident.quota.utilization = panel["quota"].current
        /\ incident.cost.reconciles /\ incident.cost.current = panel["cost"].current
        /\ incident.quality.pass_rate = 10 * panel["quality"].current
        /\ failures[1] + failures[2] + failures[3] = incident.quality.failed
        /\ incident.quality.sampled_from = incident.quota.accepted
        /\ incident.action = Dimensions

\* Every event in the log is one that the report shows, whichever thread wrote
\* it, and of a sampled request it has the verdict of the sample.  (Of the one
\* that nobody sampled the log says "pass" and the report "not_sampled": the
\* event is written before its verdict is looked up, observe.py:270, 375-376.)
EventsReconcile == \A e \in emitted :
    /\ observe # Empty
    /\ \E log \in Range(observe.logs) :
         /\ log.request_id = e.request_id /\ log.latency_ms = e.latency_ms
         /\ log.quality_status \in {e.quality_status, "not_sampled"}

ReportsReconcile == ObserveReconciles /\ IncidentReconciles /\ EventsReconcile

\* CONFIRMED means that the release in every receipt was the approved one when
\* the registry was first read and again when it was replayed: a run that a
\* promotion or a rollback overtakes between the two is BLOCKED, and what is
\* published was read by one thread.
ConfirmedNamesOneRelease == [][
    /\ \A w \in Workers :
         LET run == local[w]
             next == local'[w]
         IN  /\ pc[w] = "registry" /\ pc'[w] = "replay" => next.approved = registry.approved
             /\ pc[w] = "replay" /\ pc'[w] = "prompts" =>
                  /\ next.approved = run.approved
                  /\ PromptsReport(next.approved, next.replayed).reconcile = "CONFIRMED"
                       <=> registry.approved = run.approved
    /\ prompts' # prompts /\ prompts' # Empty =>
         \E w \in Workers :
             /\ pc[w] = "prompts"
             /\ prompts' = PromptsReport(local[w].approved, local[w].replayed)
             /\ Range(prompts'.receipts) = {local[w].approved}
             /\ prompts'.post_rollback_receipt = local[w].approved]_vars

\* Nothing is eligible that misses a bar, and what sits on every bar is.  A
\* canary takes the fewest requests that make its share, and these are the
\* requests that its receipts show and its rollback counts; a share that
\* divides the window evenly, as the shipped one, is always found bounded, and
\* a canary whose receipts failed is neither eligible nor CONFIRMED.
GatesHoldTheLine ==
    /\ validation # Empty => \A c \in DOMAIN settings.candidates :
         LET m == settings.candidates[c] IN
         c \in validation.reconcile.eligible_candidates <=>
            /\ m.quality >= 90 /\ m.contract >= 990
            /\ m.latency <= 800 /\ m.cost <= 35 /\ m.failure <= 10
    /\ canary # Empty =>
         LET n == settings.window
             pct == settings.pct
             c == canary.exposure.canary_receipts
             pass == canary.exposure.receipt_check = "PASS"
         IN  /\ 100 * c >= pct * n /\ 100 * (c - 1) < pct * n
             /\ c + canary.exposure.approved_receipts = n
             /\ canary.rollback.affected_requests = c
             /\ 100 * c <= pct * n => pass
             /\ canary.criteria.eligible_to_promote => pass /\ canary.criteria.breaches = {}
             /\ canary.reconcile.disposition = "CONFIRMED" <=> pass

(***************************************************************************)
(* A claim of the repository that the code does not keep.                  *)
(***************************************************************************)

\* The exposure counted from the receipts "must not exceed the 10% blast-radius
\* limit", and the check that passes is the proof that it "never exceeded" it:
\* said of CANARY_PCT, which the code compares with a rounded percentage.
ExposureNeverExceeds ==
    canary # Empty /\ canary.exposure.receipt_check = "PASS" =>
        100 * canary.exposure.canary_receipts <= settings.pct * settings.window
============================================================================
