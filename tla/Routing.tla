------------------------------ MODULE Routing ------------------------------
(***************************************************************************)
(* Multi-model routing in the service: threads run the routing endpoints   *)
(* of app/main.py over the routing keys of Redis and the PostgreSQL        *)
(* ledger, one store command per step.  The decisions are RoutingPolicy.   *)
(*                                                                         *)
(* A receipt is counted, not kept: the ledger is the number of rows of     *)
(* each shape, because every question the endpoints ask of it is a count.  *)
(* Reading a provider condition decides nothing here and is left out.      *)
(***************************************************************************)
EXTENDS RoutingPolicy

CONSTANTS
    Workers,        \* threads of the pool
    MixedWeighted,  \* weighted requests of a mixed batch (10 in the code)
    SmartCases,     \* SMART_VALIDATION_CASES: task class and override class
    BatchSizes,     \* counts asked of /route/batch
    SmartRequests,  \* task and override classes asked of /route/smart
    Endpoints,      \* the endpoints in use
    CleanResets,    \* an admin reset runs alone and to its end
    MaxOps,         \* bound: handlers that write, resets included
    MaxFaults       \* bound: failed handlers and restarts

ASSUME RoutingConstants ==
    /\ MixedWeighted \in Nat
    /\ SmartCases \in Seq(TaskClasses \X OverrideClasses)
    /\ MixedWeighted + Len(SmartCases) > 0
    /\ BatchSizes \subseteq 1..200
    /\ SmartRequests \subseteq TaskClasses \X OverrideClasses
    /\ Endpoints \subseteq {"route", "batch", "smart", "mixed", "disposition", "reset"}
    /\ CleanResets \in BOOLEAN
    /\ MaxOps \in Nat /\ MaxFaults \in Nat

ASSUME FinitePool == IsFiniteSet(Workers) /\ Workers # {}

VARIABLES
    seq,        \* routing:seq
    counters,   \* routing:counters
    lastBatch,  \* routing:last_batch, the count; 0 when absent
    smart,      \* smart:counters without the constant "weighted" marker
    mixed,      \* mixed:counters
    mixedBatch, \* mixed:last_batch, the by_kind part; all 0 when absent
    ledger,     \* the receipts table: rows of each shape
    pc,         \* where each worker is in its handler
    job,        \* the locals of each worker's handler
    ops,        \* history: the handlers begun, in order
    since,      \* history: handlers begun and failures at the latest finished reset
    lost,       \* history: sequence numbers drawn and never counted
    stray,      \* history: workers with a number drawn before a reset
    extra,      \* history: such numbers counted after the reset
    seen,       \* history: what a reader could have seen since it began
    reports,    \* history: the CONFIRMED answers of /routing/disposition
    faults      \* failed handlers and restarts

weightedKeys == <<seq, counters, lastBatch>>
mixedKeys    == <<mixed, mixedBatch>>
stores       == <<weightedKeys, smart, mixedKeys, ledger>>
drift        == <<lost, stray, extra>>
history      == <<ops, since, drift, reports, faults>>
vars         == <<stores, pc, job, history, seen>>

----------------------------------------------------------------------------
(***************************************************************************)
(* Receipts.                                                               *)
(***************************************************************************)
Row(kind, policy, model) == [kind |-> kind, policy |-> policy, model |-> model]

WeightedRow(index) == Row("weighted", "weighted", WeightedPick(index))

SmartRow(task, override) ==
    LET d == SmartDecision(task, override)
    IN  Row(d.kind, "payload_smart", d.model)

BaselineRow == Row("other", "baseline", "balanced-std")

Rows == {Row("weighted", "weighted", m) : m \in Models}
        \union {SmartRow(t, o) : t \in TaskClasses, o \in OverrideClasses}
        \union {BaselineRow}

\* The table: the rows of each shape, numbered
Receipts == UNION {{r} \X (1..ledger[r]) : r \in Rows}

\* count_by_kind: the kind is read off the route_reason
CountByKind == [k \in Kinds |-> Cardinality({x \in Receipts : x[1].kind = k})]

CountReceipts == Cardinality(Receipts)

Inconsistent(row) ==
    \/ row.kind = "weighted" /\ row.policy # "weighted"
    \/ row.kind \in {"payload", "override"} /\ row.policy # "payload_smart"

InconsistentReceipts == Cardinality({x \in Receipts : Inconsistent(x[1])})

\* The requests of a mixed batch, in order
MixedPlan == [i \in 1..(MixedWeighted + Len(SmartCases)) |->
    IF i <= MixedWeighted THEN WeightedRow(i - 1)
    ELSE SmartRow(SmartCases[i - MixedWeighted][1], SmartCases[i - MixedWeighted][2])]

----------------------------------------------------------------------------
NoJob == [op |-> "none"]
NoTiers == [m \in Models |-> 0]

Idle(w) == pc[w] = "idle"
Goto(w, at) == pc' = [pc EXCEPT ![w] = at]

Done(w) == Goto(w, "idle") /\ job' = [job EXCEPT ![w] = NoJob]

\* A weighted request with a sequence number that is not counted yet
HoldsPick(w) == job[w].op = "batch" /\ pc[w] \in {"insert", "count"}

Resetting == \E w \in Workers : job[w].op = "reset"

Init ==
    /\ seq = 0 /\ counters = NoTiers /\ lastBatch = 0
    /\ smart = [d \in Dimensions |-> 0]
    /\ mixed = NoKinds /\ mixedBatch = NoKinds
    /\ ledger = [r \in Rows |-> 0]
    /\ pc = [w \in Workers |-> "idle"]
    /\ job = [w \in Workers |-> NoJob]
    /\ ops = <<>> /\ since = [ops |-> 0, faults |-> 0]
    /\ lost = 0 /\ stray = {} /\ extra = 0
    /\ seen = [w \in Workers |-> FALSE]
    /\ reports = {} /\ faults = 0

(***************************************************************************)
(* A handler starts on an idle worker.  Handlers that write are numbered.  *)
(***************************************************************************)
Start(w, endpoint, newJob, at) ==
    /\ endpoint \in Endpoints
    /\ Idle(w)
    /\ CleanResets => ~Resetting
    /\ Goto(w, at)
    /\ job' = [job EXCEPT ![w] = newJob]
    /\ UNCHANGED <<stores, since, drift, reports, faults>>

Numbered(endpoint) ==
    /\ Len(ops) < MaxOps
    /\ ops' = Append(ops, [op |-> endpoint, rows |-> 0, done |-> FALSE])

NextId == Len(ops) + 1

\* POST /route
RouteRequest(w) ==
    /\ Numbered("route")
    /\ Start(w, "route", [op |-> "route", id |-> NextId, row |-> BaselineRow], "insert")

\* POST /route/batch
RouteBatch(w, n) ==
    /\ Numbered("batch")
    /\ Start(w, "batch", [op |-> "batch", id |-> NextId, row |-> BaselineRow,
                          count |-> n, left |-> n], "seq")

\* POST /route/smart
RouteSmart(w, task, override) ==
    /\ Numbered("smart")
    /\ Start(w, "smart", [op |-> "smart", id |-> NextId,
                          row |-> SmartRow(task, override),
                          dimension |-> SmartDecision(task, override).dimension],
             "insert")

\* POST /route/mixed
RouteMixed(w) ==
    /\ Numbered("mixed")
    /\ Start(w, "mixed", [op |-> "mixed", id |-> NextId, row |-> MixedPlan[1],
                          at |-> 1, tally |-> NoKinds], "insert")

\* GET /routing/disposition
RoutingDisposition(w) ==
    /\ Start(w, "disposition", [op |-> "disposition", api |-> NoKinds,
                                redis |-> NoKinds, rows |-> NoKinds, total |-> 0],
             "read_api")
    /\ UNCHANGED ops

\* POST /admin/reset
AdminReset(w) ==
    /\ CleanResets => \A v \in Workers : Idle(v)
    /\ Numbered("reset")
    /\ Start(w, "reset", [op |-> "reset", id |-> NextId], "truncate")

(***************************************************************************)
(* Routing one request: a sequence number for a weighted batch, the        *)
(* receipt, and the counter of the policy.                                 *)
(***************************************************************************)
\* INCR: one atomic command draws the index
NextSeq(w) ==
    /\ pc[w] = "seq"
    /\ seq' = seq + 1
    /\ job' = [job EXCEPT ![w].row = WeightedRow(seq)]
    /\ Goto(w, "insert")
    /\ UNCHANGED <<counters, lastBatch, smart, mixedKeys, ledger, history>>

InsertReceipt(w) ==
    LET j == job[w] IN
    /\ pc[w] = "insert"
    /\ ledger' = [ledger EXCEPT ![j.row] = @ + 1]
    /\ ops' = [ops EXCEPT ![j.id].rows = @ + 1, ![j.id].done = j.op = "route"]
    /\ IF j.op = "route" THEN Done(w) ELSE Goto(w, "count") /\ UNCHANGED job
    /\ UNCHANGED <<weightedKeys, smart, mixedKeys, since, drift, reports, faults>>

IncrCount(w) ==
    LET j == job[w]
        m == j.row.model
    IN  /\ pc[w] = "count" /\ j.op = "batch"
        /\ counters' = [counters EXCEPT ![m] = @ + 1]
        /\ job' = [job EXCEPT ![w].left = @ - 1]
        /\ Goto(w, IF j.left > 1 THEN "seq" ELSE "save")
        /\ stray' = stray \ {w}
        /\ extra' = IF w \in stray THEN extra + 1 ELSE extra
        /\ UNCHANGED <<seq, lastBatch, smart, mixedKeys, ledger, ops, since, lost,
                       reports, faults>>

SetLastBatch(w) ==
    /\ pc[w] = "save" /\ job[w].op = "batch"
    /\ lastBatch' = job[w].count
    /\ ops' = [ops EXCEPT ![job[w].id].done = TRUE]
    /\ Done(w)
    /\ UNCHANGED <<seq, counters, smart, mixedKeys, ledger, since, drift, reports, faults>>

SmartIncr_PayloadOnly(w) ==
    /\ pc[w] = "count" /\ job[w].op = "smart"
    /\ smart' = IF job[w].row.kind = "payload"
                THEN [smart EXCEPT ![job[w].dimension] = @ + 1] ELSE smart
    /\ ops' = [ops EXCEPT ![job[w].id].done = TRUE]
    /\ Done(w)
    /\ UNCHANGED <<weightedKeys, mixedKeys, ledger, since, drift, reports, faults>>

SmartIncr(w) ==
    /\ pc[w] = "count" /\ job[w].op = "smart"
    /\ smart' = [smart EXCEPT ![job[w].dimension] = @ + 1]
    /\ ops' = [ops EXCEPT ![job[w].id].done = TRUE]
    /\ Done(w)
    /\ UNCHANGED <<weightedKeys, mixedKeys, ledger, since, drift, reports, faults>>

MixedIncr_ByPolicy(w) ==
    LET j == job[w]
        k == IF j.row.policy = "weighted" THEN "weighted" ELSE "payload"
    IN  /\ pc[w] = "count" /\ j.op = "mixed"
        /\ mixed' = [mixed EXCEPT ![k] = @ + 1]
        /\ \/ /\ j.at < Len(MixedPlan)
              /\ job' = [job EXCEPT ![w].tally[k] = @ + 1, ![w].at = @ + 1,
                                    ![w].row = MixedPlan[j.at + 1]]
              /\ Goto(w, "insert")
           \/ /\ j.at = Len(MixedPlan)
              /\ job' = [job EXCEPT ![w].tally[k] = @ + 1]
              /\ Goto(w, "save")
        /\ UNCHANGED <<weightedKeys, smart, mixedBatch, ledger, history>>

MixedIncr(w) ==
    LET j == job[w]
        k == j.row.kind
    IN  /\ pc[w] = "count" /\ j.op = "mixed"
        /\ mixed' = [mixed EXCEPT ![k] = @ + 1]
        /\ \/ /\ j.at < Len(MixedPlan)
              /\ job' = [job EXCEPT ![w].tally[k] = @ + 1, ![w].at = @ + 1,
                                    ![w].row = MixedPlan[j.at + 1]]
              /\ Goto(w, "insert")
           \/ /\ j.at = Len(MixedPlan)
              /\ job' = [job EXCEPT ![w].tally[k] = @ + 1]
              /\ Goto(w, "save")
        /\ UNCHANGED <<weightedKeys, smart, mixedBatch, ledger, history>>

SetMixedBatch(w) ==
    /\ pc[w] = "save" /\ job[w].op = "mixed"
    /\ mixedBatch' = job[w].tally
    /\ ops' = [ops EXCEPT ![job[w].id].done = TRUE]
    /\ Done(w)
    /\ UNCHANGED <<weightedKeys, smart, mixed, ledger, since, drift, reports, faults>>

(***************************************************************************)
(* An admin reset: the ledger first, then one DEL per group of keys.       *)
(***************************************************************************)
ClearReceipts(w) ==
    /\ pc[w] = "truncate"
    /\ ledger' = [r \in Rows |-> 0]
    /\ ops' = [i \in DOMAIN ops |-> [ops[i] EXCEPT !.rows = 0]]
    /\ Goto(w, "reset_routing")
    /\ UNCHANGED <<weightedKeys, smart, mixedKeys, job, since, drift, reports, faults>>

ResetRouting_KeepsSequence(w) ==
    /\ pc[w] = "reset_routing"
    /\ counters' = NoTiers /\ lastBatch' = 0
    /\ lost' = 0 /\ extra' = 0 /\ stray' = {v \in Workers : HoldsPick(v)}
    /\ Goto(w, "reset_smart")
    /\ UNCHANGED <<seq, smart, mixedKeys, ledger, job, ops, since, reports, faults>>

ResetRouting(w) ==
    /\ pc[w] = "reset_routing"
    /\ seq' = 0 /\ counters' = NoTiers /\ lastBatch' = 0
    /\ lost' = 0 /\ extra' = 0 /\ stray' = {v \in Workers : HoldsPick(v)}
    /\ Goto(w, "reset_smart")
    /\ UNCHANGED <<smart, mixedKeys, ledger, job, ops, since, reports, faults>>

ResetSmart(w) ==
    /\ pc[w] = "reset_smart"
    /\ smart' = [d \in Dimensions |-> 0]
    /\ Goto(w, "reset_mixed")
    /\ UNCHANGED <<weightedKeys, mixedKeys, ledger, job, history>>

ResetMixed_KeepsCounters(w) ==
    /\ pc[w] = "reset_mixed"
    /\ mixedBatch' = NoKinds
    /\ since' = [ops |-> job[w].id, faults |-> faults]
    /\ Done(w)
    /\ UNCHANGED <<weightedKeys, smart, mixed, ledger, ops, drift, reports, faults>>

ResetMixed(w) ==
    /\ pc[w] = "reset_mixed"
    /\ mixed' = NoKinds /\ mixedBatch' = NoKinds
    /\ since' = [ops |-> job[w].id, faults |-> faults]
    /\ Done(w)
    /\ UNCHANGED <<weightedKeys, smart, ledger, ops, drift, reports, faults>>

(***************************************************************************)
(* The disposition: five reads of two stores, one after the other.         *)
(***************************************************************************)
Read(w, at, field, value, next) ==
    /\ pc[w] = at
    /\ job' = [job EXCEPT ![w][field] = value]
    /\ Goto(w, next)
    /\ UNCHANGED <<stores, history>>

ReadSources(w) ==
    \/ Read(w, "read_api", "api", mixedBatch, "read_redis")
    \/ Read(w, "read_redis", "redis", mixed, "read_kinds")
    \/ Read(w, "read_kinds", "rows", CountByKind, "read_total")
    \/ Read(w, "read_total", "total", CountReceipts, "read_policies")

Decide(w) ==
    LET j == job[w]
        confirmed == Confirmed(j.api, j.redis, j.rows, j.total, InconsistentReceipts)
    IN  /\ pc[w] = "read_policies"
        /\ reports' = IF confirmed THEN reports \union {[whole |-> seen[w]]} ELSE reports
        /\ Done(w)
        /\ UNCHANGED <<stores, ops, since, drift, faults>>

(***************************************************************************)
(* Failures.                                                               *)
(***************************************************************************)
\* A store raises in the middle of a handler.
Fail(w) ==
    /\ faults < MaxFaults
    /\ faults' = faults + 1
    /\ ~Idle(w)
    /\ CleanResets => job[w].op # "reset"
    /\ lost' = IF HoldsPick(w) /\ w \notin stray THEN lost + 1 ELSE lost
    /\ stray' = stray \ {w}
    /\ Done(w)
    /\ UNCHANGED <<stores, ops, since, extra, reports>>

\* The process restarts.  Start-up resets the smart and the mixed keys, each
\* best-effort, and leaves the weighted keys and the ledger alone.
Restart ==
    /\ faults < MaxFaults
    /\ faults' = faults + 1
    /\ CleanResets => ~Resetting
    /\ pc' = [w \in Workers |-> "idle"]
    /\ job' = [w \in Workers |-> NoJob]
    /\ lost' = lost + Cardinality({w \in Workers : HoldsPick(w)} \ stray)
    /\ stray' = {}
    /\ \/ UNCHANGED <<smart, mixedKeys>>
       \/ smart' = [d \in Dimensions |-> 0] /\ UNCHANGED mixedKeys
       \/ /\ smart' = [d \in Dimensions |-> 0]
          /\ mixed' = NoKinds /\ mixedBatch' = NoKinds
    /\ UNCHANGED <<weightedKeys, ledger, ops, since, extra, reports>>

Step(w) ==
    \/ NextSeq(w) \/ InsertReceipt(w) \/ IncrCount(w) \/ SetLastBatch(w)
    \/ SmartIncr(w) \/ MixedIncr(w) \/ SetMixedBatch(w)
    \/ ClearReceipts(w) \/ ResetRouting(w) \/ ResetSmart(w) \/ ResetMixed(w)
    \/ ReadSources(w) \/ Decide(w)

Call(w) ==
    \/ RouteRequest(w) \/ RouteMixed(w) \/ RoutingDisposition(w) \/ AdminReset(w)
    \/ \E n \in BatchSizes : RouteBatch(w, n)
    \/ \E r \in SmartRequests : RouteSmart(w, r[1], r[2])

----------------------------------------------------------------------------
\* History: the ledger holds the receipts of one mixed batch that returned,
\* all of them, and nothing else.
OneWholeBatch == \E i \in DOMAIN ops :
    /\ ops[i].op = "mixed" /\ ops[i].done /\ ops[i].rows = Len(MixedPlan)
    /\ \A j \in DOMAIN ops \ {i} : ops[j].rows = 0

Reads(w) == job[w].op = "disposition"

Observe == seen' = [w \in Workers |->
    Reads(w)' /\ (OneWholeBatch' \/ (Reads(w) /\ seen[w]))]

Next ==
    /\ \/ \E w \in Workers : Call(w) \/ Step(w) \/ Fail(w)
       \/ Restart
    /\ Observe

Spec == Init /\ [][Next]_vars

----------------------------------------------------------------------------
(***************************************************************************)
(* Weighted routing.                                                       *)
(***************************************************************************)
Quiet == \A w \in Workers : Idle(w)

Abs(x) == IF x < 0 THEN -x ELSE x

\* Draws of a tier in the first n requests of the weighted policy
Drawn(m, n) == Cardinality({i \in 0..(n - 1) : WeightedPick(i) = m})

InFlight(m) == Cardinality({w \in Workers \ stray : HoldsPick(w) /\ job[w].row.model = m})

Uncounted == [m \in Models |-> Drawn(m, seq) - counters[m] - InFlight(m)]

\* Each sequence number is counted exactly once on its own tier, whatever
\* batches run at the same time.  A thread that dies holding one loses it, a
\* reset turns the ones in flight into extra counts, at most one per thread
\* and none of the resetting one (next_seq, incr_count, reset_routing).
SequenceAccounted ==
    /\ TotalOf(Uncounted) = lost - extra
    /\ lost = 0 /\ extra = 0 => \A m \in Models : Uncounted[m] = 0
    /\ extra + Cardinality(stray) < Cardinality(Workers)

\* "any short sample shows variety": between batches no tier is ever a whole
\* request away from its share, not only at multiples of ten
\* (weighted_sequence).
SplitNeverDrifts == Quiet /\ lost = 0 /\ extra = 0 =>
    \A m \in Models : Abs(100 * counters[m] - Weight[m] * TotalOf(counters)) < 100

\* "reproduces the distribution exactly over any multiple of ten requests":
\* /routing/validate then answers all_match, however the requests were spread
\* over batches and threads.
TensValidate == Quiet /\ lost = 0 /\ extra = 0 /\ TotalOf(counters) % 10 = 0 =>
    Validate(counters)

\* The counters of the endpoint that routes one kind by itself
TalliedAlone == [k \in Kinds |->
    CASE k = "weighted" -> TotalOf(counters)
      [] k = "payload"  -> smart["simple"] + smart["moderate"] + smart["complex"]
      [] k = "override" -> smart["bulk_batch"] + smart["legal_review"]
                               + smart["code_generation"]]

\* No counter of a policy ever runs ahead of the ledger: the receipt is written
\* first, so what dies between the two leaves a receipt without a count and
\* never a count without its receipt.  Where nothing failed since the last
\* reset, every receipt is in exactly one counter of its policy, or its thread
\* is about to count it (insert_receipt, incr_count, smart_incr, mixed_incr).
LedgerCounted == ~Resetting => \A k \in Kinds :
    LET tallied == mixed[k] + TalliedAlone[k]
                     + Cardinality({w \in Workers : pc[w] = "count" /\ job[w].row.kind = k})
    IN  /\ CountByKind[k] >= tallied
        /\ faults = since.faults => CountByKind[k] = tallied

(***************************************************************************)
(* The final disposition.                                                  *)
(***************************************************************************)

\* CONFIRMED is given only if, at some moment of the call, the ledger held
\* exactly one receipt per request of one finished mixed batch and no other
\* row: "exactly one durable receipt per routed request (no missing/extra)".
ConfirmedIsOneWholeBatch == \A r \in reports : r.whole

\* "Reset and run the batch again and you get the same CONFIRMED": after a
\* reset and one mixed batch, whatever ran or failed before the reset.
CleanRunConfirms ==
    LET new == SubSeq(ops, since.ops + 1, Len(ops)) IN
    /\ Quiet /\ Len(new) = 1 /\ new[1].op = "mixed" /\ new[1].done
    /\ faults = since.faults
    => Confirmed(mixedBatch, mixed, CountByKind, CountReceipts, InconsistentReceipts)
============================================================================
