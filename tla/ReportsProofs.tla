---------------------------- MODULE ReportsProofs ----------------------------
(***************************************************************************)
(* Proofs about Reports, for every pool, registry, table of settings, set  *)
(* of injected latencies and number of traces, edits and restarts:         *)
(*   EndpointsAlwaysAnswer   every GET finds its key after a run;          *)
(*   AlertAlwaysFollows      the alert shows the last injection;           *)
(*   GatesAlwaysHold         gate and canary exposure;                     *)
(*   ConfirmedReleaseIsOne   two reads of the registry, one release;       *)
(*   TracesStayWhole         the span store under concurrent builders;     *)
(*   ReportsAlwaysReconcile  the reports against that store.               *)
(* ReportsSafe and TracesStayWhole are the inductive invariants.           *)
(***************************************************************************)
EXTENDS Reports, FiniteSetTheorems, TLAPS

(***************************************************************************)
(* The gate.                                                               *)
(***************************************************************************)
LEMMA BarsHold ==
    ASSUME NEW m
    PROVE  Gate(m).eligible <=> /\ m.quality >= 90 /\ m.contract >= 990
                                /\ m.latency <= 800 /\ m.cost <= 35 /\ m.failure <= 10
<1>1. DOMAIN Baseline = {"quality", "latency", "cost", "failure", "contract"}
  BY DEF Baseline
<1>2. /\ Passes(m["quality"], Baseline["quality"]) <=> m.quality >= 90
      /\ Passes(m["contract"], Baseline["contract"]) <=> m.contract >= 990
      /\ Passes(m["latency"], Baseline["latency"]) <=> m.latency <= 800
      /\ Passes(m["cost"], Baseline["cost"]) <=> m.cost <= 35
      /\ Passes(m["failure"], Baseline["failure"]) <=> m.failure <= 10
  BY DEF Passes, Baseline, Floor, Ceiling
<1>3. Gate(m).eligible <=> \A d \in DOMAIN Baseline : Passes(m[d], Baseline[d])
  BY DEF Gate, Breached
<1>. QED
  BY <1>1, <1>2, <1>3

LEMMA OnlyEligible ==
    ASSUME NEW candidates, NEW c \in DOMAIN candidates
    PROVE  c \in ValidationReport(candidates).reconcile.eligible_candidates <=>
               Gate(candidates[c]).eligible
<1>1. Gate(candidates[c]).eligible \in BOOLEAN
  BY DEF Gate
<1>. QED
  BY <1>1 DEF ValidationReport

(***************************************************************************)
(* The canary: exposure bounds for every window n and share pct.           *)
(***************************************************************************)
\* The fewest requests that make the share.
LEMMA LeastShare ==
    ASSUME NEW n \in Nat, NEW pct \in Nat
    PROVE  LET c == CanaryRequests(n, pct) IN
           /\ c \in Nat
           /\ 100 * c >= pct * n /\ 100 * (c - 1) < pct * n
<1> DEFINE x == n * pct
<1>1. x \in Nat /\ x = pct * n
  OBVIOUS
<1>. HIDE DEF x
<1>2. LET c == (x + 99) \div 100 IN c \in Nat /\ 100 * c >= x /\ 100 * (c - 1) < x
  BY <1>1
<1>. QED
  BY <1>1, <1>2 DEF CanaryRequests, x

\* An empty lane raises, so both lanes have a request: the canary lane is the
\* last c of the window.
LEMMA LanesAre ==
    ASSUME NEW n \in Nat, NEW pct \in Nat, ~CanaryRaises(n, pct)
    PROVE  LET c == CanaryRequests(n, pct) IN
           /\ c > 0 /\ c < n
           /\ InLane(Lanes(n, pct), "canary") = c
           /\ InLane(Lanes(n, pct), "approved") = n - c
<1> DEFINE c == CanaryRequests(n, pct)
           lanes == Lanes(n, pct)
           in(lane) == {i \in DOMAIN lanes : lanes[i] = lane}
<1>1. c \in Nat
  BY LeastShare
<1>. HIDE DEF c
<1>2. DOMAIN lanes = 1..n
  BY DEF Lanes
<1>3. \A i \in 1..n : /\ i > n - c => lanes[i] = "canary"
                      /\ i <= n - c => lanes[i] = "approved"
  BY <1>1 DEF Lanes, c
<1>. HIDE DEF lanes
<1>4. /\ in("canary") = {i \in 1..n : i > n - c}
      /\ in("approved") = {i \in 1..n : i <= n - c}
  BY <1>1, <1>2, <1>3
<1>5. Cardinality(in("canary")) # 0 /\ Cardinality(in("approved")) # 0
  BY DEF CanaryRaises, InLane, lanes
<1>6. in("canary") # {} /\ in("approved") # {}
  BY <1>5, FS_EmptySet
<1>7. c > 0 /\ c < n
  <2>1. PICK i \in 1..n : i > n - c
    BY <1>4, <1>6
  <2>2. PICK j \in 1..n : j <= n - c
    BY <1>4, <1>6
  <2>. QED
    BY <1>1, <2>1, <2>2
<1>8. in("canary") = (n - c + 1)..n /\ in("approved") = 1..(n - c)
  BY <1>1, <1>4, <1>7
<1>9. Cardinality((n - c + 1)..n) = c /\ Cardinality(1..(n - c)) = n - c
  BY <1>1, <1>7, FS_Interval
<1>. QED
  BY <1>7, <1>8, <1>9 DEF InLane, lanes, c

\* What is not above a whole number is not rounded to more.
LEMMA RoundedWithin ==
    ASSUME NEW x \in Nat, NEW n \in Nat \ {0}, NEW pct \in Nat, x <= pct * n
    PROVE  RoundHalfEven(x, n) <= pct
<1> DEFINE q == x \div n
           r == x % n
<1>1. /\ q \in Nat /\ r \in Nat /\ r < n /\ x = q * n + r
  OBVIOUS
<1>2. /\ RoundHalfEven(x, n) \in {q, q + 1}
      /\ r = 0 => RoundHalfEven(x, n) = q
  <2>1. RoundHalfEven(x, n) = IF 2 * r > n \/ (2 * r = n /\ q % 2 = 1) THEN q + 1 ELSE q
    BY DEF RoundHalfEven
  <2>. HIDE DEF q, r
  <2>. QED
    BY <1>1, <2>1
<1>. HIDE DEF q, r
<1>3. /\ pct * n \in Nat /\ q * n \in Nat
      /\ pct < q => pct * n + n <= q * n
      /\ pct = q => pct * n = q * n
  <2>1. pct * n \in Nat /\ q * n \in Nat
    BY <1>1
  <2>2. ASSUME pct < q PROVE pct * n + n <= q * n
    <3>1. (pct + 1) * n <= q * n
      BY <1>1, <2>2
    <3>2. (pct + 1) * n = pct * n + n
      OBVIOUS
    <3>. QED
      BY <3>1, <3>2
  <2>. QED
    BY <2>1, <2>2
<1> DEFINE pn == pct * n
           qn == q * n
<1>4. /\ pn \in Nat /\ qn \in Nat /\ x <= pn /\ x = qn + r
      /\ pct < q => pn + n <= qn
      /\ pct = q => pn = qn
  BY <1>1, <1>3
<1>. HIDE DEF pn, qn
<1>5. q < pct \/ (q = pct /\ r = 0)
  BY <1>1, <1>4
<1>. QED
  BY <1>1, <1>2, <1>5

LEMMA CanaryBounds ==
    ASSUME NEW n \in Nat, NEW pct \in Nat, NEW healthy, NEW degraded,
           ~CanaryRaises(n, pct)
    PROVE  LET report == CanaryReport(n, pct, healthy, degraded)
               c == report.exposure.canary_receipts
               pass == report.exposure.receipt_check = "PASS" IN
             /\ 100 * c >= pct * n /\ 100 * (c - 1) < pct * n
             /\ c + report.exposure.approved_receipts = n
             /\ report.rollback.affected_requests = c
             /\ 100 * c <= pct * n => pass
             /\ report.criteria.eligible_to_promote => pass /\ report.criteria.breaches = {}
             /\ report.reconcile.disposition = "CONFIRMED" <=> pass
<1> DEFINE c == CanaryRequests(n, pct)
           report == CanaryReport(n, pct, healthy, degraded)
<1>1. /\ c \in Nat /\ 100 * c >= pct * n /\ 100 * (c - 1) < pct * n
      /\ c > 0 /\ c < n
      /\ InLane(Lanes(n, pct), "canary") = c
      /\ InLane(Lanes(n, pct), "approved") = n - c
  BY LeastShare, LanesAre
<1>2. 100 * c <= pct * n => Bounded(n, pct)
  <2>. HIDE DEF c
  <2>1. 100 * c \in Nat /\ n \in Nat \ {0}
    BY <1>1
  <2>2. Bounded(n, pct) <=> RoundHalfEven(100 * c, n) <= pct
    BY <1>1 DEF Bounded, MeasuredExposure
  <2>. QED
    BY <2>1, <2>2, RoundedWithin
<1>3. /\ report.exposure.canary_receipts = c /\ report.exposure.approved_receipts = n - c
      /\ report.rollback.affected_requests = c
      /\ report.exposure.receipt_check = IF Bounded(n, pct) THEN "PASS" ELSE "FAIL"
      /\ report.criteria.eligible_to_promote <=>
           report.criteria.breaches = {} /\ Bounded(n, pct)
      /\ report.reconcile.disposition = IF Bounded(n, pct) THEN "CONFIRMED" ELSE "BLOCKED"
  BY <1>1 DEF CanaryReport
<1>. HIDE DEF report, c
<1>4. c + (n - c) = n
  BY <1>1
<1>. QED
  BY <1>1, <1>2, <1>3, <1>4 DEF report

LEMMA ReadinessIs == DOMAIN ReadinessReport = ReadinessKeys
BY DEF ReadinessReport, ReadinessKeys

(***************************************************************************)
(* The threads: what a handler's locals are at each of its places.         *)
(***************************************************************************)
Tracing == {"observe", "incident"}
Lifecycle == {"inject", "alert", "readiness"}

Places == {"idle", "root", "child", "observe", "incident", "logs", "observed",
           "registry", "replay", "prompts", "state", "build", "use"}

Local == [op : {"none", "logs", "prompts"} \union Tracing \union Lifecycle,
          ids : Seq(Nat), done : Nat, cursor : Nat, p95 : P95s \union {None},
          approved : Versions \union {None}, replayed : Versions \union {None},
          logs : {Empty, Logs}]

LocalAt(l, at) ==
    /\ at \in {"root", "child"} => l.op \in Tracing
    /\ at = "root" => Len(l.ids) < Len(Plan(l.op))
    /\ at = "child" => Len(l.ids) \in 1..Len(Plan(l.op))
    /\ at \in Tracing => l.op = at /\ Len(l.ids) = Len(Plan(at))
    /\ at = "replay" => l.approved \in Versions

ThreadsOK ==
    /\ local \in [Workers -> Local] /\ pc \in [Workers -> Places]
    /\ \A w \in Workers : LocalAt(local[w], pc[w])
    /\ registry.approved \in Versions
    /\ nextTrace \in Nat
    /\ observe = Empty \/ \E a, b : observe = ObserveReport(a, b)

\* The thread moves, and the others stay where they are.
Moves(w, at, l) == pc' = [pc EXCEPT ![w] = at] /\ local' = [local EXCEPT ![w] = l]

LEMMA MovesOnly ==
    ASSUME ThreadsOK, NEW w \in Workers, NEW at, NEW l, Moves(w, at, l)
    PROVE  /\ pc'[w] = at /\ local'[w] = l
           /\ \A v \in Workers \ {w} : pc'[v] = pc[v] /\ local'[v] = local[v]
BY DEF Moves, ThreadsOK

LEMMA NothingLocal == NoLocal \in Local /\ LocalAt(NoLocal, "idle")
<1>1. NoLocal \in Local
  BY DEF NoLocal, Local, Empty
<1>. QED
  BY <1>1 DEF LocalAt, Tracing

\* What the runs trace
LEMMA Lists ==
    /\ Len(FailoverStages) = 7 /\ \A i \in 1..7 : FailoverStages[i].cost \in Nat
    /\ Len(SlowStages) = 5 /\ \A i \in 1..5 : SlowStages[i].cost \in Nat
    /\ Len(IncidentStages) = 7 /\ \A i \in 1..7 : IncidentStages[i].cost \in Nat
<1>1. 1..7 = {1, 2, 3, 4, 5, 6, 7} /\ 1..5 = {1, 2, 3, 4, 5}
  OBVIOUS
<1>2. Len(FailoverStages) = 7 /\ \A i \in 1..7 : FailoverStages[i].cost \in Nat
  BY <1>1 DEF FailoverStages, FallbackStages, Stage
<1>3. Len(SlowStages) = 5 /\ \A i \in 1..5 : SlowStages[i].cost \in Nat
  BY <1>1 DEF SlowStages, HealthyStages, Stage
<1>4. Len(IncidentStages) = 7 /\ \A i \in 1..7 : IncidentStages[i].cost \in Nat
  BY <1>1 DEF IncidentStages, Stage
<1>. QED
  BY <1>2, <1>3, <1>4

LEMMA Plans ==
    /\ Len(Plan("observe")) = 2 /\ Len(Plan("incident")) = 1
    /\ Plan("observe")[1] = FailoverStages /\ Plan("observe")[2] = SlowStages
    /\ Plan("incident")[1] = IncidentStages
    /\ \A op \in Tracing : \A i \in 1..Len(Plan(op)) : Len(Plan(op)[i]) \in 5..7
    /\ \A op \in Tracing : \A i \in 1..Len(Plan(op)) :
         \A j \in 1..Len(Plan(op)[i]) : Plan(op)[i][j].cost \in Nat
<1>1. /\ Len(Plan("observe")) = 2 /\ Len(Plan("incident")) = 1
      /\ Plan("observe")[1] = FailoverStages /\ Plan("observe")[2] = SlowStages
      /\ Plan("incident")[1] = IncidentStages
  BY DEF Plan
<1>2. 1..2 = {1, 2} /\ 1..1 = {1}
  OBVIOUS
<1>3. \A op \in Tracing : \A i \in 1..Len(Plan(op)) :
        Plan(op)[i] \in {FailoverStages, SlowStages, IncidentStages}
  BY <1>1, <1>2 DEF Tracing
<1>4. \A stages \in {FailoverStages, SlowStages, IncidentStages} :
        Len(stages) \in 5..7 /\ \A j \in 1..Len(stages) : stages[j].cost \in Nat
  <2>1. 5 \in 5..7 /\ 7 \in 5..7
    OBVIOUS
  <2>. QED
    BY <2>1, Lists
<1>. QED
  BY <1>1, <1>3, <1>4

\* A dictionary that is absent, and the report of a run
LEMMA Lookups ==
    /\ DOMAIN Empty = {}
    /\ \A key : Get(Empty, key) = Empty
    /\ \A a, b : /\ ObserveReport(a, b) # Empty
                 /\ Get(ObserveReport(a, b), "logs") = Logs
                 /\ Get(Get(ObserveReport(a, b), "metrics"), "requests") = Len(Latencies)
<1>1. DOMAIN Empty = {} /\ \A key : Get(Empty, key) = Empty
  BY DEF Get, Empty
<1>2. ASSUME NEW a, NEW b
      PROVE  /\ "logs" \in DOMAIN ObserveReport(a, b)
             /\ "metrics" \in DOMAIN ObserveReport(a, b)
             /\ ObserveReport(a, b)["logs"] = Logs
             /\ ObserveReport(a, b)["metrics"] = Metrics
  BY DEF ObserveReport
<1>3. "requests" \in DOMAIN Metrics /\ Metrics["requests"] = Len(Latencies)
  BY DEF Metrics
<1>4. ASSUME NEW a, NEW b PROVE ObserveReport(a, b) # Empty
  BY <1>1, <1>2
<1>. QED
  BY <1>1, <1>2, <1>3, <1>4 DEF Get

\* A call takes an idle thread to the first place of its handler.
LEMMA RunDoes ==
    ASSUME ThreadsOK, NEW w \in Workers, Run(w)
    PROVE  \E at \in {"root", "logs", "registry", "state"} : \E l \in Local :
             /\ Moves(w, at, l) /\ LocalAt(l, at) /\ l.ids = <<>>
             /\ pc[w] = "idle" /\ UNCHANGED <<states, traces, env, answer, lastP95>>
<1> DEFINE Call(op, p95) ==
             [op |-> op, ids |-> <<>>, done |-> 0, cursor |-> 0, p95 |-> p95,
              approved |-> None, replayed |-> None, logs |-> Empty]
<1>1. ASSUME NEW op \in {"logs", "prompts"} \union Tracing \union Lifecycle,
             NEW p95 \in P95s \union {None}, NEW at \in {"root", "logs", "registry", "state"},
             Begin(w, Call(op, p95), at), at = "root" => op \in Tracing
      PROVE  \E l \in Local :
             /\ Moves(w, at, l) /\ LocalAt(l, at) /\ l.ids = <<>>
             /\ pc[w] = "idle" /\ UNCHANGED <<states, traces, env, answer, lastP95>>
  <2>1. Call(op, p95) \in Local /\ Call(op, p95).ids = <<>> /\ Call(op, p95).op = op
    BY DEF Local
  <2>2. Len(Call(op, p95).ids) = 0
    BY <2>1
  <2>. HIDE DEF Call
  <2>4. LocalAt(Call(op, p95), at)
    BY <1>1, <2>1, <2>2, Plans DEF LocalAt, Tracing
  <2>3. Moves(w, at, Call(op, p95)) /\ pc[w] = "idle"
        /\ UNCHANGED <<states, traces, env, answer, lastP95>>
    BY <1>1 DEF Begin, Goto, Moves, Idle
  <2>. QED
    BY <2>1, <2>3, <2>4
<1>2. \A op : [NoLocal EXCEPT !.op = op] = Call(op, None)
  BY DEF NoLocal
<1>. HIDE DEF Call
<1> DEFINE Goal == \E at \in {"root", "logs", "registry", "state"} : \E l \in Local :
             /\ Moves(w, at, l) /\ LocalAt(l, at) /\ l.ids = <<>>
             /\ pc[w] = "idle" /\ UNCHANGED <<states, traces, env, answer, lastP95>>
<1>3. ASSUME NEW op \in {"logs", "prompts"} \union Tracing \union Lifecycle,
             NEW p95 \in P95s \union {None}, NEW at \in {"root", "logs", "registry", "state"},
             Begin(w, Call(op, p95), at), at = "root" => op \in Tracing
      PROVE  Goal
  BY <1>1, <1>3
<1>0. SUFFICES Goal
  OBVIOUS
<1>. HIDE DEF Goal
<1>4. {"logs", "prompts", "observe", "incident", "inject", "alert", "readiness"}
        \subseteq {"logs", "prompts"} \union Tracing \union Lifecycle
  BY DEF Tracing, Lifecycle
<1>5. CASE ObserveRun(w)
  BY <1>2, <1>3, <1>4, <1>5 DEF ObserveRun, Tracing
<1>6. CASE IncidentRun(w)
  BY <1>2, <1>3, <1>4, <1>6 DEF IncidentRun, Tracing
<1>7. CASE ObserveLogs(w)
  BY <1>2, <1>3, <1>4, <1>7 DEF ObserveLogs
<1>8. CASE PromptsRun(w)
  BY <1>2, <1>3, <1>4, <1>8 DEF PromptsRun
<1>9. ASSUME NEW p95 \in P95s, InjectBreach(w, p95) PROVE Goal
  <2> DEFINE l == [NoLocal EXCEPT !.op = "inject", !.p95 = p95]
  <2>1. l \in Local /\ l.op = "inject" /\ l.ids = <<>>
    BY NothingLocal DEF Local, NoLocal, Lifecycle
  <2>2. LocalAt(l, "state")
    BY DEF LocalAt, Tracing
  <2>. HIDE DEF l
  <2>3. Moves(w, "state", l) /\ pc[w] = "idle"
        /\ UNCHANGED <<states, traces, env, answer, lastP95>>
    BY <1>9 DEF InjectBreach, Begin, Goto, Moves, Idle, l
  <2>. QED
    BY <2>1, <2>2, <2>3 DEF Goal
<1>10. CASE Alert(w)
  BY <1>2, <1>3, <1>4, <1>10 DEF Alert
<1>11. CASE ReadinessGet(w)
  BY <1>2, <1>3, <1>4, <1>11 DEF ReadinessGet
<1>. QED
  BY <1>5, <1>6, <1>7, <1>8, <1>9, <1>10, <1>11 DEF Run

\* The thread is at its next place, and the others stay where they are.
Steps(w, at) ==
    /\ pc[w] # at /\ pc'[w] = at
    /\ pc' \in [Workers -> Places] /\ local' \in [Workers -> Local]
    /\ \A v \in Workers \ {w} : pc'[v] = pc[v] /\ local'[v] = local[v]

LEMMA DoneDoes ==
    ASSUME ThreadsOK, NEW w \in Workers, Done(w), pc[w] # "idle"
    PROVE  Steps(w, "idle") /\ local'[w] = NoLocal
<1>1. NoLocal \in Local /\ "idle" \in Places
  BY NothingLocal DEF Places
<1>. QED
  BY <1>1 DEF ThreadsOK, Done, Goto, Steps

LEMMA GotoDoes ==
    ASSUME ThreadsOK, NEW w \in Workers, NEW at \in Places, Goto(w, at),
           UNCHANGED local, pc[w] # at
    PROVE  Steps(w, at) /\ local'[w] = local[w]
BY DEF ThreadsOK, Goto, Steps

\* A local changed in one field
LEMMA Changed ==
    ASSUME NEW l \in Local, NEW n \in Nat
    PROVE  /\ LET d == [l EXCEPT !.done = n] IN
                d \in Local /\ d.op = l.op /\ d.ids = l.ids /\ d.done = n /\ d.cursor = l.cursor
           /\ LET c == [l EXCEPT !.cursor = n] IN
                c \in Local /\ c.op = l.op /\ c.ids = l.ids /\ c.done = l.done /\ c.cursor = n
           /\ LET i == [l EXCEPT !.ids = Append(l.ids, n)] IN
                i \in Local /\ i.op = l.op /\ i.ids = Append(l.ids, n)
<1>1. [l EXCEPT !.done = n] \in Local /\ [l EXCEPT !.cursor = n] \in Local
  BY DEF Local
<1>2. l.ids \in Seq(Nat)
  BY DEF Local
<1>3. Append(l.ids, n) \in Seq(Nat)
  BY <1>2
<1>4. [l EXCEPT !.ids = Append(l.ids, n)] \in Local
  BY <1>3 DEF Local
<1>. QED
  BY <1>1, <1>4 DEF Local

\* The trace builders
LEMMA StartRootDoes ==
    ASSUME ThreadsOK, NEW w \in Workers, StartRoot(w)
    PROVE  /\ Steps(w, "child") /\ pc[w] = "root" /\ nextTrace <= MaxTraces
           /\ nextTrace' = nextTrace + 1
           /\ local'[w].op = local[w].op
           /\ local'[w].ids = Append(local[w].ids, nextTrace)
           /\ local'[w].done = 0 /\ local'[w].cursor = 0
           /\ UNCHANGED <<byTrace, states, env, answer, lastP95>>
<1>1. local[w] \in Local /\ nextTrace \in Nat /\ "child" \in Places
  BY DEF ThreadsOK, Places
<1> DEFINE l1 == [local[w] EXCEPT !.ids = Append(local[w].ids, nextTrace)]
           l2 == [l1 EXCEPT !.done = 0]
           l == [l2 EXCEPT !.cursor = 0]
<1>3. local' = [local EXCEPT ![w] = l]
  BY DEF StartRoot
<1>2. /\ l \in Local /\ l.op = local[w].op /\ l.ids = Append(local[w].ids, nextTrace)
      /\ l.done = 0 /\ l.cursor = 0
  <2>1. l1 \in Local /\ l1.op = local[w].op /\ l1.ids = Append(local[w].ids, nextTrace)
    BY <1>1, Changed
  <2>. HIDE DEF l1
  <2>2. l2 \in Local /\ l2.op = l1.op /\ l2.ids = l1.ids /\ l2.done = 0
    BY <2>1, Changed
  <2>. HIDE DEF l2
  <2>3. l \in Local /\ l.op = l2.op /\ l.ids = l2.ids /\ l.done = l2.done /\ l.cursor = 0
    <3>1. 0 \in Nat
      OBVIOUS
    <3>. QED
      BY <2>2, <3>1, Changed, Zenon
  <2>. QED
    BY <2>1, <2>2, <2>3
<1>. HIDE DEF l
<1>4. Steps(w, "child") /\ local'[w] = l
  BY <1>1, <1>2, <1>3 DEF StartRoot, Goto, Steps, ThreadsOK
<1>. QED
  BY <1>2, <1>4 DEF StartRoot

LEMMA EndChildDoes ==
    ASSUME ThreadsOK, NEW w \in Workers, EndChild(w), local[w].done \in Nat
    PROVE  LET stage == Stages(w)[local[w].done + 1] IN
           /\ pc' = pc /\ pc[w] = "child" /\ local[w].done < Len(Stages(w))
           /\ \A v \in Workers \ {w} : local'[v] = local[v]
           /\ local'[w].op = local[w].op /\ local'[w].ids = local[w].ids
           /\ local'[w].done = local[w].done + 1
           /\ local'[w].cursor = local[w].cursor + stage.cost
           /\ stage.cost \in Nat => local' \in [Workers -> Local]
           /\ Export(w, Span(stage.span, local[w].cursor, stage.cost))
           /\ UNCHANGED <<nextTrace, states, env, answer, lastP95>>
<1> DEFINE stage == Stages(w)[local[w].done + 1]
           l1 == [local[w] EXCEPT !.done = local[w].done + 1]
           l == [l1 EXCEPT !.cursor = local[w].cursor + stage.cost]
<1>1. local[w] \in Local
  BY DEF ThreadsOK
<1>3. local' = [local EXCEPT ![w] = l]
  BY DEF EndChild
<1>. HIDE DEF stage
<1>2. /\ l.op = local[w].op /\ l.ids = local[w].ids /\ l.done = local[w].done + 1
      /\ l.cursor = local[w].cursor + stage.cost
      /\ stage.cost \in Nat => l \in Local
  <2>1. l1 \in Local /\ l1.op = local[w].op /\ l1.ids = local[w].ids
        /\ l1.done = local[w].done + 1
    <3>1. local[w].done + 1 \in Nat
      OBVIOUS
    <3>. QED
      BY <1>1, <3>1, Changed
  <2>. HIDE DEF l1
  <2>2. /\ l.op = l1.op /\ l.ids = l1.ids /\ l.done = l1.done
        /\ l.cursor = local[w].cursor + stage.cost
    BY <2>1 DEF Local
  <2>3. ASSUME stage.cost \in Nat PROVE l \in Local
    <3>1. local[w].cursor + stage.cost \in Nat
      BY <1>1, <2>3 DEF Local
    <3>. QED
      BY <2>1, <3>1, Changed
  <2>. QED
    BY <2>1, <2>2, <2>3
<1>. HIDE DEF l
<1>4. /\ local'[w] = l /\ \A v \in Workers \ {w} : local'[v] = local[v]
      /\ l \in Local => local' \in [Workers -> Local]
  BY <1>3 DEF ThreadsOK
<1>. QED
  BY <1>2, <1>4 DEF EndChild, stage

LEMMA EndRootDoes ==
    ASSUME ThreadsOK, NEW w \in Workers, EndRoot(w)
    PROVE  LET at == IF Len(local[w].ids) < Len(Plan(local[w].op)) THEN "root"
                     ELSE local[w].op IN
           /\ Steps(w, at) /\ pc[w] = "child" /\ local[w].done = Len(Stages(w))
           /\ UNCHANGED <<local, nextTrace, states, env, answer, lastP95>>
           /\ Export(w, Span("request", 0, ChildTotal(Stages(w))))
<1> DEFINE at == IF Len(local[w].ids) < Len(Plan(local[w].op)) THEN "root"
                 ELSE local[w].op
<1>1. local[w].op \in Tracing /\ pc[w] = "child"
  BY DEF EndRoot, ThreadsOK, LocalAt
<1>2. at \in Places /\ at # "child"
  BY <1>1 DEF Tracing, Places
<1>. HIDE DEF at
<1>3. Goto(w, at)
  BY DEF EndRoot, at
<1>4. Steps(w, at)
  BY <1>1, <1>2, <1>3, GotoDoes DEF EndRoot
<1>. QED
  BY <1>4 DEF EndRoot, at

LEMMA PublishDoes ==
    ASSUME ThreadsOK, NEW w \in Workers,
           PublishObserve(w) \/ PublishIncident(w) \/ PublishPrompts(w)
    PROVE  /\ Steps(w, "idle") /\ local'[w] = NoLocal
           /\ UNCHANGED <<byTrace, nextTrace, validation, canary, readiness,
                          env, answer, lastP95>>
           /\ \/ /\ pc[w] = "observe" /\ UNCHANGED <<incident, prompts>>
                 /\ observe' = ObserveReport(local[w].ids[1], local[w].ids[2])
              \/ /\ pc[w] = "incident" /\ UNCHANGED <<observe, prompts>>
                 /\ incident' = IncidentReport(local[w].ids[1])
              \/ /\ pc[w] = "prompts" /\ UNCHANGED <<observe, incident>>
                 /\ prompts' = PromptsReport(local[w].approved, local[w].replayed)
<1>1. Done(w) /\ pc[w] # "idle"
  BY DEF PublishObserve, PublishIncident, PublishPrompts
<1>2. Steps(w, "idle") /\ local'[w] = NoLocal
  BY <1>1, DoneDoes
<1>. QED
  BY <1>2 DEF PublishObserve, PublishIncident, PublishPrompts, traces

\* The readers of the logs and of the registry
LEMMA ReadDoes ==
    ASSUME ThreadsOK, NEW w \in Workers,
           ReadLogs(w) \/ LoadRegistry(w) \/ ReplayRegistry(w)
    PROVE  /\ UNCHANGED <<states, traces, env, answer, lastP95>>
           /\ local'[w].ids = local[w].ids
           /\ \/ /\ pc[w] = "logs" /\ Steps(w, "observed")
                 /\ local'[w].logs = Get(observe, "logs")
              \/ /\ pc[w] = "registry" /\ Steps(w, "replay")
                 /\ local'[w].approved = registry.approved
              \/ /\ pc[w] = "replay" /\ Steps(w, "prompts")
                 /\ local'[w].approved = local[w].approved
                 /\ local'[w].replayed = registry.approved
<1>1. /\ local[w] \in Local /\ registry.approved \in Versions
      /\ {"observed", "replay", "prompts"} \subseteq Places
  BY DEF ThreadsOK, Places
<1>2. Get(observe, "logs") \in {Empty, Logs}
  BY Lookups DEF ThreadsOK
<1>3. CASE ReadLogs(w)
  <2> DEFINE l == [local[w] EXCEPT !.logs = Get(observe, "logs")]
  <2>1. l \in Local /\ l.logs = Get(observe, "logs") /\ l.ids = local[w].ids
    BY <1>1, <1>2 DEF Local
  <2>2. local' = [local EXCEPT ![w] = l]
    BY <1>3 DEF ReadLogs, ThreadsOK
  <2>. HIDE DEF l
  <2>3. Steps(w, "observed") /\ local'[w] = l
    BY <1>1, <1>3, <2>1, <2>2 DEF ReadLogs, Goto, Steps, ThreadsOK
  <2>. QED
    BY <1>3, <2>1, <2>3 DEF ReadLogs
<1>4. CASE LoadRegistry(w)
  <2> DEFINE l == [local[w] EXCEPT !.approved = registry.approved]
  <2>1. l \in Local /\ l.approved = registry.approved /\ l.ids = local[w].ids
    BY <1>1 DEF Local
  <2>2. local' = [local EXCEPT ![w] = l]
    BY <1>4 DEF LoadRegistry, ThreadsOK
  <2>. HIDE DEF l
  <2>3. Steps(w, "replay") /\ local'[w] = l
    BY <1>1, <1>4, <2>1, <2>2 DEF LoadRegistry, Goto, Steps, ThreadsOK
  <2>. QED
    BY <1>4, <2>1, <2>3 DEF LoadRegistry
<1>5. CASE ReplayRegistry(w)
  <2> DEFINE l == [local[w] EXCEPT !.replayed = registry.approved]
  <2>1. /\ l \in Local /\ l.replayed = registry.approved
        /\ l.approved = local[w].approved /\ l.ids = local[w].ids
    BY <1>1 DEF Local
  <2>2. local' = [local EXCEPT ![w] = l]
    BY <1>5 DEF ReplayRegistry, ThreadsOK
  <2>. HIDE DEF l
  <2>3. Steps(w, "prompts") /\ local'[w] = l
    BY <1>1, <1>5, <2>1, <2>2 DEF ReplayRegistry, Goto, Steps, ThreadsOK
  <2>. QED
    BY <1>5, <2>1, <2>3 DEF ReplayRegistry
<1>. QED
  BY <1>3, <1>4, <1>5

\* The handlers that end with an answer, or with an error
LEMMA AnswerDoes ==
    ASSUME ThreadsOK, NEW w \in Workers,
           ReadObserved(w) \/ RegistryFails(w) \/ SetInjected(w) \/ ReadAlert(w)
             \/ ReadReadiness(w)
    PROVE  /\ Steps(w, "idle") /\ local'[w] = NoLocal
           /\ UNCHANGED <<observe, incident, prompts, validation, canary, traces, env>>
           /\ pc[w] \in {"observed", "registry", "replay", "use"}
<1>1. Done(w) /\ pc[w] \in {"observed", "registry", "replay", "use"}
  BY DEF ReadObserved, RegistryFails, SetInjected, ReadAlert, ReadReadiness
<1>2. Steps(w, "idle") /\ local'[w] = NoLocal
  BY <1>1, DoneDoes
<1>. QED
  BY <1>1, <1>2 DEF ReadObserved, RegistryFails, SetInjected, ReadAlert, ReadReadiness,
                    states

\* The lazy build of the readiness report
LEMMA LazyDoes ==
    ASSUME ThreadsOK, NEW w \in Workers, CheckState(w) \/ BuildState(w)
    PROVE  /\ UNCHANGED <<local, observe, incident, prompts, validation, canary,
                          traces, env, answer, lastP95>>
           /\ \/ /\ pc[w] = "state" /\ UNCHANGED readiness
                 /\ Steps(w, "build") \/ (Steps(w, "use") /\ readiness # NoReadiness)
              \/ pc[w] = "build" /\ RunReadiness /\ Steps(w, "use")
<1>1. {"build", "use"} \subseteq Places
  BY DEF Places
<1>2. CASE CheckState(w)
  BY <1>1, <1>2, GotoDoes DEF CheckState, states
<1>3. CASE BuildState(w)
  BY <1>1, <1>3, GotoDoes DEF BuildState
<1>. QED
  BY <1>2, <1>3

LEMMA InitThreads == Init => ThreadsOK
<1>. SUFFICES ASSUME Init PROVE ThreadsOK
  OBVIOUS
<1>1. \A w \in Workers : local[w] = NoLocal /\ pc[w] = "idle"
  BY DEF Init
<1>2. local \in [Workers -> Local] /\ pc \in [Workers -> Places]
  BY NothingLocal DEF Init, Places
<1>3. \A w \in Workers : LocalAt(local[w], pc[w])
  BY <1>1, NothingLocal
<1>4. registry.approved \in Versions /\ nextTrace \in Nat /\ observe = Empty
  BY ReportsConstants DEF Init
<1>. QED
  BY <1>2, <1>3, <1>4 DEF ThreadsOK

\* One thread moves.
LEMMA OneMoves ==
    ASSUME ThreadsOK, NEW w \in Workers, NEW at, Steps(w, at), LocalAt(local'[w], at),
           UNCHANGED registry, nextTrace' \in Nat,
           observe' = observe \/ \E a, b : observe' = ObserveReport(a, b)
    PROVE  ThreadsOK'
<1>1. \A v \in Workers : LocalAt(local'[v], pc'[v])
  <2>1. ASSUME NEW v \in Workers, v # w PROVE LocalAt(local'[v], pc'[v])
    BY <2>1 DEF ThreadsOK, Steps
  <2>. QED
    BY <2>1 DEF Steps
<1>2. local' \in [Workers -> Local] /\ pc' \in [Workers -> Places]
  BY DEF Steps
<1>3. registry'.approved \in Versions
  BY DEF ThreadsOK
<1>4. observe' = Empty \/ \E a, b : observe' = ObserveReport(a, b)
  BY DEF ThreadsOK
<1>. QED
  BY <1>1, <1>2, <1>3, <1>4 DEF ThreadsOK

LEMMA EndChildKeeps ==
    ASSUME ThreadsOK, NEW w \in Workers, EndChild(w)
    PROVE  /\ local[w].done \in Nat
           /\ Stages(w)[local[w].done + 1].cost \in Nat
           /\ local'[w] \in Local /\ local' \in [Workers -> Local]
           /\ ThreadsOK'
<1> DEFINE stage == Stages(w)[local[w].done + 1]
<1>1. /\ pc[w] = "child" /\ local[w] \in Local /\ local[w].done \in Nat
      /\ local[w].done < Len(Stages(w))
  BY DEF ThreadsOK, EndChild, Local
<1>2. local[w].op \in Tracing /\ Len(local[w].ids) \in 1..Len(Plan(local[w].op))
  BY <1>1 DEF ThreadsOK, LocalAt
<1>3. local[w].done + 1 \in 1..Len(Stages(w))
  <2>1. Len(Stages(w)) \in Nat
    BY <1>2, Plans DEF Stages
  <2>. QED
    BY <1>1, <2>1
<1>4. stage.cost \in Nat
  BY <1>2, <1>3, Plans DEF Stages
<1>. HIDE DEF stage
<1>5. /\ pc' = pc /\ \A v \in Workers \ {w} : local'[v] = local[v]
      /\ local'[w].op = local[w].op /\ local'[w].ids = local[w].ids
      /\ local' \in [Workers -> Local]
      /\ UNCHANGED <<nextTrace, states, env>>
  BY <1>1, <1>4, EndChildDoes DEF stage
<1>6. LocalAt(local'[w], pc'[w])
  BY <1>1, <1>2, <1>5 DEF LocalAt, Tracing
<1>7. \A v \in Workers : LocalAt(local'[v], pc'[v])
  BY <1>5, <1>6 DEF ThreadsOK
<1>8. ThreadsOK'
  BY <1>5, <1>7 DEF ThreadsOK, states, env
<1>. QED
  BY <1>1, <1>4, <1>5, <1>8 DEF stage

LEMMA NextThreads == ThreadsOK /\ [Next]_vars => ThreadsOK'
<1>. SUFFICES ASSUME ThreadsOK, [Next]_vars PROVE ThreadsOK'
  OBVIOUS
<1>0. nextTrace \in Nat
  BY DEF ThreadsOK
<1>1. ASSUME NEW w \in Workers, Run(w) PROVE ThreadsOK'
  <2>1. PICK at \in {"root", "logs", "registry", "state"}, l \in Local :
             /\ Moves(w, at, l) /\ LocalAt(l, at) /\ pc[w] = "idle"
             /\ UNCHANGED <<states, traces, env>>
    BY <1>1, RunDoes
  <2>2. pc'[w] = at /\ local'[w] = l /\ \A v \in Workers \ {w} : pc'[v] = pc[v] /\ local'[v] = local[v]
    BY <2>1, MovesOnly
  <2>3. Steps(w, at)
    <3>1. at \in Places
      BY DEF Places
    <3>. QED
      BY <2>1, <2>2, <3>1 DEF Steps, ThreadsOK, Moves
  <2>. QED
    BY <1>0, <2>1, <2>2, <2>3, OneMoves DEF states, traces, env
<1>2. ASSUME NEW w \in Workers, Step(w) PROVE ThreadsOK'
  <2>1. CASE StartRoot(w)
    <3>1. /\ Steps(w, "child") /\ pc[w] = "root" /\ nextTrace' = nextTrace + 1
          /\ local'[w].op = local[w].op
          /\ local'[w].ids = Append(local[w].ids, nextTrace)
          /\ UNCHANGED <<states, env>>
      BY <2>1, StartRootDoes
    <3>2. /\ local[w].op \in Tracing /\ Len(local[w].ids) < Len(Plan(local[w].op))
          /\ local[w].ids \in Seq(Nat)
      BY <3>1 DEF ThreadsOK, LocalAt, Local
    <3>3. Len(local'[w].ids) = Len(local[w].ids) + 1
      BY <1>0, <3>1, <3>2
    <3>4. Len(local[w].ids) \in Nat /\ Len(Plan(local[w].op)) \in Nat
      BY <3>2, Plans DEF Tracing
    <3>5. Len(local'[w].ids) \in 1..Len(Plan(local'[w].op))
      BY <3>1, <3>2, <3>3, <3>4
    <3>6. LocalAt(local'[w], "child")
      BY <3>1, <3>2, <3>5 DEF LocalAt, Tracing
    <3>. QED
      BY <1>0, <3>1, <3>6, OneMoves DEF states, env
  <2>2. CASE EndChild(w)
    BY <2>2, EndChildKeeps
  <2>3. CASE EndRoot(w)
    <3> DEFINE at == IF Len(local[w].ids) < Len(Plan(local[w].op)) THEN "root"
                     ELSE local[w].op
    <3>1. /\ Steps(w, at) /\ pc[w] = "child"
          /\ UNCHANGED <<local, nextTrace, states, env>>
      BY <2>3, EndRootDoes
    <3>2. /\ local[w].op \in Tracing /\ Len(local[w].ids) \in 1..Len(Plan(local[w].op))
      BY <3>1 DEF ThreadsOK, LocalAt
    <3>3. Len(Plan(local[w].op)) \in Nat
      BY <3>2, Plans DEF Tracing
    <3>4. LocalAt(local[w], at)
      BY <3>2, <3>3 DEF LocalAt, Tracing
    <3>. HIDE DEF at
    <3>. QED
      BY <1>0, <3>1, <3>4, OneMoves DEF states, env
  <2>4. CASE PublishObserve(w) \/ PublishIncident(w) \/ PublishPrompts(w)
    <3>1. /\ Steps(w, "idle") /\ local'[w] = NoLocal /\ UNCHANGED <<nextTrace, env>>
          /\ observe' = observe \/ \E a, b : observe' = ObserveReport(a, b)
      BY <2>4, PublishDoes
    <3>. QED
      BY <1>0, <3>1, NothingLocal, OneMoves DEF env
  <2>5. CASE ReadLogs(w) \/ LoadRegistry(w) \/ ReplayRegistry(w)
    <3>1. PICK at \in {"observed", "replay", "prompts"} :
             /\ Steps(w, at) /\ UNCHANGED <<states, traces, env>>
             /\ at = "replay" => local'[w].approved = registry.approved
      BY <2>5, ReadDoes
    <3>2. LocalAt(local'[w], at)
      BY <3>1 DEF LocalAt, Tracing, ThreadsOK
    <3>. QED
      BY <1>0, <3>1, <3>2, OneMoves DEF states, traces, env
  <2>6. CASE \/ ReadObserved(w) \/ RegistryFails(w) \/ SetInjected(w) \/ ReadAlert(w)
             \/ ReadReadiness(w)
    <3>1. /\ Steps(w, "idle") /\ local'[w] = NoLocal /\ UNCHANGED <<observe, traces, env>>
      BY <2>6, AnswerDoes
    <3>. QED
      BY <1>0, <3>1, NothingLocal, OneMoves DEF traces, env
  <2>7. CASE CheckState(w) \/ BuildState(w)
    <3>1. PICK at \in {"build", "use"} :
             Steps(w, at) /\ UNCHANGED <<local, observe, traces, env>>
      BY <2>7, LazyDoes
    <3>2. LocalAt(local'[w], at)
      BY <3>1 DEF LocalAt, Tracing
    <3>. QED
      BY <1>0, <3>1, <3>2, OneMoves DEF traces, env
  <2>. QED
    BY <1>2, <2>1, <2>2, <2>3, <2>4, <2>5, <2>6, <2>7 DEF Step
<1>3. CASE ValidationRun \/ CanaryRun \/ ReadinessRun \/ UNCHANGED vars
  <2>1. UNCHANGED <<observe, traces, env, pc, local>>
    BY <1>3 DEF ValidationRun, CanaryRun, ReadinessRun, Instant, vars, states
  <2>. QED
    BY <2>1 DEF ThreadsOK, traces, env
<1>4. ASSUME NEW v \in Versions, EditRegistry(v) PROVE ThreadsOK'
  <2>1. UNCHANGED <<observe, nextTrace, pc, local>> /\ registry'.approved = v
    BY <1>4 DEF EditRegistry, states, traces
  <2>. QED
    BY <2>1 DEF ThreadsOK
<1>5. CASE Restart
  <2>1. \A w \in Workers : local'[w] = NoLocal /\ pc'[w] = "idle"
    BY <1>5 DEF Restart
  <2>2. local' \in [Workers -> Local] /\ pc' \in [Workers -> Places]
    BY <1>5, NothingLocal DEF Restart, Places
  <2>3. registry' = registry /\ nextTrace' \in Nat /\ observe' = Empty
    BY <1>5 DEF Restart
  <2>. QED
    BY <2>1, <2>2, <2>3, NothingLocal DEF ThreadsOK
<1>. QED
  BY <1>1, <1>2, <1>3, <1>4, <1>5 DEF Next

(***************************************************************************)
(* The reports: each dictionary is empty or holds the report of a run.     *)
(***************************************************************************)
Canaried ==
    /\ ~CanaryRaises(settings.window, settings.pct)
    /\ canary = CanaryReport(settings.window, settings.pct, settings.healthy,
                             settings.degraded)

ReportsInv ==
    /\ settings \in Settings
    /\ incident = Empty \/ \E t : incident = IncidentReport(t)
    /\ prompts = Empty \/ \E a, r : prompts = PromptsReport(a, r)
    /\ validation = Empty \/ validation = ValidationReport(settings.candidates)
    /\ canary = Empty \/ Canaried

LEMMA InitReports == Init => ReportsInv
BY DEF Init, ReportsInv

LEMMA NextReports == ThreadsOK /\ ReportsInv /\ [Next]_vars => ReportsInv'
<1>. SUFFICES ASSUME ThreadsOK, ReportsInv, [Next]_vars PROVE ReportsInv'
  OBVIOUS
<1>1. ASSUME UNCHANGED <<incident, prompts, validation, canary, settings>>
      PROVE  ReportsInv'
  BY <1>1 DEF ReportsInv, Canaried
<1>2. ASSUME NEW w \in Workers, Run(w) PROVE ReportsInv'
  BY <1>1, <1>2, RunDoes DEF states, env
<1>3. ASSUME NEW w \in Workers, Step(w) PROVE ReportsInv'
  <2>1. CASE StartRoot(w) \/ EndChild(w) \/ EndRoot(w)
    BY <1>1, <2>1 DEF StartRoot, EndChild, EndRoot, states, env
  <2>2. CASE PublishObserve(w) \/ PublishIncident(w) \/ PublishPrompts(w)
    <3>1. /\ UNCHANGED <<validation, canary, settings>>
          /\ incident' = incident \/ \E t : incident' = IncidentReport(t)
          /\ prompts' = prompts \/ \E a, r : prompts' = PromptsReport(a, r)
      BY <2>2, PublishDoes DEF env
    <3>2. /\ incident' = Empty \/ \E t : incident' = IncidentReport(t)
          /\ prompts' = Empty \/ \E a, r : prompts' = PromptsReport(a, r)
      BY <3>1 DEF ReportsInv
    <3>. QED
      BY <3>1, <3>2 DEF ReportsInv, Canaried
  <2>3. CASE ReadLogs(w) \/ LoadRegistry(w) \/ ReplayRegistry(w)
    BY <1>1, <2>3, ReadDoes DEF states, env
  <2>4. CASE \/ ReadObserved(w) \/ RegistryFails(w) \/ SetInjected(w) \/ ReadAlert(w)
             \/ ReadReadiness(w)
    BY <1>1, <2>4, AnswerDoes DEF env
  <2>5. CASE CheckState(w) \/ BuildState(w)
    BY <1>1, <2>5, LazyDoes DEF env
  <2>. QED
    BY <1>3, <2>1, <2>2, <2>3, <2>4, <2>5 DEF Step
<1>4. CASE ValidationRun
  BY <1>4 DEF ValidationRun, Instant, ReportsInv, Canaried, env
<1>5. CASE CanaryRun
  <2>1. /\ UNCHANGED <<incident, prompts, validation, settings>>
        /\ \/ canary' = canary
           \/ /\ ~CanaryRaises(settings.window, settings.pct)
              /\ canary' = CanaryReport(settings.window, settings.pct,
                                        settings.healthy, settings.degraded)
    BY <1>5 DEF CanaryRun, Instant, env
  <2>. QED
    BY <2>1 DEF ReportsInv, Canaried
<1>6. CASE ReadinessRun \/ UNCHANGED vars
  BY <1>1, <1>6 DEF ReadinessRun, Instant, env, vars, states
<1>7. ASSUME NEW v \in Versions, EditRegistry(v) PROVE ReportsInv'
  BY <1>1, <1>7 DEF EditRegistry, states
<1>8. CASE Restart
  BY <1>8 DEF Restart, ReportsInv
<1>. QED
  BY <1>2, <1>3, <1>4, <1>5, <1>6, <1>7, <1>8 DEF Next

(***************************************************************************)
(* Readiness: the injected p95 is the last one, and a thread that uses the *)
(* dictionary finds the report in it.                                      *)
(***************************************************************************)
ReadinessInv ==
    /\ readiness = [report |-> readiness.report, injected |-> lastP95]
    /\ readiness.report = Empty \/ readiness.report = ReadinessReport
    /\ readiness.report = Empty => lastP95 = None
    /\ \A w \in Workers : pc[w] = "use" => readiness.report = ReadinessReport

LEMMA InitReadiness == Init => ReadinessInv
BY DEF Init, ReadinessInv, NoReadiness

LEMMA SomeReport == ReadinessReport # Empty
BY ReadinessIs DEF ReadinessKeys, Empty

LEMMA NextReadiness == ThreadsOK /\ ReadinessInv /\ [Next]_vars => ReadinessInv'
<1>. SUFFICES ASSUME ThreadsOK, ReadinessInv, [Next]_vars PROVE ReadinessInv'
  OBVIOUS
<1>1. ASSUME UNCHANGED <<readiness, lastP95>>,
             \A w \in Workers : pc'[w] = "use" => pc[w] = "use" \/ readiness # NoReadiness
      PROVE  ReadinessInv'
  <2>1. readiness # NoReadiness => readiness.report = ReadinessReport
    BY DEF ReadinessInv, NoReadiness
  <2>. QED
    BY <1>1, <2>1 DEF ReadinessInv
<1>2. ASSUME RunReadiness, UNCHANGED lastP95 PROVE ReadinessInv'
  <2>1. readiness' = [report |-> ReadinessReport, injected |-> lastP95]
    BY <1>2 DEF RunReadiness, ReadinessInv
  <2>. QED
    BY <1>2, <2>1, SomeReport DEF ReadinessInv
<1>3. ASSUME NEW w \in Workers, NEW at \in Places, at # "use", Steps(w, at),
             UNCHANGED <<readiness, lastP95>>
      PROVE  ReadinessInv'
  BY <1>1, <1>3 DEF Steps
<1>4. ASSUME NEW w \in Workers, Run(w) PROVE ReadinessInv'
  <2>1. PICK at \in {"root", "logs", "registry", "state"}, l \in Local :
             Moves(w, at, l) /\ UNCHANGED <<states, lastP95>>
    BY <1>4, RunDoes
  <2>2. pc'[w] = at /\ \A v \in Workers \ {w} : pc'[v] = pc[v]
    BY <2>1, MovesOnly
  <2>. QED
    BY <1>1, <2>1, <2>2 DEF states
<1>5. ASSUME NEW w \in Workers, Step(w) PROVE ReadinessInv'
  <2>0. {"child", "root", "observe", "incident", "idle", "observed", "replay", "prompts",
         "build"} \subseteq Places
    BY DEF Places
  <2>1. CASE StartRoot(w)
    BY <1>3, <2>0, <2>1, StartRootDoes DEF states
  <2>2. CASE EndChild(w)
    BY <1>1, <2>2 DEF EndChild, states
  <2>3. CASE EndRoot(w)
    <3> DEFINE at == IF Len(local[w].ids) < Len(Plan(local[w].op)) THEN "root"
                     ELSE local[w].op
    <3>1. Steps(w, at) /\ pc[w] = "child" /\ UNCHANGED <<states, lastP95>>
      BY <2>3, EndRootDoes
    <3>2. local[w].op \in Tracing
      BY <3>1 DEF ThreadsOK, LocalAt
    <3>3. at \in Places /\ at # "use"
      BY <2>0, <3>2 DEF Tracing
    <3>. HIDE DEF at
    <3>. QED
      BY <1>3, <3>1, <3>3 DEF states
  <2>4. CASE PublishObserve(w) \/ PublishIncident(w) \/ PublishPrompts(w)
    BY <1>3, <2>0, <2>4, PublishDoes
  <2>5. CASE ReadLogs(w) \/ LoadRegistry(w) \/ ReplayRegistry(w)
    BY <1>3, <2>0, <2>5, ReadDoes DEF states
  <2>6. CASE ReadObserved(w) \/ RegistryFails(w) \/ ReadAlert(w) \/ ReadReadiness(w)
    <3>1. UNCHANGED <<readiness, lastP95>>
      BY <2>6 DEF ReadObserved, RegistryFails, ReadAlert, ReadReadiness, states
    <3>. QED
      BY <1>3, <2>0, <2>6, <3>1, AnswerDoes
  <2>7. CASE SetInjected(w)
    <3>1. /\ readiness' = [readiness EXCEPT !.injected = local[w].p95]
          /\ lastP95' = local[w].p95 /\ pc[w] = "use"
      BY <2>7 DEF SetInjected
    <3>2. readiness.report = ReadinessReport
      BY <3>1 DEF ReadinessInv
    <3>3. readiness' = [report |-> ReadinessReport, injected |-> lastP95']
      BY <3>1, <3>2 DEF ReadinessInv
    <3>. QED
      BY <3>3, SomeReport DEF ReadinessInv
  <2>8. CASE CheckState(w) \/ BuildState(w)
    <3>1. UNCHANGED lastP95
      BY <2>8, LazyDoes
    <3>2. CASE RunReadiness
      BY <1>2, <3>1, <3>2
    <3>3. CASE /\ UNCHANGED readiness
               /\ Steps(w, "build") \/ (Steps(w, "use") /\ readiness # NoReadiness)
      BY <1>1, <3>1, <3>3 DEF Steps
    <3>. QED
      BY <2>8, <3>2, <3>3, LazyDoes
  <2>. QED
    BY <1>5, <2>1, <2>2, <2>3, <2>4, <2>5, <2>6, <2>7, <2>8 DEF Step
<1>6. CASE ReadinessRun
  BY <1>2, <1>6 DEF ReadinessRun, Instant
<1>7. CASE ValidationRun \/ CanaryRun \/ UNCHANGED vars
  BY <1>1, <1>7 DEF ValidationRun, CanaryRun, Instant, vars, states
<1>8. ASSUME NEW v \in Versions, EditRegistry(v) PROVE ReadinessInv'
  BY <1>1, <1>8 DEF EditRegistry, states
<1>9. CASE Restart
  BY <1>9 DEF Restart, ReadinessInv, NoReadiness
<1>. QED
  BY <1>4, <1>5, <1>6, <1>7, <1>8, <1>9 DEF Next

(***************************************************************************)
(* The answers of the GET endpoints that take more than one step.          *)
(***************************************************************************)
LogsHeld == \A w \in Workers :
    pc[w] = "observed" /\ local[w].logs # Empty => observe # Empty

AnswersInv ==
    /\ answer.op = "readiness" => answer.keys = ReadinessKeys
    /\ AlertFollowsInjection
    /\ answer.op = "logs" => (answer.logs # Empty => answer.observed = Len(Latencies))

LEMMA InitAnswers == Init => LogsHeld /\ AnswersInv
BY DEF Init, LogsHeld, AnswersInv, AlertFollowsInjection, NoAnswer

LEMMA NextLogs == ThreadsOK /\ LogsHeld /\ [Next]_vars => LogsHeld'
<1>. SUFFICES ASSUME ThreadsOK, LogsHeld, [Next]_vars PROVE LogsHeld'
  OBVIOUS
<1>1. ASSUME observe # Empty => observe' # Empty,
             \A v \in Workers : pc'[v] = "observed" =>
                pc[v] = "observed" /\ local'[v].logs = local[v].logs
      PROVE  LogsHeld'
  BY <1>1 DEF LogsHeld
<1>2. ASSUME NEW w \in Workers, NEW at \in Places, at # "observed", Steps(w, at),
             observe # Empty => observe' # Empty
      PROVE  LogsHeld'
  BY <1>1, <1>2 DEF Steps
<1>3. ASSUME NEW w \in Workers, Run(w) PROVE LogsHeld'
  <2>1. PICK at \in {"root", "logs", "registry", "state"}, l \in Local :
             Moves(w, at, l) /\ UNCHANGED states
    BY <1>3, RunDoes
  <2>2. pc'[w] = at /\ \A v \in Workers \ {w} : pc'[v] = pc[v] /\ local'[v] = local[v]
    BY <2>1, MovesOnly
  <2>. QED
    BY <1>1, <2>1, <2>2 DEF states
<1>4. ASSUME NEW w \in Workers, Step(w) PROVE LogsHeld'
  <2>0. {"child", "root", "observe", "incident", "idle", "replay", "prompts", "build", "use"}
          \subseteq Places
    BY DEF Places
  <2>1. CASE StartRoot(w)
    BY <1>2, <2>0, <2>1, StartRootDoes DEF states
  <2>2. CASE EndChild(w)
    <3>1. /\ pc' = pc /\ pc[w] = "child" /\ UNCHANGED observe
          /\ \A v \in Workers \ {w} : local'[v] = local[v]
      BY <2>2, EndChildKeeps, EndChildDoes DEF states
    <3>. QED
      BY <1>1, <3>1
  <2>3. CASE EndRoot(w)
    BY <1>1, <2>3, EndRootDoes DEF EndRoot, Goto, ThreadsOK, LocalAt, Tracing, states
  <2>4. CASE PublishObserve(w) \/ PublishIncident(w) \/ PublishPrompts(w)
    <3>1. Steps(w, "idle") /\ (observe # Empty => observe' # Empty)
      BY <2>4, PublishDoes, Lookups
    <3>. QED
      BY <1>2, <2>0, <3>1
  <2>5. CASE ReadLogs(w)
    <3>1. /\ Steps(w, "observed") /\ UNCHANGED observe
          /\ local'[w].logs = Get(observe, "logs")
      BY <2>5, ReadDoes DEF states, ReadLogs, Steps
    <3>2. Get(observe, "logs") # Empty => observe # Empty
      BY Lookups
    <3>. QED
      BY <3>1, <3>2 DEF LogsHeld, Steps
  <2>6. CASE LoadRegistry(w) \/ ReplayRegistry(w)
    <3>1. UNCHANGED observe /\ (Steps(w, "replay") \/ Steps(w, "prompts"))
      BY <2>6, ReadDoes DEF states, LoadRegistry, ReplayRegistry
    <3>. QED
      BY <1>2, <2>0, <3>1
  <2>7. CASE \/ ReadObserved(w) \/ RegistryFails(w) \/ SetInjected(w) \/ ReadAlert(w)
             \/ ReadReadiness(w)
    BY <1>2, <2>0, <2>7, AnswerDoes
  <2>8. CASE CheckState(w) \/ BuildState(w)
    BY <1>2, <2>0, <2>8, LazyDoes
  <2>. QED
    BY <1>4, <2>1, <2>2, <2>3, <2>4, <2>5, <2>6, <2>7, <2>8 DEF Step
<1>5. CASE ValidationRun \/ CanaryRun \/ ReadinessRun \/ UNCHANGED vars
  BY <1>1, <1>5 DEF ValidationRun, CanaryRun, ReadinessRun, Instant, vars, states
<1>6. ASSUME NEW v \in Versions, EditRegistry(v) PROVE LogsHeld'
  BY <1>1, <1>6 DEF EditRegistry, states
<1>7. CASE Restart
  BY <1>1, <1>7 DEF Restart, LogsHeld
<1>. QED
  BY <1>3, <1>4, <1>5, <1>6, <1>7 DEF Next

LEMMA NextAnswers ==
    ThreadsOK /\ ReadinessInv /\ LogsHeld /\ AnswersInv /\ [Next]_vars => AnswersInv'
<1>. SUFFICES ASSUME ThreadsOK, ReadinessInv, LogsHeld, AnswersInv, [Next]_vars
              PROVE  AnswersInv'
  OBVIOUS
<1>1. ASSUME UNCHANGED answer PROVE AnswersInv'
  BY <1>1 DEF AnswersInv, AlertFollowsInjection
<1>2. ASSUME NEW w \in Workers, Run(w) PROVE AnswersInv'
  BY <1>1, <1>2, RunDoes
<1>3. ASSUME NEW w \in Workers, Step(w) PROVE AnswersInv'
  <2>1. CASE StartRoot(w) \/ EndChild(w) \/ EndRoot(w)
    BY <1>1, <2>1 DEF StartRoot, EndChild, EndRoot
  <2>2. CASE PublishObserve(w) \/ PublishIncident(w) \/ PublishPrompts(w)
    BY <1>1, <2>2, PublishDoes
  <2>3. CASE ReadLogs(w) \/ LoadRegistry(w) \/ ReplayRegistry(w)
    BY <1>1, <2>3, ReadDoes
  <2>4. CASE ReadObserved(w)
    <3>1. /\ pc[w] = "observed" /\ answer'.op = "logs" /\ answer'.logs = local[w].logs
          /\ answer'.observed = Get(Get(observe, "metrics"), "requests")
      BY <2>4 DEF ReadObserved
    <3>2. local[w].logs # Empty => answer'.observed = Len(Latencies)
      BY <3>1, Lookups DEF LogsHeld, ThreadsOK
    <3>. QED
      BY <3>1, <3>2 DEF AnswersInv, AlertFollowsInjection
  <2>5. CASE RegistryFails(w) \/ SetInjected(w)
    BY <1>1, <2>5 DEF RegistryFails, SetInjected
  <2>6. CASE ReadAlert(w)
    <3>1. readiness.injected = lastP95
      BY DEF ReadinessInv
    <3>2. Runbook.monitored_p95 = 2500
      BY DEF Runbook
    <3>3. /\ answer'.op = "alert" /\ answer'.measured_ms = lastP95
          /\ answer'.injected = lastP95
          /\ (answer'.fired <=> lastP95 # None /\ lastP95 > 2500)
      <4> DEFINE fired == lastP95 # None /\ lastP95 > 2500
      <4>1. answer' = [op |-> "alert", measured_ms |-> lastP95, injected |-> lastP95,
                       fired |-> fired]
        BY <2>6, <3>1, <3>2 DEF ReadAlert
      <4>2. fired \in BOOLEAN
        OBVIOUS
      <4>. HIDE DEF fired
      <4>3. /\ answer'.op = "alert" /\ answer'.measured_ms = lastP95
            /\ answer'.injected = lastP95 /\ answer'.fired = fired
        BY <4>1
      <4>4. answer'.fired <=> fired
        BY <4>2, <4>3
      <4>. QED
        BY <4>3, <4>4 DEF fired
    <3>. QED
      BY <3>3 DEF AnswersInv, AlertFollowsInjection
  <2>7. CASE ReadReadiness(w)
    <3>1. answer'.op = "readiness" /\ answer'.keys = DOMAIN readiness.report /\ pc[w] = "use"
      BY <2>7 DEF ReadReadiness
    <3>2. answer'.keys = ReadinessKeys
      BY <3>1, ReadinessIs DEF ReadinessInv
    <3>. QED
      BY <3>1, <3>2 DEF AnswersInv, AlertFollowsInjection
  <2>8. CASE CheckState(w) \/ BuildState(w)
    BY <1>1, <2>8, LazyDoes
  <2>. QED
    BY <1>3, <2>1, <2>2, <2>3, <2>4, <2>5, <2>6, <2>7, <2>8 DEF Step
<1>4. CASE ValidationRun \/ CanaryRun \/ ReadinessRun \/ UNCHANGED vars
  BY <1>1, <1>4 DEF ValidationRun, CanaryRun, ReadinessRun, Instant, vars
<1>5. ASSUME NEW v \in Versions, EditRegistry(v) PROVE AnswersInv'
  BY <1>1, <1>5 DEF EditRegistry
<1>6. CASE Restart
  BY <1>6 DEF Restart, AnswersInv, AlertFollowsInjection, NoAnswer
<1>. QED
  BY <1>2, <1>3, <1>4, <1>5, <1>6 DEF Next

(***************************************************************************)
(* The safety theorems of the reports.                                     *)
(***************************************************************************)
SafeInv == ThreadsOK /\ ReportsInv /\ ReadinessInv /\ LogsHeld /\ AnswersInv

\* The invariant behind the theorems below.
THEOREM ReportsSafe == Spec => []SafeInv
<1>1. Init => SafeInv
  BY InitThreads, InitReports, InitReadiness, InitAnswers DEF SafeInv
<1>2. SafeInv /\ [Next]_vars => SafeInv'
  BY NextThreads, NextReports, NextReadiness, NextLogs, NextAnswers DEF SafeInv
<1>. QED
  BY <1>1, <1>2, PTL DEF Spec

LEMMA KeysOfReports ==
    /\ \A a, b : ObserveKeys \subseteq DOMAIN ObserveReport(a, b)
    /\ \A t : IncidentKeys \subseteq DOMAIN IncidentReport(t)
    /\ \A a, r : PromptsKeys \subseteq DOMAIN PromptsReport(a, r)
    /\ \A candidates : ValidationKeys \subseteq DOMAIN ValidationReport(candidates)
    /\ \A n, pct, h, d : CanaryKeys \subseteq DOMAIN CanaryReport(n, pct, h, d)
<1>1. \A a, b : ObserveKeys \subseteq DOMAIN ObserveReport(a, b)
  BY DEF ObserveReport, ObserveKeys
<1>2. \A t : IncidentKeys \subseteq DOMAIN IncidentReport(t)
  BY DEF IncidentReport, IncidentKeys
<1>3. \A a, r : PromptsKeys \subseteq DOMAIN PromptsReport(a, r)
  BY DEF PromptsReport, PromptsKeys
<1>4. \A candidates : ValidationKeys \subseteq DOMAIN ValidationReport(candidates)
  BY DEF ValidationReport, ValidationKeys
<1>5. \A n, pct, h, d : CanaryKeys \subseteq DOMAIN CanaryReport(n, pct, h, d)
  BY DEF CanaryReport, CanaryKeys
<1>. QED
  BY <1>1, <1>2, <1>3, <1>4, <1>5

\* Whatever other threads build and whenever the process restarts, every GET
\* endpoint of a module that has run finds its key.
THEOREM EndpointsAlwaysAnswer == Spec => []EndpointsAnswer
<1>1. SafeInv => EndpointsAnswer
  <2>. SUFFICES ASSUME SafeInv PROVE EndpointsAnswer
    OBVIOUS
  <2>1. Answers(observe, ObserveKeys)
    BY KeysOfReports DEF Answers, SafeInv, ThreadsOK
  <2>2. Answers(incident, IncidentKeys)
    BY KeysOfReports DEF Answers, SafeInv, ReportsInv
  <2>3. Answers(prompts, PromptsKeys)
    BY KeysOfReports DEF Answers, SafeInv, ReportsInv
  <2>4. Answers(validation, ValidationKeys)
    BY KeysOfReports DEF Answers, SafeInv, ReportsInv
  <2>5. Answers(canary, CanaryKeys)
    BY KeysOfReports DEF Answers, SafeInv, ReportsInv, Canaried
  <2>. QED
    BY <2>1, <2>2, <2>3, <2>4, <2>5 DEF EndpointsAnswer, SafeInv, AnswersInv
<1>. QED
  BY <1>1, ReportsSafe, PTL

\* The alert shows the last injection, for every set of latencies.
THEOREM AlertAlwaysFollows == Spec => []AlertFollowsInjection
<1>1. SafeInv => AlertFollowsInjection
  BY DEF SafeInv, AnswersInv
<1>. QED
  BY <1>1, ReportsSafe, PTL

\* The gates, for every table of candidates, window and share.
THEOREM GatesAlwaysHold == Spec => []GatesHoldTheLine
<1>1. SafeInv => GatesHoldTheLine
  <2>. SUFFICES ASSUME SafeInv PROVE GatesHoldTheLine
    OBVIOUS
  <2>1. ASSUME validation # Empty, NEW c \in DOMAIN settings.candidates
        PROVE  LET m == settings.candidates[c] IN
               c \in validation.reconcile.eligible_candidates <=>
                  /\ m.quality >= 90 /\ m.contract >= 990
                  /\ m.latency <= 800 /\ m.cost <= 35 /\ m.failure <= 10
    <3>1. validation = ValidationReport(settings.candidates)
      BY <2>1 DEF SafeInv, ReportsInv
    <3>2. c \in validation.reconcile.eligible_candidates
            <=> Gate(settings.candidates[c]).eligible
      BY <2>1, <3>1, OnlyEligible
    <3>. QED
      BY <3>2, BarsHold
  <2>2. ASSUME canary # Empty
        PROVE  LET n == settings.window
                   pct == settings.pct
                   c == canary.exposure.canary_receipts
                   pass == canary.exposure.receipt_check = "PASS"
               IN  /\ 100 * c >= pct * n /\ 100 * (c - 1) < pct * n
                   /\ c + canary.exposure.approved_receipts = n
                   /\ canary.rollback.affected_requests = c
                   /\ 100 * c <= pct * n => pass
                   /\ canary.criteria.eligible_to_promote =>
                        pass /\ canary.criteria.breaches = {}
                   /\ canary.reconcile.disposition = "CONFIRMED" <=> pass
    <3>1. Canaried /\ settings \in Settings
      BY <2>2 DEF SafeInv, ReportsInv
    <3>2. settings.window \in Nat /\ settings.pct \in Nat
      BY <3>1, ReportsConstants
    <3>. QED
      BY <3>1, <3>2, CanaryBounds DEF Canaried
  <2>. QED
    BY <2>1, <2>2 DEF GatesHoldTheLine
<1>. QED
  BY <1>1, ReportsSafe, PTL

\* Only the two reads of the registry take a thread to "replay" and "prompts".
LEMMA OnlyReads ==
    ASSUME ThreadsOK, [Next]_vars, NEW w \in Workers, NEW at \in {"replay", "prompts"},
           pc[w] # at, pc'[w] = at
    PROVE  IF at = "prompts" THEN ReplayRegistry(w) ELSE LoadRegistry(w)
<1>1. ASSUME NEW v \in Workers, NEW to, Steps(v, to), v # w \/ to # at PROVE FALSE
  BY <1>1 DEF Steps
<1>2. pc' # pc
  OBVIOUS
<1>3. ASSUME NEW v \in Workers, Run(v) PROVE FALSE
  <2>1. PICK to \in {"root", "logs", "registry", "state"}, l \in Local :
             Moves(v, to, l) /\ pc[v] = "idle"
    BY <1>3, RunDoes
  <2>2. pc'[v] = to /\ \A u \in Workers \ {v} : pc'[u] = pc[u]
    BY <2>1, MovesOnly
  <2>. QED
    BY <2>1, <2>2
<1>4. ASSUME NEW v \in Workers, Step(v)
      PROVE  IF at = "prompts" THEN ReplayRegistry(w) ELSE LoadRegistry(w)
  <2>1. CASE StartRoot(v)
    BY <1>1, <2>1, StartRootDoes
  <2>2. CASE EndChild(v)
    BY <1>2, <2>2 DEF EndChild
  <2>3. CASE EndRoot(v)
    <3> DEFINE to == IF Len(local[v].ids) < Len(Plan(local[v].op)) THEN "root"
                     ELSE local[v].op
    <3>1. Steps(v, to)
      BY <2>3, EndRootDoes
    <3>2. local[v].op \in Tracing
      BY <2>3 DEF EndRoot, ThreadsOK, LocalAt
    <3>3. to # at
      BY <3>2 DEF Tracing
    <3>. QED
      BY <1>1, <3>1, <3>3
  <2>4. CASE PublishObserve(v) \/ PublishIncident(v) \/ PublishPrompts(v)
    BY <1>1, <2>4, PublishDoes
  <2>5. CASE ReadLogs(v)
    <3>1. Steps(v, "observed")
      BY <2>5, ReadDoes DEF ReadLogs, Steps
    <3>. QED
      BY <1>1, <3>1
  <2>6. CASE LoadRegistry(v)
    <3>1. Steps(v, "replay")
      BY <2>6, ReadDoes DEF LoadRegistry, Steps
    <3>. QED
      BY <1>1, <2>6, <3>1
  <2>7. CASE ReplayRegistry(v)
    <3>1. Steps(v, "prompts")
      BY <2>7, ReadDoes DEF ReplayRegistry, Steps
    <3>. QED
      BY <1>1, <2>7, <3>1
  <2>8. CASE \/ ReadObserved(v) \/ RegistryFails(v) \/ SetInjected(v) \/ ReadAlert(v)
             \/ ReadReadiness(v)
    BY <1>1, <2>8, AnswerDoes
  <2>9. CASE CheckState(v) \/ BuildState(v)
    BY <1>1, <2>9, LazyDoes
  <2>. QED
    BY <1>4, <2>1, <2>2, <2>3, <2>4, <2>5, <2>6, <2>7, <2>8, <2>9 DEF Step
<1>5. CASE ValidationRun \/ CanaryRun \/ ReadinessRun \/ UNCHANGED vars
  BY <1>2, <1>5 DEF ValidationRun, CanaryRun, ReadinessRun, Instant, vars
<1>6. ASSUME NEW v \in Versions, EditRegistry(v) PROVE FALSE
  BY <1>2, <1>6 DEF EditRegistry
<1>7. CASE Restart
  BY <1>7 DEF Restart
<1>. QED
  BY <1>3, <1>4, <1>5, <1>6, <1>7 DEF Next

\* A report is published by the thread that computed it.
LEMMA OnlyPublish ==
    ASSUME ThreadsOK, [Next]_vars, prompts' # prompts, prompts' # Empty
    PROVE  \E w \in Workers : /\ pc[w] = "prompts"
                              /\ prompts' = PromptsReport(local[w].approved, local[w].replayed)
<1>1. ASSUME NEW v \in Workers, Run(v) PROVE FALSE
  BY <1>1, RunDoes DEF states
<1>2. ASSUME NEW v \in Workers, Step(v)
      PROVE  /\ pc[v] = "prompts"
             /\ prompts' = PromptsReport(local[v].approved, local[v].replayed)
  <2>1. CASE StartRoot(v) \/ EndChild(v) \/ EndRoot(v)
    BY <2>1 DEF StartRoot, EndChild, EndRoot, states
  <2>2. CASE PublishObserve(v) \/ PublishIncident(v) \/ PublishPrompts(v)
    BY <2>2, PublishDoes
  <2>3. CASE ReadLogs(v) \/ LoadRegistry(v) \/ ReplayRegistry(v)
    BY <2>3, ReadDoes DEF states
  <2>4. CASE \/ ReadObserved(v) \/ RegistryFails(v) \/ SetInjected(v) \/ ReadAlert(v)
             \/ ReadReadiness(v)
    BY <2>4, AnswerDoes
  <2>5. CASE CheckState(v) \/ BuildState(v)
    BY <2>5, LazyDoes
  <2>. QED
    BY <1>2, <2>1, <2>2, <2>3, <2>4, <2>5 DEF Step
<1>3. CASE ValidationRun \/ CanaryRun \/ ReadinessRun \/ UNCHANGED vars
  BY <1>3 DEF ValidationRun, CanaryRun, ReadinessRun, Instant, vars, states
<1>4. ASSUME NEW v \in Versions, EditRegistry(v) PROVE FALSE
  BY <1>4 DEF EditRegistry, states
<1>5. CASE Restart
  BY <1>5 DEF Restart
<1>. QED
  BY <1>1, <1>2, <1>3, <1>4, <1>5 DEF Next

LEMMA OneReceipt ==
    ASSUME NEW approved, NEW replayed
    PROVE  LET report == PromptsReport(approved, replayed) IN
           /\ report.reconcile = "CONFIRMED" <=> replayed = approved
           /\ Range(report.receipts) = {approved}
           /\ report.post_rollback_receipt = approved
<1> DEFINE report == PromptsReport(approved, replayed)
<1>1. /\ report.reconcile = IF replayed = approved THEN "CONFIRMED" ELSE "BLOCKED"
      /\ report.receipts = [i \in 1..6 |-> approved]
      /\ report.post_rollback_receipt = approved
  BY DEF PromptsReport
<1>. HIDE DEF report
<1>2. Range(report.receipts) = {approved}
  <2>1. 1 \in 1..6
    OBVIOUS
  <2>. QED
    BY <1>1, <2>1 DEF Range
<1>. QED
  BY <1>1, <1>2 DEF report

\* A confirmed lifecycle names the release that was approved at both reads, for
\* every set of versions and however often the registry is edited.
THEOREM ConfirmedReleaseIsOne == Spec => ConfirmedNamesOneRelease
<1> DEFINE Reads(w) ==
               LET run == local[w]
                   next == local'[w]
               IN  /\ pc[w] = "registry" /\ pc'[w] = "replay" =>
                        next.approved = registry.approved
                   /\ pc[w] = "replay" /\ pc'[w] = "prompts" =>
                        /\ next.approved = run.approved
                        /\ PromptsReport(next.approved, next.replayed).reconcile = "CONFIRMED"
                             <=> registry.approved = run.approved
           Published(w) ==
               /\ pc[w] = "prompts"
               /\ prompts' = PromptsReport(local[w].approved, local[w].replayed)
               /\ Range(prompts'.receipts) = {local[w].approved}
               /\ prompts'.post_rollback_receipt = local[w].approved
<1>1. ThreadsOK /\ [Next]_vars =>
        /\ \A w \in Workers : Reads(w)
        /\ prompts' # prompts /\ prompts' # Empty => \E w \in Workers : Published(w)
  <2>1. ASSUME ThreadsOK, [Next]_vars, NEW w \in Workers PROVE Reads(w)
    <3>1. ASSUME pc[w] = "registry", pc'[w] = "replay"
          PROVE  local'[w].approved = registry.approved
      BY <2>1, <3>1, OnlyReads, ReadDoes
    <3>2. ASSUME pc[w] = "replay", pc'[w] = "prompts"
          PROVE  local'[w].approved = local[w].approved /\ local'[w].replayed = registry.approved
      BY <2>1, <3>2, OnlyReads, ReadDoes
    <3>. QED
      BY <3>1, <3>2, OneReceipt
  <2>2. ASSUME ThreadsOK, [Next]_vars, prompts' # prompts, prompts' # Empty
        PROVE  \E w \in Workers : Published(w)
    BY <2>2, OnlyPublish, OneReceipt
  <2>. QED
    BY <2>1, <2>2
<1>2. SafeInv => ThreadsOK
  BY DEF SafeInv
<1>. QED
  BY <1>1, <1>2, ReportsSafe, PTL DEF Spec, ConfirmedNamesOneRelease

(***************************************************************************)
(* The layout of a trace: where each child span starts.                    *)
(***************************************************************************)
IsOffset(stages, f) ==
    f = [i \in 0..Len(stages) |-> IF i = 0 THEN 0 ELSE f[i - 1] + stages[i].cost]

Offset(stages) ==
    LET upTo[i \in 0..Len(stages)] ==
            IF i = 0 THEN 0 ELSE upTo[i - 1] + stages[i].cost
    IN  upTo

LEMMA OffsetChosen ==
    ASSUME NEW stages, NEW f, IsOffset(stages, f)
    PROVE  /\ IsOffset(stages, Offset(stages))
           /\ ChildTotal(stages) = Offset(stages)[Len(stages)]
<1>1. Offset(stages) = CHOOSE g : IsOffset(stages, g)
  BY DEF Offset, IsOffset
<1>2. ChildTotal(stages) = Offset(stages)[Len(stages)]
  BY DEF ChildTotal, Offset
<1>. QED
  BY <1>1, <1>2

Traced == {FailoverStages, SlowStages, IncidentStages}

\* The offsets of the three lists, in full
LEMMA Costs ==
    /\ LET s == FailoverStages IN
         /\ s[1].cost = 2 /\ s[2].cost = 6 /\ s[3].cost = 3 /\ s[4].cost = 1200
         /\ s[5].cost = 200 /\ s[6].cost = 400 /\ s[7].cost = 1
    /\ LET s == SlowStages IN
         /\ s[1].cost = 2 /\ s[2].cost = 6 /\ s[3].cost = 3 /\ s[4].cost = 2100
         /\ s[5].cost = 1
    /\ LET s == IncidentStages IN
         /\ s[1].cost = 2 /\ s[2].cost = 40 /\ s[3].cost = 3 /\ s[4].cost = 3100
         /\ s[5].cost = 200 /\ s[6].cost = 400 /\ s[7].cost = 5
BY DEF FailoverStages, FallbackStages, SlowStages, HealthyStages, IncidentStages, Stage

LEMMA FailoverOffsets == IsOffset(FailoverStages, Offset(FailoverStages)) /\ ChildTotal(FailoverStages) = 1812
<1> DEFINE s == FailoverStages
           off == Offset(s)
           sums == [i \in 0..7 |-> IF i = 0 THEN 0 ELSE <<2, 8, 11, 1211, 1411, 1811, 1812>>[i]]
<1>1. Len(s) = 7 /\ 0..7 = {0, 1, 2, 3, 4, 5, 6, 7} /\ 1..7 = {1, 2, 3, 4, 5, 6, 7}
  BY Lists
<1>2. /\ sums[0] = 0
      /\ sums[1] = 2 /\ sums[2] = 8 /\ sums[3] = 11 /\ sums[4] = 1211 /\ sums[5] = 1411 /\ sums[6] = 1811 /\ sums[7] = 1812
  BY <1>1
<1>. HIDE DEF s
<1>3. IsOffset(s, sums)
  <2>1. sums = [i \in 0..7 |-> sums[i]]
    OBVIOUS
  <2>. HIDE DEF sums
  <2>2. \A i \in 1..7 : sums[i] = sums[i - 1] + s[i].cost
    BY <1>1, <1>2, Costs DEF s
  <2>3. \A i \in 0..7 : sums[i] = IF i = 0 THEN 0 ELSE sums[i - 1] + s[i].cost
    <3>1. \A i \in 0..7 : i = 0 \/ i \in 1..7
      OBVIOUS
    <3>. QED
      BY <1>2, <2>2, <3>1
  <2>. QED
    BY <1>1, <2>1, <2>3 DEF IsOffset
<1>. HIDE DEF sums
<1>4. IsOffset(s, off) /\ ChildTotal(s) = off[7]
  BY <1>1, <1>3, OffsetChosen
<1>. HIDE DEF off
<1>5. off[0] = 0 /\ \A i \in 1..7 : off[i] = off[i - 1] + s[i].cost
  <2>1. \A i \in 0..7 : off[i] = IF i = 0 THEN 0 ELSE off[i - 1] + s[i].cost
    BY <1>1, <1>4 DEF IsOffset
  <2>. QED
    BY <2>1
<1>6. off[1] = 2 /\ off[2] = 8 /\ off[3] = 11 /\ off[4] = 1211
  BY <1>1, <1>5, Costs DEF s
<1>7. off[7] = 1812
  BY <1>1, <1>5, <1>6, Costs DEF s
<1>. QED
  BY <1>4, <1>7 DEF s, off

LEMMA SlowOffsets == IsOffset(SlowStages, Offset(SlowStages)) /\ ChildTotal(SlowStages) = 2112
<1> DEFINE s == SlowStages
           off == Offset(s)
           sums == [i \in 0..5 |-> IF i = 0 THEN 0 ELSE <<2, 8, 11, 2111, 2112>>[i]]
<1>1. Len(s) = 5 /\ 0..5 = {0, 1, 2, 3, 4, 5} /\ 1..5 = {1, 2, 3, 4, 5}
  BY Lists
<1>2. /\ sums[0] = 0
      /\ sums[1] = 2 /\ sums[2] = 8 /\ sums[3] = 11 /\ sums[4] = 2111 /\ sums[5] = 2112
  BY <1>1
<1>. HIDE DEF s
<1>3. IsOffset(s, sums)
  <2>1. sums = [i \in 0..5 |-> sums[i]]
    OBVIOUS
  <2>. HIDE DEF sums
  <2>2. \A i \in 1..5 : sums[i] = sums[i - 1] + s[i].cost
    BY <1>1, <1>2, Costs DEF s
  <2>3. \A i \in 0..5 : sums[i] = IF i = 0 THEN 0 ELSE sums[i - 1] + s[i].cost
    <3>1. \A i \in 0..5 : i = 0 \/ i \in 1..5
      OBVIOUS
    <3>. QED
      BY <1>2, <2>2, <3>1
  <2>. QED
    BY <1>1, <2>1, <2>3 DEF IsOffset
<1>. HIDE DEF sums
<1>4. IsOffset(s, off) /\ ChildTotal(s) = off[5]
  BY <1>1, <1>3, OffsetChosen
<1>. HIDE DEF off
<1>5. off[0] = 0 /\ \A i \in 1..5 : off[i] = off[i - 1] + s[i].cost
  <2>1. \A i \in 0..5 : off[i] = IF i = 0 THEN 0 ELSE off[i - 1] + s[i].cost
    BY <1>1, <1>4 DEF IsOffset
  <2>. QED
    BY <2>1
<1>6. off[1] = 2 /\ off[2] = 8 /\ off[3] = 11 /\ off[4] = 2111
  BY <1>1, <1>5, Costs DEF s
<1>7. off[5] = 2112
  BY <1>1, <1>5, <1>6, Costs DEF s
<1>. QED
  BY <1>4, <1>7 DEF s, off

LEMMA IncidentOffsets == IsOffset(IncidentStages, Offset(IncidentStages)) /\ ChildTotal(IncidentStages) = 3750
<1> DEFINE s == IncidentStages
           off == Offset(s)
           sums == [i \in 0..7 |-> IF i = 0 THEN 0 ELSE <<2, 42, 45, 3145, 3345, 3745, 3750>>[i]]
<1>1. Len(s) = 7 /\ 0..7 = {0, 1, 2, 3, 4, 5, 6, 7} /\ 1..7 = {1, 2, 3, 4, 5, 6, 7}
  BY Lists
<1>2. /\ sums[0] = 0
      /\ sums[1] = 2 /\ sums[2] = 42 /\ sums[3] = 45 /\ sums[4] = 3145 /\ sums[5] = 3345 /\ sums[6] = 3745 /\ sums[7] = 3750
  BY <1>1
<1>. HIDE DEF s
<1>3. IsOffset(s, sums)
  <2>1. sums = [i \in 0..7 |-> sums[i]]
    OBVIOUS
  <2>. HIDE DEF sums
  <2>2. \A i \in 1..7 : sums[i] = sums[i - 1] + s[i].cost
    BY <1>1, <1>2, Costs DEF s
  <2>3. \A i \in 0..7 : sums[i] = IF i = 0 THEN 0 ELSE sums[i - 1] + s[i].cost
    <3>1. \A i \in 0..7 : i = 0 \/ i \in 1..7
      OBVIOUS
    <3>. QED
      BY <1>2, <2>2, <3>1
  <2>. QED
    BY <1>1, <2>1, <2>3 DEF IsOffset
<1>. HIDE DEF sums
<1>4. IsOffset(s, off) /\ ChildTotal(s) = off[7]
  BY <1>1, <1>3, OffsetChosen
<1>. HIDE DEF off
<1>5. off[0] = 0 /\ \A i \in 1..7 : off[i] = off[i - 1] + s[i].cost
  <2>1. \A i \in 0..7 : off[i] = IF i = 0 THEN 0 ELSE off[i - 1] + s[i].cost
    BY <1>1, <1>4 DEF IsOffset
  <2>. QED
    BY <2>1
<1>6. off[1] = 2 /\ off[2] = 42 /\ off[3] = 45 /\ off[4] = 3145
  BY <1>1, <1>5, Costs DEF s
<1>7. off[7] = 3750
  BY <1>1, <1>5, <1>6, Costs DEF s
<1>. QED
  BY <1>4, <1>7 DEF s, off

\* Each span starts where the last one ends.
LEMMA Offsets ==
    ASSUME NEW s \in Traced
    PROVE  LET n == Len(s)
               off == Offset(s) IN
           /\ n \in 5..7 /\ off[0] = 0 /\ ChildTotal(s) = off[n]
           /\ \A i \in 1..n : off[i] = off[i - 1] + s[i].cost
           /\ \A i \in 1..n : s[i].cost \in Nat
<1>1. /\ IsOffset(s, Offset(s)) /\ Len(s) \in 5..7
      /\ \A i \in 1..Len(s) : s[i].cost \in Nat
  <2>1. 5 \in 5..7 /\ 7 \in 5..7
    OBVIOUS
  <2>2. Len(s) \in 5..7 /\ \A i \in 1..Len(s) : s[i].cost \in Nat
    <3>1. CASE s = FailoverStages
      BY <2>1, <3>1, Lists
    <3>2. CASE s = SlowStages
      BY <2>1, <3>2, Lists
    <3>3. CASE s = IncidentStages
      BY <2>1, <3>3, Lists
    <3>. QED
      BY <3>1, <3>2, <3>3 DEF Traced
  <2>3. IsOffset(s, Offset(s))
    BY FailoverOffsets, SlowOffsets, IncidentOffsets DEF Traced
  <2>. QED
    BY <2>2, <2>3
<1>2. ChildTotal(s) = Offset(s)[Len(s)]
  BY <1>1, OffsetChosen
<1> DEFINE n == Len(s)
           off == Offset(s)
<1>3. \A i \in 0..n : off[i] = IF i = 0 THEN 0 ELSE off[i - 1] + s[i].cost
  BY <1>1 DEF IsOffset
<1>. HIDE DEF n, off
<1>4. n \in Nat
  BY <1>1 DEF n
<1>5. off[0] = 0 /\ \A i \in 1..n : off[i] = off[i - 1] + s[i].cost
  BY <1>3, <1>4
<1>. QED
  BY <1>1, <1>2, <1>5 DEF n, off

(***************************************************************************)
(* The span store: a trace under construction holds the first spans of its *)
(* list and belongs to one thread, a finished one is whole and is nobody's.*)
(***************************************************************************)
SpansTo(stages, k) ==
    [j \in 1..k |-> Span(stages[j].span, Offset(stages)[j - 1], stages[j].cost)]

WholeTrace(stages) ==
    Append(SpansTo(stages, Len(stages)), Span("request", 0, ChildTotal(stages)))

Open(w) ==
    /\ TraceId(w) \in 1..(nextTrace - 1)
    /\ local[w].done \in 0..Len(Stages(w))
    /\ byTrace[TraceId(w)] = SpansTo(Stages(w), local[w].done)
    /\ local[w].cursor = Offset(Stages(w))[local[w].done]
    /\ \A v \in Workers \ {w} : pc[v] = "child" => TraceId(v) # TraceId(w)

Closed(t, stages) ==
    /\ t \in 1..(nextTrace - 1) /\ byTrace[t] = WholeTrace(stages)
    /\ \A w \in Workers : pc[w] = "child" => TraceId(w) # t

\* The traces that a thread has built so far
HeldBy(w) == pc[w] \in {"root", "child", "observe", "incident"} =>
    \A i \in 1..Len(local[w].ids) : i < Len(local[w].ids) \/ pc[w] # "child" =>
        Closed(local[w].ids[i], Plan(local[w].op)[i])

Store ==
    /\ nextTrace \in 1..(MaxTraces + 1)
    /\ DOMAIN byTrace = 1..MaxTraces /\ byTrace = [t \in 1..MaxTraces |-> byTrace[t]]
    /\ \A t \in nextTrace..MaxTraces : byTrace[t] = <<>>

ObserveTraced == observe = Empty \/ \E a, b :
    observe = ObserveReport(a, b) /\ Closed(a, FailoverStages) /\ Closed(b, SlowStages)

IncidentTraced == incident = Empty \/ \E t :
    incident = IncidentReport(t) /\ Closed(t, IncidentStages)

TracesInv ==
    /\ Store /\ ObserveTraced /\ IncidentTraced
    /\ \A w \in Workers : HeldBy(w) /\ (pc[w] = "child" => Open(w))

\* What is closed stays closed.
Kept == \A t, stages : Closed(t, stages) => Closed(t, stages)'

LEMMA InitTraces == Init => TracesInv
<1>. SUFFICES ASSUME Init PROVE TracesInv
  OBVIOUS
<1>1. \A w \in Workers : pc[w] = "idle"
  BY DEF Init
<1>2. Store
  BY ReportsConstants DEF Init, Store
<1>. QED
  BY <1>1, <1>2 DEF Init, TracesInv, ObserveTraced, IncidentTraced, HeldBy

\* The step of one thread
LEMMA OneThread ==
    ASSUME TracesInv, NEW w \in Workers,
           \A v \in Workers \ {w} : pc'[v] = pc[v] /\ local'[v] = local[v],
           Kept, Store', HeldBy(w)', pc'[w] = "child" => Open(w)',
           \A v \in Workers \ {w} : pc[v] = "child" => Open(v)',
           observe' = observe \/ ObserveTraced', incident' = incident \/ IncidentTraced'
    PROVE  TracesInv'
<1>1. ASSUME NEW v \in Workers \ {w} PROVE HeldBy(v)'
  <2>1. HeldBy(v) /\ pc'[v] = pc[v] /\ local'[v] = local[v]
    BY DEF TracesInv
  <2>. QED
    BY <2>1 DEF HeldBy, Kept
<1>2. ObserveTraced'
  BY DEF TracesInv, ObserveTraced, Kept
<1>3. IncidentTraced'
  BY DEF TracesInv, IncidentTraced, Kept
<1>. QED
  BY <1>1, <1>2, <1>3 DEF TracesInv

\* A step that leaves the store alone and starts no trace
LEMMA QuietStep ==
    ASSUME TracesInv, UNCHANGED <<byTrace, nextTrace>>,
           \A v \in Workers : pc'[v] = "child" => pc[v] = "child" /\ local'[v] = local[v]
    PROVE  /\ Kept /\ Store'
           /\ \A v \in Workers : pc'[v] = "child" => Open(v)'
<1>1. Kept
  BY DEF Kept, Closed, TraceId
<1>2. Store'
  BY DEF TracesInv, Store
<1>3. ASSUME NEW v \in Workers, pc'[v] = "child" PROVE Open(v)'
  <2>1. Open(v) /\ local'[v] = local[v]
    BY <1>3 DEF TracesInv
  <2>. QED
    BY <2>1 DEF Open, TraceId, Stages
<1>. QED
  BY <1>1, <1>2, <1>3

LEMMA QuietThread ==
    ASSUME TracesInv, UNCHANGED <<byTrace, nextTrace>>, NEW w \in Workers,
           \A v \in Workers \ {w} : pc'[v] = pc[v] /\ local'[v] = local[v],
           pc'[w] \notin {"child", "observe", "incident"},
           pc'[w] = "root" => local'[w].ids = <<>>,
           observe' = observe \/ \E a, b : /\ observe' = ObserveReport(a, b)
                                           /\ Closed(a, FailoverStages)
                                           /\ Closed(b, SlowStages),
           incident' = incident \/ \E t : /\ incident' = IncidentReport(t)
                                          /\ Closed(t, IncidentStages)
    PROVE  TracesInv'
<1>1. \A v \in Workers : pc'[v] = "child" => pc[v] = "child" /\ local'[v] = local[v]
  OBVIOUS
<1>2. Kept /\ Store' /\ \A v \in Workers : pc'[v] = "child" => Open(v)'
  BY <1>1, QuietStep
<1>3. HeldBy(w)'
  <2>1. pc'[w] = "root" => Len(local'[w].ids) = 0
    OBVIOUS
  <2>. QED
    BY <2>1 DEF HeldBy
<1>4. observe' = observe \/ ObserveTraced'
  BY <1>2 DEF ObserveTraced, Kept
<1>5. incident' = incident \/ IncidentTraced'
  BY <1>2 DEF IncidentTraced, Kept
<1>6. \A v \in Workers \ {w} : pc[v] = "child" => Open(v)'
  BY <1>2
<1>. QED
  BY <1>2, <1>3, <1>4, <1>5, <1>6, OneThread

LEMMA StagesTraced ==
    ASSUME ThreadsOK, NEW w \in Workers, pc[w] = "child"
    PROVE  /\ Stages(w) \in Traced /\ local[w].op \in Tracing
           /\ local[w].ids \in Seq(Nat) /\ Len(local[w].ids) \in 1..Len(Plan(local[w].op))
<1>1. /\ local[w].op \in Tracing /\ Len(local[w].ids) \in 1..Len(Plan(local[w].op))
      /\ local[w] \in Local
  BY DEF ThreadsOK, LocalAt
<1>2. 1..2 = {1, 2} /\ 1..1 = {1}
  OBVIOUS
<1>3. Plan(local[w].op)[Len(local[w].ids)] \in {FailoverStages, SlowStages, IncidentStages}
  BY <1>1, <1>2, Plans DEF Tracing
<1>. QED
  BY <1>1, <1>3 DEF Stages, Traced, Local

\* The span of stage k + 1 goes to the end of the first k.
LEMMA Extended ==
    ASSUME NEW s \in Traced, NEW k \in Nat, k < Len(s)
    PROVE  /\ Append(SpansTo(s, k), Span(s[k + 1].span, Offset(s)[k], s[k + 1].cost))
                = SpansTo(s, k + 1)
           /\ Offset(s)[k] + s[k + 1].cost = Offset(s)[k + 1]
<1>1. Offset(s)[k] + s[k + 1].cost = Offset(s)[k + 1]
  <2>1. Len(s) \in Nat /\ \A i \in 1..Len(s) : Offset(s)[i] = Offset(s)[i - 1] + s[i].cost
    BY Offsets
  <2>2. k + 1 \in 1..Len(s) /\ (k + 1) - 1 = k
    BY <2>1
  <2>. QED
    BY <2>1, <2>2
<1> DEFINE F(j) == Span(s[j].span, Offset(s)[j - 1], s[j].cost)
           last == Span(s[k + 1].span, Offset(s)[k], s[k + 1].cost)
<1>2. last = F(k + 1)
  <2>1. (k + 1) - 1 = k
    OBVIOUS
  <2>. QED
    BY <2>1
<1>. HIDE DEF F, last
<1>3. Append([j \in 1..k |-> F(j)], F(k + 1)) = [j \in 1..(k + 1) |-> F(j)]
  <2> DEFINE q == [j \in 1..k |-> F(j)]
             r == [j \in 1..(k + 1) |-> F(j)]
             S == {F(j) : j \in 1..(k + 1)}
  <2>1. q \in Seq(S) /\ r \in Seq(S) /\ F(k + 1) \in S
    OBVIOUS
  <2>2. Len(q) = k /\ Len(r) = k + 1
    OBVIOUS
  <2>3. Append(q, F(k + 1)) \in Seq(S) /\ Len(Append(q, F(k + 1))) = k + 1
    BY <2>1, <2>2
  <2>4. \A j \in 1..(k + 1) : Append(q, F(k + 1))[j] = r[j]
    BY <2>1, <2>2
  <2>. HIDE DEF q, r
  <2>. QED
    BY <2>1, <2>2, <2>3, <2>4
<1>. QED
  BY <1>1, <1>2, <1>3 DEF SpansTo, F, last

\* Nothing of a store of closed traces is under construction.
LEMMA ExportKeeps ==
    ASSUME TracesInv, NEW w \in Workers, pc[w] = "child", NEW span, Export(w, span),
           UNCHANGED nextTrace,
           \A v \in Workers : pc'[v] = "child" =>
                pc[v] = "child" /\ TraceId(v)' = TraceId(v) /\ Stages(v)' = Stages(v),
           \A v \in Workers \ {w} : local'[v] = local[v]
    PROVE  /\ Kept /\ Store'
           /\ byTrace'[TraceId(w)] = Append(byTrace[TraceId(w)], span)
           /\ \A v \in Workers \ {w} : pc'[v] = "child" => Open(v)'
<1>1. /\ TraceId(w) \in 1..(nextTrace - 1) /\ nextTrace \in 1..(MaxTraces + 1)
      /\ DOMAIN byTrace = 1..MaxTraces
  BY DEF TracesInv, Open, Store
<1>2. TraceId(w) \in 1..MaxTraces
  BY <1>1, ReportsConstants
<1>3. /\ byTrace' = [byTrace EXCEPT ![TraceId(w)] = Append(byTrace[TraceId(w)], span)]
      /\ DOMAIN byTrace' = 1..MaxTraces
      /\ byTrace'[TraceId(w)] = Append(byTrace[TraceId(w)], span)
      /\ \A t \in 1..MaxTraces : t # TraceId(w) => byTrace'[t] = byTrace[t]
  BY <1>1, <1>2 DEF Export
<1>4. Store'
  <2>1. byTrace' = [t \in 1..MaxTraces |-> byTrace'[t]]
    BY <1>1, <1>3
  <2>2. \A t \in nextTrace..MaxTraces : t # TraceId(w) /\ t \in 1..MaxTraces
    BY <1>1, ReportsConstants
  <2>. QED
    BY <1>3, <2>1, <2>2 DEF TracesInv, Store
<1>5. Kept
  <2>. SUFFICES ASSUME NEW t, NEW stages, Closed(t, stages) PROVE Closed(t, stages)'
    BY DEF Kept
  <2>1. t # TraceId(w) /\ t \in 1..MaxTraces
    BY <1>1, ReportsConstants DEF Closed
  <2>2. byTrace'[t] = WholeTrace(stages) /\ t \in 1..(nextTrace' - 1)
    BY <1>3, <2>1 DEF Closed
  <2>3. \A v \in Workers : pc'[v] = "child" => TraceId(v)' # t
    BY DEF Closed
  <2>. QED
    BY <2>2, <2>3 DEF Closed
<1>6. ASSUME NEW v \in Workers \ {w}, pc'[v] = "child" PROVE Open(v)'
  <2>1. Open(v) /\ Open(w) /\ pc[v] = "child" /\ local'[v] = local[v]
        /\ TraceId(v)' = TraceId(v) /\ Stages(v)' = Stages(v)
    BY <1>6 DEF TracesInv
  <2>2. TraceId(v) # TraceId(w) /\ TraceId(v) \in 1..MaxTraces
    BY <1>1, <2>1, ReportsConstants DEF Open
  <2>3. byTrace'[TraceId(v)] = byTrace[TraceId(v)]
    BY <1>3, <2>2
  <2>4. \A u \in Workers \ {v} : pc'[u] = "child" => TraceId(u)' # TraceId(v)'
    BY <2>1 DEF Open
  <2>. QED
    BY <2>1, <2>3, <2>4 DEF Open
<1>. QED
  BY <1>3, <1>4, <1>5, <1>6

LEMMA StartRootTraces ==
    ASSUME ThreadsOK, TracesInv, NEW w \in Workers, StartRoot(w)
    PROVE  TracesInv'
<1>1. /\ Steps(w, "child") /\ pc[w] = "root" /\ nextTrace <= MaxTraces
      /\ nextTrace' = nextTrace + 1 /\ local'[w].op = local[w].op
      /\ local'[w].ids = Append(local[w].ids, nextTrace)
      /\ local'[w].done = 0 /\ local'[w].cursor = 0
      /\ UNCHANGED <<byTrace, states>>
  BY StartRootDoes
<1> DEFINE n == Len(local[w].ids)
<1>2. /\ local[w].op \in Tracing /\ n < Len(Plan(local[w].op))
      /\ local[w].ids \in Seq(Nat) /\ nextTrace \in Nat
  BY <1>1 DEF ThreadsOK, LocalAt, Local
<1>3. /\ Len(local'[w].ids) = n + 1 /\ n \in Nat /\ local'[w].ids[n + 1] = nextTrace
      /\ \A i \in 1..n : local'[w].ids[i] = local[w].ids[i]
  BY <1>1, <1>2
<1>. HIDE DEF n
<1>4. TraceId(w)' = nextTrace /\ Stages(w)' = Plan(local[w].op)[n + 1]
  BY <1>1, <1>3 DEF TraceId, Stages
<1>5. \A v \in Workers \ {w} : pc'[v] = pc[v] /\ local'[v] = local[v]
        /\ TraceId(v)' = TraceId(v) /\ Stages(v)' = Stages(v)
  BY <1>1 DEF Steps, TraceId, Stages
<1>6. \A v \in Workers \ {w} : pc[v] = "child" => TraceId(v) \in 1..(nextTrace - 1)
  BY DEF TracesInv, Open
<1>7. Store'
  <2>1. nextTrace' \in 1..(MaxTraces + 1)
    BY <1>1, <1>2, ReportsConstants
  <2>2. \A t \in nextTrace'..MaxTraces : t \in nextTrace..MaxTraces
    BY <1>1, <1>2, ReportsConstants
  <2>. QED
    BY <1>1, <2>1, <2>2 DEF TracesInv, Store
<1>8. Kept
  <2>. SUFFICES ASSUME NEW t, NEW stages, Closed(t, stages) PROVE Closed(t, stages)'
    BY DEF Kept
  <2>1. t \in 1..(nextTrace - 1)
    BY DEF Closed
  <2>2. t \in 1..(nextTrace' - 1) /\ t # nextTrace
    BY <1>1, <1>2, <2>1
  <2>3. \A v \in Workers : pc'[v] = "child" => TraceId(v)' # t
    BY <1>4, <1>5, <2>2 DEF Closed
  <2>. QED
    BY <1>1, <2>2, <2>3 DEF Closed
<1>9. HeldBy(w)'
  <2>1. ASSUME NEW i \in 1..(n + 1), i < n + 1
        PROVE  Closed(local[w].ids[i], Plan(local[w].op)[i])'
    <3>1. i \in 1..n
      BY <1>3, <2>1
    <3>2. Closed(local[w].ids[i], Plan(local[w].op)[i])
      BY <1>1, <3>1 DEF TracesInv, HeldBy, n
    <3>3. local'[w].ids[i] = local[w].ids[i] /\ local'[w].op = local[w].op
      BY <1>1, <1>3, <3>1
    <3>. QED
      BY <1>8, <3>2, <3>3 DEF Kept
  <2>2. pc'[w] = "child"
    BY <1>1 DEF Steps
  <2>. QED
    BY <1>3, <2>1, <2>2 DEF HeldBy
<1>10. Open(w)'
  <2>1. n + 1 \in 1..Len(Plan(local[w].op))
    <3>1. Len(Plan(local[w].op)) \in Nat
      BY <1>2, Plans DEF Tracing
    <3>. QED
      BY <1>2, <1>3, <3>1 DEF n
  <2>2. Plan(local[w].op)[n + 1] \in Traced
    <3>1. 1..2 = {1, 2} /\ 1..1 = {1}
      OBVIOUS
    <3>2. CASE local[w].op = "observe"
      BY <2>1, <3>1, <3>2, Plans DEF Traced
    <3>3. CASE local[w].op = "incident"
      BY <2>1, <3>1, <3>3, Plans DEF Traced
    <3>. QED
      BY <1>2, <3>2, <3>3 DEF Tracing
  <2>3. Len(Stages(w)') \in 5..7 /\ Offset(Stages(w)')[0] = 0
    BY <1>4, <2>2, Offsets
  <2> DEFINE len == Len(Stages(w)')
  <2>. HIDE DEF len
  <2>4. 0 \in 0..len
    BY <2>3 DEF len
  <2>5. byTrace[nextTrace] = <<>>
    <3>1. nextTrace \in nextTrace..MaxTraces
      BY <1>1, <1>2, ReportsConstants
    <3>. QED
      BY <3>1 DEF TracesInv, Store
  <2>6. SpansTo(Stages(w)', 0) = <<>>
    BY DEF SpansTo
  <2>7. \A v \in Workers \ {w} : pc'[v] = "child" => TraceId(v)' # nextTrace
    <3>1. nextTrace \notin 1..(nextTrace - 1)
      BY <1>2
    <3>. QED
      BY <1>5, <1>6, <3>1
  <2>8. nextTrace \in 1..(nextTrace' - 1)
    BY <1>1, <1>2 DEF TracesInv, Store
  <2>. QED
    BY <1>1, <1>4, <2>3, <2>4, <2>5, <2>6, <2>7, <2>8 DEF Open, len
<1>11. ASSUME NEW v \in Workers \ {w}, pc[v] = "child" PROVE Open(v)'
  <2>1. Open(v) /\ TraceId(v) \in 1..(nextTrace - 1)
    BY <1>6, <1>11 DEF TracesInv
  <2>2. TraceId(v) \in 1..(nextTrace' - 1) /\ TraceId(v) # nextTrace
    BY <1>1, <1>2, <2>1
  <2>3. \A u \in Workers \ {v} : pc'[u] = "child" => TraceId(u)' # TraceId(v)
    BY <1>4, <1>5, <2>1, <2>2 DEF Open
  <2>. QED
    BY <1>1, <1>5, <2>1, <2>2, <2>3 DEF Open
<1>. QED
  BY <1>1, <1>5, <1>7, <1>8, <1>9, <1>10, <1>11, OneThread DEF states

LEMMA EndChildTraces ==
    ASSUME ThreadsOK, TracesInv, NEW w \in Workers, EndChild(w)
    PROVE  TracesInv'
<1> DEFINE k == local[w].done
           s == Stages(w)
           stage == s[k + 1]
<1>1. /\ pc' = pc /\ pc[w] = "child" /\ k < Len(s) /\ k \in Nat
      /\ \A v \in Workers \ {w} : local'[v] = local[v]
      /\ local'[w].op = local[w].op /\ local'[w].ids = local[w].ids
      /\ local'[w].done = k + 1 /\ local'[w].cursor = local[w].cursor + stage.cost
      /\ Export(w, Span(stage.span, local[w].cursor, stage.cost))
      /\ UNCHANGED <<nextTrace, states>>
  BY EndChildKeeps, EndChildDoes
<1>2. \A v \in Workers : TraceId(v)' = TraceId(v) /\ Stages(v)' = Stages(v)
  BY <1>1 DEF TraceId, Stages
<1>3. Open(w) /\ s \in Traced
  BY <1>1, StagesTraced DEF TracesInv
<1>. HIDE DEF k, s, stage
<1>4. /\ Kept /\ Store'
      /\ byTrace'[TraceId(w)] = Append(byTrace[TraceId(w)],
                                       Span(stage.span, local[w].cursor, stage.cost))
      /\ \A v \in Workers \ {w} : pc'[v] = "child" => Open(v)'
  BY <1>1, <1>2, ExportKeeps
<1>5. local[w].cursor = Offset(s)[k] /\ byTrace[TraceId(w)] = SpansTo(s, k)
  BY <1>3 DEF Open, s, k
<1>6. byTrace'[TraceId(w)] = SpansTo(s, k + 1) /\ local'[w].cursor = Offset(s)[k + 1]
  BY <1>1, <1>3, <1>4, <1>5, Extended DEF stage
<1>7. Open(w)'
  <2>1. k + 1 \in 0..Len(s)
    <3>1. Len(s) \in Nat
      BY <1>3, Offsets
    <3>. QED
      BY <1>1, <3>1
  <2>2. Stages(w)' = s /\ TraceId(w)' = TraceId(w)
    BY <1>2 DEF s
  <2>3. \A v \in Workers \ {w} : pc'[v] = "child" => TraceId(v)' # TraceId(w)
    BY <1>1, <1>2, <1>3 DEF Open
  <2>4. TraceId(w) \in 1..(nextTrace' - 1)
    BY <1>1, <1>3 DEF Open
  <2>. QED
    BY <1>1, <1>6, <2>1, <2>2, <2>3, <2>4 DEF Open
<1>8. HeldBy(w)'
  <2>1. HeldBy(w) /\ pc'[w] = pc[w]
    BY <1>1 DEF TracesInv
  <2>. QED
    BY <1>1, <1>4, <2>1 DEF HeldBy, Kept
<1>9. \A v \in Workers \ {w} : pc'[v] = pc[v] /\ local'[v] = local[v]
  BY <1>1
<1>10. \A v \in Workers \ {w} : pc[v] = "child" => Open(v)'
  BY <1>4, <1>9
<1>. QED
  BY <1>1, <1>4, <1>7, <1>8, <1>9, <1>10, OneThread DEF states

LEMMA EndRootTraces ==
    ASSUME ThreadsOK, TracesInv, NEW w \in Workers, EndRoot(w)
    PROVE  TracesInv'
<1> DEFINE s == Stages(w)
           n == Len(local[w].ids)
           at == IF n < Len(Plan(local[w].op)) THEN "root" ELSE local[w].op
<1>1. /\ Steps(w, at) /\ pc[w] = "child" /\ local[w].done = Len(s)
      /\ UNCHANGED <<local, nextTrace, states>>
      /\ Export(w, Span("request", 0, ChildTotal(s)))
  BY EndRootDoes
<1>2. /\ s \in Traced /\ local[w].op \in Tracing
      /\ n \in 1..Len(Plan(local[w].op)) /\ local[w].ids \in Seq(Nat)
  BY <1>1, StagesTraced
<1>3. at # "child"
  BY <1>2 DEF Tracing
<1>4. \A v \in Workers : TraceId(v)' = TraceId(v) /\ Stages(v)' = Stages(v)
  BY <1>1 DEF TraceId, Stages
<1>5. Open(w) /\ HeldBy(w)
  BY <1>1 DEF TracesInv
<1>. HIDE DEF at, s, n
<1>6. \A v \in Workers \ {w} : pc'[v] = pc[v] /\ local'[v] = local[v]
  BY <1>1 DEF Steps
<1>7. pc'[w] = at
  BY <1>1 DEF Steps
<1>8. \A v \in Workers : pc'[v] = "child" =>
        pc[v] = "child" /\ TraceId(v)' = TraceId(v) /\ Stages(v)' = Stages(v)
  BY <1>3, <1>4, <1>6, <1>7
<1>9. /\ Kept /\ Store'
      /\ byTrace'[TraceId(w)] = Append(byTrace[TraceId(w)], Span("request", 0, ChildTotal(s)))
      /\ \A v \in Workers \ {w} : pc'[v] = "child" => Open(v)'
  BY <1>1, <1>6, <1>8, ExportKeeps
<1>10. Closed(TraceId(w), s)'
  <2>1. byTrace[TraceId(w)] = SpansTo(s, Len(s))
    BY <1>1, <1>5 DEF Open, s
  <2>2. byTrace'[TraceId(w)] = WholeTrace(s)
    BY <1>9, <2>1 DEF WholeTrace
  <2>3. \A v \in Workers : pc'[v] = "child" => TraceId(v)' # TraceId(w)
    BY <1>3, <1>5, <1>6, <1>7, <1>8 DEF Open
  <2>4. TraceId(w) \in 1..(nextTrace' - 1) /\ TraceId(w)' = TraceId(w)
    BY <1>1, <1>4, <1>5 DEF Open
  <2>5. s' = s
    BY <1>4 DEF s
  <2>. QED
    BY <2>2, <2>3, <2>4, <2>5 DEF Closed
<1>11. HeldBy(w)'
  <2>1. ASSUME NEW i \in 1..n PROVE Closed(local[w].ids[i], Plan(local[w].op)[i])'
    <3>1. CASE i < n
      <4>1. Closed(local[w].ids[i], Plan(local[w].op)[i])
        BY <1>1, <1>5, <3>1 DEF HeldBy, n
      <4>. QED
        BY <1>1, <1>9, <4>1 DEF Kept
    <3>2. CASE i = n
      <4>1. TraceId(w) = local[w].ids[i] /\ s = Plan(local[w].op)[i]
        BY <3>2 DEF TraceId, Stages, s, n
      <4>2. (TraceId(w) = local[w].ids[i] /\ s = Plan(local[w].op)[i])'
        BY <1>1, <1>4, <4>1 DEF s
      <4>. QED
        BY <1>10, <4>2
    <3>. QED
      BY <1>2, <3>1, <3>2
  <2>. QED
    BY <1>1, <2>1 DEF HeldBy, n
<1>12. \A v \in Workers \ {w} : pc[v] = "child" => Open(v)'
  BY <1>6, <1>9
<1>. QED
  BY <1>1, <1>3, <1>6, <1>7, <1>9, <1>11, <1>12, OneThread DEF states

LEMMA PublishTraces ==
    ASSUME ThreadsOK, TracesInv, NEW w \in Workers,
           PublishObserve(w) \/ PublishIncident(w) \/ PublishPrompts(w)
    PROVE  TracesInv'
<1>1. /\ Steps(w, "idle") /\ UNCHANGED <<byTrace, nextTrace>>
      /\ \/ /\ pc[w] = "observe" /\ UNCHANGED incident
            /\ observe' = ObserveReport(local[w].ids[1], local[w].ids[2])
         \/ /\ pc[w] = "incident" /\ UNCHANGED observe
            /\ incident' = IncidentReport(local[w].ids[1])
         \/ UNCHANGED <<observe, incident>>
  BY PublishDoes
<1>2. /\ \A v \in Workers \ {w} : pc'[v] = pc[v] /\ local'[v] = local[v]
      /\ pc'[w] = "idle"
  BY <1>1 DEF Steps
<1>3. HeldBy(w) /\ LocalAt(local[w], pc[w])
  BY DEF TracesInv, ThreadsOK
<1>4. ASSUME pc[w] = "observe"
      PROVE  Closed(local[w].ids[1], FailoverStages) /\ Closed(local[w].ids[2], SlowStages)
  <2>1. local[w].op = "observe" /\ Len(local[w].ids) = 2
    BY <1>3, <1>4, Plans DEF LocalAt, Tracing
  <2>2. 1 \in 1..2 /\ 2 \in 1..2
    OBVIOUS
  <2>. QED
    BY <1>3, <1>4, <2>1, <2>2, Plans DEF HeldBy
<1>5. ASSUME pc[w] = "incident" PROVE Closed(local[w].ids[1], IncidentStages)
  <2>1. local[w].op = "incident" /\ Len(local[w].ids) = 1
    BY <1>3, <1>5, Plans DEF LocalAt, Tracing
  <2>2. 1 \in 1..1
    OBVIOUS
  <2>. QED
    BY <1>3, <1>5, <2>1, <2>2, Plans DEF HeldBy
<1>6. observe' = observe \/ \E a, b : /\ observe' = ObserveReport(a, b)
                                      /\ Closed(a, FailoverStages) /\ Closed(b, SlowStages)
  BY <1>1, <1>4
<1>7. incident' = incident \/ \E t : /\ incident' = IncidentReport(t)
                                     /\ Closed(t, IncidentStages)
  BY <1>1, <1>5
<1>. QED
  BY <1>1, <1>2, <1>6, <1>7, QuietThread

LEMMA NextTraces == ThreadsOK /\ TracesInv /\ [Next]_vars => TracesInv'
<1>. SUFFICES ASSUME ThreadsOK, TracesInv, [Next]_vars PROVE TracesInv'
  OBVIOUS
<1>1. ASSUME UNCHANGED <<byTrace, nextTrace, observe, incident, pc, local>>
      PROVE  TracesInv'
  <2>1. Kept /\ Store' /\ \A v \in Workers : pc'[v] = "child" => Open(v)'
    BY <1>1, QuietStep
  <2>2. ObserveTraced' /\ IncidentTraced'
    BY <1>1, <2>1 DEF TracesInv, ObserveTraced, IncidentTraced, Kept
  <2>3. \A v \in Workers : HeldBy(v)'
    BY <1>1, <2>1 DEF TracesInv, HeldBy, Kept
  <2>. QED
    BY <2>1, <2>2, <2>3 DEF TracesInv
<1>2. ASSUME NEW w \in Workers, NEW at \in {"idle", "logs", "registry", "state", "observed",
                                            "replay", "prompts", "build", "use"},
             Steps(w, at), UNCHANGED <<byTrace, nextTrace, observe, incident>>
      PROVE  TracesInv'
  <2>1. /\ \A v \in Workers \ {w} : pc'[v] = pc[v] /\ local'[v] = local[v]
        /\ pc'[w] \notin {"root", "child", "observe", "incident"}
    BY <1>2 DEF Steps
  <2>. QED
    BY <1>2, <2>1, QuietThread
<1>3. ASSUME NEW w \in Workers, Run(w) PROVE TracesInv'
  <2>1. PICK at \in {"root", "logs", "registry", "state"}, l \in Local :
             Moves(w, at, l) /\ l.ids = <<>> /\ UNCHANGED <<states, traces>>
    BY <1>3, RunDoes
  <2>2. pc'[w] = at /\ local'[w] = l
        /\ \A v \in Workers \ {w} : pc'[v] = pc[v] /\ local'[v] = local[v]
    BY <2>1, MovesOnly
  <2>3. UNCHANGED <<byTrace, nextTrace, observe, incident>>
    BY <2>1 DEF states, traces
  <2>. QED
    BY <2>1, <2>2, <2>3, QuietThread
<1>4. ASSUME NEW w \in Workers, Step(w) PROVE TracesInv'
  <2>1. CASE StartRoot(w)
    BY <2>1, StartRootTraces
  <2>2. CASE EndChild(w)
    BY <2>2, EndChildTraces
  <2>3. CASE EndRoot(w)
    BY <2>3, EndRootTraces
  <2>4. CASE PublishObserve(w) \/ PublishIncident(w) \/ PublishPrompts(w)
    BY <2>4, PublishTraces
  <2>5. CASE ReadLogs(w) \/ LoadRegistry(w) \/ ReplayRegistry(w)
    <3>1. /\ Steps(w, "observed") \/ Steps(w, "replay") \/ Steps(w, "prompts")
          /\ UNCHANGED <<byTrace, nextTrace, observe, incident>>
      BY <2>5, ReadDoes DEF states, traces
    <3>. QED
      BY <1>2, <3>1
  <2>6. CASE \/ ReadObserved(w) \/ RegistryFails(w) \/ SetInjected(w) \/ ReadAlert(w)
             \/ ReadReadiness(w)
    <3>1. Steps(w, "idle") /\ UNCHANGED <<byTrace, nextTrace, observe, incident>>
      BY <2>6, AnswerDoes DEF traces
    <3>. QED
      BY <1>2, <3>1
  <2>7. CASE CheckState(w) \/ BuildState(w)
    <3>1. /\ Steps(w, "build") \/ Steps(w, "use")
          /\ UNCHANGED <<byTrace, nextTrace, observe, incident>>
      BY <2>7, LazyDoes DEF traces
    <3>. QED
      BY <1>2, <3>1
  <2>. QED
    BY <1>4, <2>1, <2>2, <2>3, <2>4, <2>5, <2>6, <2>7 DEF Step
<1>5. CASE ValidationRun \/ CanaryRun \/ ReadinessRun \/ UNCHANGED vars
  <2>1. UNCHANGED <<byTrace, nextTrace, observe, incident, pc, local>>
    BY <1>5 DEF ValidationRun, CanaryRun, ReadinessRun, Instant, vars, states, traces
  <2>. QED
    BY <1>1, <2>1
<1>6. ASSUME NEW v \in Versions, EditRegistry(v) PROVE TracesInv'
  BY <1>1, <1>6 DEF EditRegistry, states, traces
<1>7. CASE Restart
  <2>1. Store'
    BY <1>7, ReportsConstants DEF Restart, Store
  <2>2. \A w \in Workers : pc'[w] = "idle"
    BY <1>7 DEF Restart
  <2>3. observe' = Empty /\ incident' = Empty
    BY <1>7 DEF Restart
  <2>. QED
    BY <2>1, <2>2, <2>3 DEF TracesInv, ObserveTraced, IncidentTraced, HeldBy
<1>. QED
  BY <1>3, <1>4, <1>5, <1>6, <1>7 DEF Next

\* Whatever traces other threads build at the same time, a published report
\* names traces that are whole.
THEOREM TracesStayWhole == Spec => []TracesInv
<1>1. Init => TracesInv
  BY InitTraces
<1>2. ThreadsOK /\ TracesInv /\ [Next]_vars => TracesInv'
  BY NextTraces
<1>3. SafeInv => ThreadsOK
  BY DEF SafeInv
<1>. QED
  BY <1>1, <1>2, <1>3, ReportsSafe, PTL DEF Spec

LEMMA WholeTraceIs ==
    ASSUME NEW t, NEW s \in Traced, Closed(t, s)
    PROVE  TraceIs(t, ChildTotal(s))
<1> DEFINE n == Len(s)
           off == Offset(s)
           span(j) == Span(s[j].span, off[j - 1], s[j].cost)
           spans == byTrace[t]
           root == Span("request", 0, ChildTotal(s))
           EndOf(i) == spans[i].start_ms + spans[i].duration_ms
<1>1. /\ n \in 5..7 /\ off[0] = 0 /\ ChildTotal(s) = off[n]
      /\ \A i \in 1..n : off[i] = off[i - 1] + s[i].cost
  BY Offsets
<1>2. /\ Len(spans) = n + 1 /\ spans[n + 1] = root
      /\ \A j \in 1..n : spans[j] = span(j)
  <2> DEFINE q == [j \in 1..n |-> span(j)]
             S == {span(j) : j \in 1..n} \union {root}
  <2>1. spans = Append(q, root)
    BY DEF Closed, WholeTrace, SpansTo
  <2>2. n \in Nat
    BY <1>1
  <2>. HIDE DEF span, root, n, spans
  <2>3. q \in Seq(S) /\ Len(q) = n /\ root \in S
    BY <2>2
  <2>4. \A j \in 1..n : q[j] = span(j)
    OBVIOUS
  <2>. HIDE DEF q, S
  <2>. QED
    BY <2>1, <2>2, <2>3, <2>4
<1>3. \A j \in 1..n : span(j).start_ms = off[j - 1] /\ span(j).duration_ms = s[j].cost
  BY DEF Span
<1>. HIDE DEF n, off, span, spans, root
<1>4. \A j \in 1..n : spans[j].start_ms = off[j - 1] /\ EndOf(j) = off[j]
  BY <1>1, <1>2, <1>3
<1>. HIDE DEF EndOf
<1>5. n \in Nat /\ n > 1 /\ (n + 1) - 1 = n /\ (n + 1) - 2 = n - 1
  BY <1>1
<1>6. spans[1].start_ms = 0 /\ EndOf(n) = ChildTotal(s)
  BY <1>1, <1>4, <1>5
<1>7. \A i \in 1..(n - 1) : EndOf(i) = spans[i + 1].start_ms
  <2>1. ASSUME NEW i \in 1..(n - 1) PROVE EndOf(i) = spans[i + 1].start_ms
    <3>1. i \in 1..n /\ i + 1 \in 1..n /\ (i + 1) - 1 = i
      BY <1>5
    <3>. QED
      BY <1>4, <3>1
  <2>. QED
    BY <2>1
<1>. QED
  <2> DEFINE m == Len(spans)
  <2>1. m = n + 1 /\ m > 1 /\ m - 1 = n /\ m - 2 = n - 1
    BY <1>2, <1>5
  <2>2. /\ m > 1 /\ spans[m] = root
        /\ spans[1].start_ms = 0 /\ EndOf(m - 1) = ChildTotal(s)
        /\ \A i \in 1..(m - 2) : EndOf(i) = spans[i + 1].start_ms
    BY <1>2, <1>6, <1>7, <2>1
  <2>. QED
    BY <2>2 DEF TraceIs, spans, root, EndOf

(***************************************************************************)
(* The numbers of the two reports.                                         *)
(***************************************************************************)
LEMMA P95Is == Percentile(Latencies, 95) = 2112 /\ Len(Latencies) = 20
<1>1. Len(Latencies) = 20 /\ Latencies[19] = 2112
  BY DEF Latencies, SlowMs
<1>2. RoundHalfEven(95 * (20 - 1), 100) = 18
  BY DEF RoundHalfEven
<1>. QED
  BY <1>1, <1>2 DEF Percentile

\* The three logs of the report
LEMMA LogsAre ==
    /\ Range(Logs) = {Event("r6b1e", 712, "pass"), Event("r4f18", 1812, "not_sampled"),
                      Event("r2a7c", 2112, "fail")}
    /\ DOMAIN Scores = {"r6b1e", "r9f04", "r2a7c", "rc3d8", "r77b2"}
<1>1. DOMAIN Scores = {"r6b1e", "r9f04", "r2a7c", "rc3d8", "r77b2"}
  BY DEF Scores
<1>2. SampleVerdict("r6b1e") = "pass" /\ SampleVerdict("r2a7c") = "fail"
  <2>1. Scores["r6b1e"] = 92 /\ Scores["r2a7c"] = 55
    BY DEF Scores
  <2>. QED
    BY <1>1, <2>1 DEF SampleVerdict, QualityStatus, QualityBar
<1>3. SampleVerdict("r4f18") = "not_sampled"
  BY <1>1 DEF SampleVerdict
<1>4. /\ Len(EmittedLogs) = 3
      /\ EmittedLogs[1] = Event("r6b1e", 712, "pass")
      /\ EmittedLogs[2] = Event("r4f18", 1812, "pass")
      /\ EmittedLogs[3] = Event("r2a7c", 2112, "fail")
  BY DEF EmittedLogs, HealthyMs, FailoverMs, SlowMs
<1>5. \A id, ms, q, r : /\ [Event(id, ms, q) EXCEPT !.quality_status = r] = Event(id, ms, r)
                        /\ Event(id, ms, q).request_id = id
  BY DEF Event
<1>6. 1..3 = {1, 2, 3}
  OBVIOUS
<1>7. /\ DOMAIN Logs = 1..3
      /\ \A i \in 1..3 : Logs[i] = [EmittedLogs[i] EXCEPT !.quality_status =
                                      SampleVerdict(EmittedLogs[i].request_id)]
  BY <1>4 DEF Logs
<1>. HIDE DEF Event
<1>8. /\ Logs[1] = Event("r6b1e", 712, "pass")
      /\ Logs[2] = Event("r4f18", 1812, "not_sampled")
      /\ Logs[3] = Event("r2a7c", 2112, "fail")
  BY <1>2, <1>3, <1>4, <1>5, <1>6, <1>7
<1>9. Range(Logs) = {Logs[1], Logs[2], Logs[3]}
  BY <1>6, <1>7 DEF Range
<1>. QED
  BY <1>1, <1>8, <1>9

LEMMA CostAt ==
    ASSUME NEW stages, NEW name, NEW k \in 1..Len(stages), stages[k].span = name,
           \A i \in 1..Len(stages) : stages[i].span = name => i = k
    PROVE  CostOf(stages, name) = stages[k].cost
<1> DEFINE at == CHOOSE i \in 1..Len(stages) : stages[i].span = name
<1>1. at = k
  OBVIOUS
<1>2. CostOf(stages, name) = stages[at].cost
  BY Zenon DEF CostOf
<1>. QED
  BY <1>1, <1>2, Zenon

LEMMA SlowestIs == CostOf(SlowStages, "provider_call") = 2100
<1>1. Len(SlowStages) = 5 /\ 1..5 = {1, 2, 3, 4, 5}
  BY Lists
<1>2. /\ SlowStages[1].span = "ingress" /\ SlowStages[2].span = "queue"
      /\ SlowStages[3].span = "routing" /\ SlowStages[4].span = "provider_call"
      /\ SlowStages[5].span = "response"
  BY DEF SlowStages, HealthyStages, Stage
<1>3. CostOf(SlowStages, "provider_call") = SlowStages[4].cost
  <2>1. /\ 4 \in 1..Len(SlowStages)
        /\ \A i \in 1..Len(SlowStages) : SlowStages[i].span = "provider_call" => i = 4
    BY <1>1, <1>2
  <2>. QED
    BY <1>2, <2>1, CostAt, Zenon
<1>. QED
  BY <1>3, Costs

LEMMA Numbers ==
    ASSUME NEW a, NEW b, Closed(a, FailoverStages), Closed(b, SlowStages),
           observe = ObserveReport(a, b)
    PROVE  ObserveReconciles
<1> DEFINE Log(id) == CHOOSE e \in Range(observe.logs) : e.request_id = id
           slow == observe.diagnose
           series == observe.metrics_exposition
<1>1. /\ observe.logs = Logs /\ observe.metrics = Metrics
      /\ observe.metrics_exposition = MetricsExposition
      /\ observe.trace.trace_id = a /\ observe.trace.request_id = "r4f18"
      /\ slow.trace_id = b /\ slow.request_id = "r2a7c"
      /\ slow.total_ms = ChildTotal(SlowStages)
      /\ slow.slowest_ms = CostOf(SlowStages, "provider_call")
      /\ observe.correlate = [request_id |-> "r2a7c", quality_status |-> "fail"]
      /\ observe.quality.pass_rate = PassRate /\ observe.slo.firing = Firing
  BY DEF ObserveReport
<1>2. /\ \A id, ms, q : /\ Event(id, ms, q).request_id = id
                        /\ Event(id, ms, q).latency_ms = ms
                        /\ Event(id, ms, q).quality_status = q
  BY DEF Event
<1>3. /\ Log("r4f18") = Event("r4f18", 1812, "not_sampled")
      /\ Log("r2a7c") = Event("r2a7c", 2112, "fail")
  <2>. HIDE DEF slow, series
  <2>1. \A id : Log(id) = CHOOSE e \in Range(Logs) : e.request_id = id
    BY <1>1
  <2>. HIDE DEF Log
  <2>. QED
    BY <1>2, <2>1, LogsAre
<1>. HIDE DEF Log, slow
<1>4. ChildTotal(FailoverStages) = 1812 /\ ChildTotal(SlowStages) = 2112
  BY FailoverOffsets, SlowOffsets
<1>5. /\ TraceIs(a, 1812) /\ TraceIs(b, 2112)
  BY <1>4, WholeTraceIs DEF Traced
<1>6. /\ TraceIs(observe.trace.trace_id, Log(observe.trace.request_id).latency_ms)
      /\ TraceIs(slow.trace_id, slow.total_ms)
  BY <1>1, <1>2, <1>3, <1>4, <1>5
<1>7. /\ slow.total_ms = Log(slow.request_id).latency_ms
      /\ 2 * slow.slowest_ms > slow.total_ms
  BY <1>1, <1>2, <1>3, <1>4, SlowestIs
<1>8. observe.correlate = [request_id |-> slow.request_id,
                           quality_status |-> Log(slow.request_id).quality_status]
  BY <1>1, <1>2, <1>3
<1>9. \A e \in Range(observe.logs) :
        e.quality_status # "not_sampled" => e.request_id \in DOMAIN Scores
  BY <1>1, <1>2, LogsAre
<1>10. /\ Metrics.latency_p95_ms = Percentile(Latencies, 95)
       /\ Metrics.fallback_rate = Rate(Fallbacks, Len(Latencies))
       /\ Metrics.retry_rate = Rate(Retries, Len(Latencies))
       /\ MetricsExposition.latencies = Latencies
       /\ MetricsExposition.requests = Len(Latencies)
       /\ MetricsExposition.fallbacks = Fallbacks
       /\ MetricsExposition.retries = Retries
       /\ MetricsExposition.quality_pass_rate = PassRate
  BY DEF Metrics, MetricsExposition
<1>11. /\ Rate(series.fallbacks, series.requests) = observe.metrics.fallback_rate
       /\ Rate(series.retries, series.requests) = observe.metrics.retry_rate
       /\ Percentile(series.latencies, 95) = slow.total_ms
       /\ slow.total_ms = observe.metrics.latency_p95_ms
       /\ series.quality_pass_rate = observe.quality.pass_rate
  BY <1>1, <1>4, <1>10, P95Is
<1>12. "quality_pass_rate" \in observe.slo.firing <=> series.quality_pass_rate < 900
  <2>1. "quality_pass_rate" \in Firing <=> PassRate < 900
    BY DEF Firing
  <2>. QED
    BY <1>1, <1>10, <2>1
<1>. QED
  BY <1>6, <1>7, <1>8, <1>9, <1>11, <1>12 DEF ObserveReconciles, Log, slow

LEMMA IncidentCosts ==
    Contributors = [queue |-> 40, retry_backoff |-> 200, fallback |-> 400,
                    other |-> 10, provider_call |-> 3100]
<1>1. Len(IncidentStages) = 7 /\ 1..7 = {1, 2, 3, 4, 5, 6, 7}
  BY Lists
<1>2. /\ IncidentStages[1].span = "ingress" /\ IncidentStages[2].span = "queue"
      /\ IncidentStages[3].span = "routing" /\ IncidentStages[4].span = "provider_call"
      /\ IncidentStages[5].span = "retry_backoff" /\ IncidentStages[6].span = "fallback"
      /\ IncidentStages[7].span = "response"
  BY DEF IncidentStages, Stage
<1>3. /\ CostOf(IncidentStages, "queue") = IncidentStages[2].cost
      /\ CostOf(IncidentStages, "provider_call") = IncidentStages[4].cost
      /\ CostOf(IncidentStages, "retry_backoff") = IncidentStages[5].cost
      /\ CostOf(IncidentStages, "fallback") = IncidentStages[6].cost
  <2>1. ASSUME NEW name, NEW k \in 1..7, IncidentStages[k].span = name,
               \A i \in 1..7 : IncidentStages[i].span = name => i = k
        PROVE  CostOf(IncidentStages, name) = IncidentStages[k].cost
    <3>1. /\ k \in 1..Len(IncidentStages)
          /\ \A i \in 1..Len(IncidentStages) : IncidentStages[i].span = name => i = k
      BY <1>1, <2>1
    <3>. QED
      BY <2>1, <3>1, CostAt, Zenon
  <2>2. CostOf(IncidentStages, "queue") = IncidentStages[2].cost
    BY <1>1, <1>2, <2>1
  <2>3. CostOf(IncidentStages, "provider_call") = IncidentStages[4].cost
    BY <1>1, <1>2, <2>1
  <2>4. CostOf(IncidentStages, "retry_backoff") = IncidentStages[5].cost
    BY <1>1, <1>2, <2>1
  <2>5. CostOf(IncidentStages, "fallback") = IncidentStages[6].cost
    BY <1>1, <1>2, <2>1
  <2>. QED
    BY <2>2, <2>3, <2>4, <2>5
<1>4. /\ CostOf(IncidentStages, "queue") = 40
      /\ CostOf(IncidentStages, "provider_call") = 3100
      /\ CostOf(IncidentStages, "retry_backoff") = 200
      /\ CostOf(IncidentStages, "fallback") = 400
  BY <1>3, Costs
<1>5. ChildTotal(IncidentStages) = 3750
  BY IncidentOffsets
<1>. QED
  BY <1>4, <1>5 DEF Contributors

LEMMA Shares ==
    LET share == [s \in DOMAIN Contributors |->
                    Rate(Contributors[s], ChildTotal(IncidentStages))] IN
    OfAllStages(share) = 1001
<1> DEFINE share == [s \in DOMAIN Contributors |->
                       Rate(Contributors[s], ChildTotal(IncidentStages))]
<1>1. /\ Rate(40, 3750) = 11 /\ Rate(200, 3750) = 53 /\ Rate(400, 3750) = 107
      /\ Rate(10, 3750) = 3 /\ Rate(3100, 3750) = 827
  BY DEF Rate, RoundHalfEven
<1>2. /\ share.queue = Rate(40, 3750) /\ share.retry_backoff = Rate(200, 3750)
      /\ share.fallback = Rate(400, 3750) /\ share.other = Rate(10, 3750)
      /\ share.provider_call = Rate(3100, 3750)
  BY IncidentCosts, IncidentOffsets
<1>. HIDE DEF share
<1>3. OfAllStages(share) = 11 + 53 + 107 + 3 + 827
  BY <1>1, <1>2 DEF OfAllStages
<1>. QED
  BY <1>3 DEF share

LEMMA PanelsBreach ==
    /\ Dashboard["latency"].current = 3750 /\ Dashboard["quota"].current = 98
    /\ Dashboard["cost"].current = 185 /\ Dashboard["quality"].current = 68
    /\ \A d \in Dimensions : Breaches(d, Dashboard[d].current)
<1>1. /\ Dashboard["latency"] = Panel(950, 3750, 2500)
      /\ Dashboard["quota"] = Panel(55, 98, 90)
      /\ Dashboard["cost"] = Panel(120, 185, 150)
      /\ Dashboard["quality"] = Panel(92, 68, 90)
  BY IncidentOffsets DEF Dashboard
<1>2. \A x, y, z : Panel(x, y, z).current = y /\ Panel(x, y, z).objective = z
  BY DEF Panel
<1>. QED
  BY <1>1, <1>2 DEF Dimensions, Breaches

LEMMA IncidentNumbers ==
    ASSUME NEW t, Closed(t, IncidentStages), incident = IncidentReport(t)
    PROVE  IncidentReconciles
<1> DEFINE shares == [s \in DOMAIN Contributors |->
                        Rate(Contributors[s], ChildTotal(IncidentStages))]
<1>1. /\ incident.isolate.trace_id = t
      /\ incident.isolate.total_ms = ChildTotal(IncidentStages)
      /\ incident.isolate.contributors = Contributors /\ incident.isolate.shares = shares
      /\ incident.dashboard = Dashboard
      /\ incident.quota.submitted = 40 /\ incident.quota.accepted = 34
      /\ incident.quota.rejected_429 = 6 /\ incident.quota.utilization = 98
      /\ incident.cost.current = 185 /\ incident.quality = IncidentQuality
      /\ incident.action = Dimensions
  BY DEF IncidentReport, WindowRequests, Accepted, Rejected429, IncidentAction, Dimensions
<1>2. incident.cost.reconciles
  <2>1. CostDrivers.retries = 50 /\ CostDrivers.fallback = 15
    BY DEF CostDrivers
  <2> DEFINE sum == 120 + CostDrivers.retries + CostDrivers.fallback
  <2>2. (sum = 185) = TRUE
    BY <2>1
  <2>. HIDE DEF sum
  <2>3. incident.cost.reconciles = (sum = 185)
    BY DEF IncidentReport, sum
  <2>. QED
    BY <2>2, <2>3
<1>3. ChildTotal(IncidentStages) = 3750 /\ OfAllStages(shares) = 1001
  BY IncidentOffsets, Shares
<1>. HIDE DEF shares
<1>4. TraceIs(t, 3750)
  BY <1>3, WholeTraceIs DEF Traced
<1>5. OfAllStages(Contributors) = 3750 /\ Contributors["provider_call"] = 3100
  BY IncidentCosts DEF OfAllStages
<1>6. Rate(17, 25) = 680
  BY DEF Rate, RoundHalfEven
<1>7. /\ IncidentQuality.pass_rate = 680 /\ IncidentQuality.failed = 8
      /\ IncidentQuality.sampled_from = 34
      /\ IncidentQuality.failure_reasons[1] + IncidentQuality.failure_reasons[2]
           + IncidentQuality.failure_reasons[3] = 8
  BY <1>6 DEF IncidentQuality, Sampled, SamplesPassed, Accepted, FailureReasons
<1>8. 1001 \in 998..1002
  OBVIOUS
<1>. QED
  BY <1>1, <1>2, <1>3, <1>4, <1>5, <1>7, <1>8, PanelsBreach DEF IncidentReconciles

(***************************************************************************)
(* The event log.                                                          *)
(***************************************************************************)
EventsInv == emitted = {} \/
    (emitted = Range(EmittedLogs) /\ \E a, b : observe = ObserveReport(a, b))

LEMMA NextEvents == ThreadsOK /\ EventsInv /\ [Next]_vars => EventsInv'
<1>. SUFFICES ASSUME ThreadsOK, EventsInv, [Next]_vars PROVE EventsInv'
  OBVIOUS
<1>1. ASSUME UNCHANGED <<observe, emitted>> PROVE EventsInv'
  BY <1>1 DEF EventsInv
<1>2. ASSUME NEW w \in Workers, Run(w) PROVE EventsInv'
  <2>1. UNCHANGED <<states, traces>>
    BY <1>2, RunDoes
  <2>. QED
    BY <1>1, <2>1 DEF states, traces
<1>3. ASSUME NEW w \in Workers, Step(w) PROVE EventsInv'
  <2>1. CASE StartRoot(w) \/ EndChild(w) \/ EndRoot(w)
    BY <1>1, <2>1 DEF StartRoot, EndChild, EndRoot, states
  <2>2. CASE PublishObserve(w)
    <3>1. /\ emitted' = Range(EmittedLogs)
          /\ observe' = ObserveReport(local[w].ids[1], local[w].ids[2])
      BY <2>2 DEF PublishObserve, EventsInv
    <3>. QED
      BY <3>1 DEF EventsInv
  <2>3. CASE PublishIncident(w) \/ PublishPrompts(w)
    BY <1>1, <2>3 DEF PublishIncident, PublishPrompts, traces
  <2>4. CASE ReadLogs(w) \/ LoadRegistry(w) \/ ReplayRegistry(w)
    BY <1>1, <2>4, ReadDoes DEF states, traces
  <2>5. CASE \/ ReadObserved(w) \/ RegistryFails(w) \/ SetInjected(w) \/ ReadAlert(w)
             \/ ReadReadiness(w)
    BY <1>1, <2>5, AnswerDoes DEF traces
  <2>6. CASE CheckState(w) \/ BuildState(w)
    BY <1>1, <2>6, LazyDoes DEF traces
  <2>. QED
    BY <1>3, <2>1, <2>2, <2>3, <2>4, <2>5, <2>6 DEF Step
<1>4. CASE ValidationRun \/ CanaryRun \/ ReadinessRun \/ UNCHANGED vars
  BY <1>1, <1>4 DEF ValidationRun, CanaryRun, ReadinessRun, Instant, vars, states, traces
<1>5. ASSUME NEW v \in Versions, EditRegistry(v) PROVE EventsInv'
  BY <1>1, <1>5 DEF EditRegistry, states, traces
<1>6. CASE Restart
  BY <1>6 DEF Restart, EventsInv
<1>. QED
  BY <1>2, <1>3, <1>4, <1>5, <1>6 DEF Next

LEMMA EventsShown == EventsInv => EventsReconcile
<1>. SUFFICES ASSUME EventsInv, NEW e \in emitted
              PROVE  /\ observe # Empty
                     /\ \E log \in Range(observe.logs) :
                          /\ log.request_id = e.request_id /\ log.latency_ms = e.latency_ms
                          /\ log.quality_status \in {e.quality_status, "not_sampled"}
  BY DEF EventsReconcile
<1>1. e \in Range(EmittedLogs)
  BY DEF EventsInv
<1>2. PICK a, b : observe = ObserveReport(a, b)
  BY DEF EventsInv
<1>3. observe.logs = Logs /\ "logs" \in DOMAIN observe
  BY <1>2 DEF ObserveReport
<1>4. observe # Empty
  BY <1>3 DEF Empty
<1>5. /\ Len(EmittedLogs) = 3 /\ DOMAIN EmittedLogs = {1, 2, 3}
      /\ EmittedLogs[1] = Event("r6b1e", 712, "pass")
      /\ EmittedLogs[2] = Event("r4f18", 1812, "pass")
      /\ EmittedLogs[3] = Event("r2a7c", 2112, "fail")
  BY DEF EmittedLogs, HealthyMs, FailoverMs, SlowMs
<1>6. e \in {Event("r6b1e", 712, "pass"), Event("r4f18", 1812, "pass"),
             Event("r2a7c", 2112, "fail")}
  BY <1>1, <1>5 DEF Range
<1>7. \A id, ms, q : /\ Event(id, ms, q).request_id = id
                     /\ Event(id, ms, q).latency_ms = ms
                     /\ Event(id, ms, q).quality_status = q
  BY DEF Event
<1>. QED
  BY <1>3, <1>4, <1>6, <1>7, LogsAre

\* The reports reconcile with the store that every thread writes, for every
\* pool and number of traces.
THEOREM ReportsAlwaysReconcile == Spec => []ReportsReconcile
<1>1. TracesInv /\ EventsReconcile => ReportsReconcile
  BY Numbers, IncidentNumbers
     DEF TracesInv, ObserveTraced, IncidentTraced, ReportsReconcile, ObserveReconciles,
         IncidentReconciles
<1>2. Init => EventsInv
  BY DEF Init, EventsInv
<1>3. ThreadsOK /\ EventsInv /\ [Next]_vars => EventsInv'
  BY NextEvents
<1>4. SafeInv => ThreadsOK
  BY DEF SafeInv
<1>. QED
  BY <1>1, <1>2, <1>3, <1>4, EventsShown, TracesStayWhole, ReportsSafe, PTL DEF Spec

=============================================================================
