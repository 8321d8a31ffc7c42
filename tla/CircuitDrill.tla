---------------------------- MODULE CircuitDrill ----------------------------
(***************************************************************************)
(* The circuit drill in the service: threads run run_drill and             *)
(* admin_reset against the circuit keys of Redis and the circuit_breaker   *)
(* rows of the PostgreSQL ledger, one store command per step.  The breaker *)
(* itself is Breaker.tla; the decision of /resilience/failover-reconcile   *)
(* is the operator Verdict.                                                *)
(***************************************************************************)
EXTENDS Breaker, Sequences, FiniteSets

CONSTANTS
    Workers,    \* threads of the pool
    Script,     \* CIRCUIT_DRILL_SEQUENCE
    Conditions, \* the keys of CONDITIONS
    Serial,     \* callers wait for one drill or reset before the next
    Resets,     \* callers use /admin/reset
    MaxOps,     \* bound: drills and resets started
    MaxFaults   \* bound: failed handlers and restarts

ASSUME DrillConstants ==
    /\ Script \in Seq(Conditions) /\ Script # <<>>
    /\ Serial \in BOOLEAN /\ Resets \in BOOLEAN
    /\ MaxOps \in Nat /\ MaxFaults \in Nat

VARIABLES
    counts,     \* circuit:counts
    cbState,    \* circuit:state
    timeline,   \* circuit:timeline
    retrylog,   \* circuit:retrylog
    summary,    \* circuit:summary
    receipts,   \* the circuit_breaker rows of the receipts table
    pc,         \* where each worker is in its handler
    run,        \* the locals of run_drill of each worker
    ops,        \* drills and resets started, also the name of the latest
    faults      \* failed handlers and restarts

redis == <<counts, cbState, timeline, retrylog, summary>>
vars  == <<redis, receipts, pc, run, ops, faults>>

----------------------------------------------------------------------------
Absent == [set |-> FALSE]       \* a key that holds nothing

FreshRun == [drill |-> 0, breaker |-> Fresh, log |-> <<>>,
             served |-> [r \in Roles |-> 0], attempts |-> 0, unguarded |-> 0,
             spent |-> <<>>, recovered |-> FALSE]

Idle(w) == pc[w] = "idle"
Goto(w, at) == pc' = [pc EXCEPT ![w] = at]

Init ==
    /\ counts = [r \in Roles |-> 0]
    /\ cbState = Absent /\ timeline = <<>> /\ retrylog = <<>>
    /\ summary = Absent
    /\ receipts = {}
    /\ pc = [w \in Workers |-> "idle"]
    /\ run = [w \in Workers |-> FreshRun]
    /\ ops = 0 /\ faults = 0

----------------------------------------------------------------------------
Begin(w, at) ==
    /\ Idle(w) /\ ops < MaxOps
    /\ Serial => \A v \in Workers : Idle(v)
    /\ ops' = ops + 1
    /\ Goto(w, at)
    /\ UNCHANGED <<redis, receipts, run, faults>>

\* POST /resilience/drill
Drill(w) == Begin(w, "reset")

\* POST /admin/reset: the ledger is emptied first, the circuit keys last
AdminReset(w) == Resets /\ Begin(w, "truncate")

\* One DEL of the five circuit keys
ResetCircuit ==
    /\ counts' = [r \in Roles |-> 0]
    /\ cbState' = Absent /\ timeline' = <<>> /\ retrylog' = <<>>
    /\ summary' = Absent

Reset(w) ==
    /\ \/ pc[w] = "reset" /\ Goto(w, "clear")
       \/ pc[w] = "wipe" /\ Goto(w, "idle")
    /\ ResetCircuit
    /\ UNCHANGED <<receipts, run, ops, faults>>

ClearReceipts_AdminOnly(w) ==
    /\ \/ pc[w] = "clear" /\ Goto(w, "start") /\ UNCHANGED receipts
       \/ pc[w] = "truncate" /\ Goto(w, "wipe") /\ receipts' = {}
    /\ UNCHANGED <<redis, run, ops, faults>>

\* clear_circuit_receipts in a drill, TRUNCATE in an admin reset
ClearReceipts(w) ==
    /\ \/ pc[w] = "clear" /\ Goto(w, "start")
       \/ pc[w] = "truncate" /\ Goto(w, "wipe")
    /\ receipts' = {}
    /\ UNCHANGED <<redis, run, ops, faults>>

StartLoop_KeepsBreaker(w) ==
    /\ pc[w] = "start"
    /\ run' = [run EXCEPT ![w] =
                  [FreshRun EXCEPT !.drill = ops, !.breaker = run[w].breaker]]
    /\ Goto(w, "insert")
    /\ UNCHANGED <<redis, receipts, ops, faults>>

\* The locals above the loop; ops names the drill in its receipts
StartLoop(w) ==
    /\ pc[w] = "start"
    /\ run' = [run EXCEPT ![w] = [FreshRun EXCEPT !.drill = ops]]
    /\ Goto(w, "insert")
    /\ UNCHANGED <<redis, receipts, ops, faults>>

\* The receipt of the next request of a run
ReceiptRow(r, role) ==
    [drill |-> r.drill, seq |-> Len(r.log) + 1, role |-> role]

\* One pass of the loop up to its receipt
HandleRequest(w) ==
    LET r == run[w]
        c == Script[Len(r.log) + 1]
        out == Handle(r.breaker, c)
        entry == [primary_condition |-> c, circuit |-> Handling(r.breaker),
                  transition |-> out.transition, role |-> out.role,
                  primary_attempts |-> out.attempts]
    IN  /\ pc[w] = "insert"
        /\ receipts' = receipts \union {ReceiptRow(r, out.role)}
        /\ run' = [run EXCEPT ![w] =
             [r EXCEPT !.breaker = out.breaker,
                       !.log = Append(@, entry),
                       !.served[out.role] = @ + 1,
                       !.attempts = @ + out.attempts,
                       !.unguarded = @ + UnguardedAttempts(c),
                       !.spent = Append(@, r.attempts),
                       !.recovered = @ \/ out.transition = "recovered"]]
        /\ Goto(w, "count")
        /\ UNCHANGED <<redis, ops, faults>>

LastRole(w) == run[w].log[Len(run[w].log)].role

CircuitIncr_FallbackOnly(w) ==
    /\ pc[w] = "count"
    /\ counts' = [counts EXCEPT !["fallback"] = @ + 1]
    /\ Goto(w, IF Len(run[w].log) < Len(Script) THEN "insert" ELSE "state")
    /\ UNCHANGED <<cbState, timeline, retrylog, summary, receipts, run, ops, faults>>

CircuitIncr(w) ==
    /\ pc[w] = "count"
    /\ counts' = [counts EXCEPT ![LastRole(w)] = @ + 1]
    /\ Goto(w, IF Len(run[w].log) < Len(Script) THEN "insert" ELSE "state")
    /\ UNCHANGED <<cbState, timeline, retrylog, summary, receipts, run, ops, faults>>

\* The four keys written after the loop, in the order of run_drill
SetState(w) ==
    /\ pc[w] = "state" /\ Goto(w, "timeline")
    /\ cbState' = [set |-> TRUE, state |-> run[w].breaker.state,
                   failures |-> run[w].breaker.failures]
    /\ UNCHANGED <<counts, timeline, retrylog, summary, receipts, run, ops, faults>>

SetTimeline(w) ==
    /\ pc[w] = "timeline" /\ Goto(w, "retrylog")
    /\ timeline' = run[w].log
    /\ UNCHANGED <<counts, cbState, retrylog, summary, receipts, run, ops, faults>>

SetRetrylog(w) ==
    /\ pc[w] = "retrylog" /\ Goto(w, "summary")
    /\ retrylog' = run[w].log
    /\ UNCHANGED <<counts, cbState, timeline, summary, receipts, run, ops, faults>>

SetSummary(w) ==
    /\ pc[w] = "summary" /\ Goto(w, "idle")
    /\ summary' = [set |-> TRUE, served |-> run[w].served,
                   recovered |-> run[w].recovered,
                   final_state |-> run[w].breaker.state,
                   attempts |-> run[w].attempts,
                   attempts_without_breaker |-> run[w].unguarded]
    /\ UNCHANGED <<counts, cbState, timeline, retrylog, receipts, run, ops, faults>>

\* A store raises in the middle of a handler: what was written stays.
Fail(w) ==
    /\ faults < MaxFaults
    /\ faults' = faults + 1
    /\ ~Idle(w) /\ Goto(w, "idle")
    /\ UNCHANGED <<redis, receipts, run, ops>>

\* The process restarts; the start-up reset of Redis is best-effort, and the
\* ledger is left alone.
Restart ==
    /\ faults < MaxFaults
    /\ faults' = faults + 1
    /\ pc' = [w \in Workers |-> "idle"]
    /\ run' = [w \in Workers |-> FreshRun]
    /\ ResetCircuit \/ UNCHANGED redis
    /\ UNCHANGED <<receipts, ops>>

Step(w) ==
    \/ Reset(w) \/ ClearReceipts(w) \/ StartLoop(w)
    \/ HandleRequest(w) \/ CircuitIncr(w)
    \/ SetState(w) \/ SetTimeline(w) \/ SetRetrylog(w) \/ SetSummary(w)

Next ==
    \/ \E w \in Workers : Drill(w) \/ AdminReset(w) \/ Step(w) \/ Fail(w)
    \/ Restart

Spec == Init /\ [][Next]_vars

----------------------------------------------------------------------------
\* GET /resilience/failover-reconcile: the verdict on a summary, the rows of
\* the ledger and a retry log
CountOf(rows, r) == Cardinality({x \in rows : x.role = r})

LogCountOf(log, r) == Cardinality({i \in 1..Len(log) : log[i].role = r})

CallerCount(caller, r) == IF caller.set THEN caller.served[r] ELSE 0

Verdict_WithoutLedger(caller, rows, log) ==
    LET counts_agree == \A r \in Roles : CallerCount(caller, r) = LogCountOf(log, r)
    IN  IF counts_agree /\ caller.set /\ caller.recovered
        THEN "CONFIRMED" ELSE "BLOCKED"

Verdict(caller, rows, log) ==
    LET total == CallerCount(caller, "primary") + CallerCount(caller, "fallback")
        counts_agree == \A r \in Roles :
            /\ CallerCount(caller, r) = CountOf(rows, r)
            /\ CountOf(rows, r) = LogCountOf(log, r)
        receipts_complete == total > 0 /\ Cardinality(rows) = total
    IN  IF counts_agree /\ receipts_complete /\ caller.set /\ caller.recovered
        THEN "CONFIRMED" ELSE "BLOCKED"

AllIdle == \A w \in Workers : Idle(w)

\* The ledger never mixes the rows of two drills, and within the drill that
\* wrote them the rows are the requests of the script in order.
LedgerIsOneRun ==
    /\ \A x, y \in receipts : x.drill = y.drill
    /\ {x.seq : x \in receipts} = 1..Cardinality(receipts)

\* The locals of every drill thread move as CircuitBreaker says, from its
\* initial state: what is proved of the breaker holds of each drill.
Local(w) == INSTANCE CircuitBreaker WITH
    Scripts <- {Script}, script <- Script,
    breaker <- run[w].breaker, timeline <- run[w].log,
    served <- run[w].served, attempts <- run[w].attempts,
    unguarded <- run[w].unguarded, spent <- run[w].spent

ThreadsRunBreaker == [][
    \A w \in Workers : \/ Local(w)!Next
                       \/ Local(w)!Init'
                       \/ UNCHANGED Local(w)!vars]_vars
============================================================================
