----------------------------- MODULE Admission -----------------------------
(***************************************************************************)
(* Admission control: app/resilience/admission.py over the Redis state of  *)
(* app/db/redis_client.py and the PostgreSQL ledger of app/db/postgres.py. *)
(*                                                                         *)
(* A worker is a thread of the server's pool running one endpoint handler. *)
(* A step is one command to a store (each is atomic in the store), so the  *)
(* handlers of different workers interleave between any two commands.      *)
(* Redis: admitted, queue, tally, logs.  PostgreSQL: receipts.             *)
(*                                                                         *)
(* A uuid is a number never drawn before; prices, token counts and the     *)
(* caller's class label, which no decision reads, are left out.            *)
(*                                                                         *)
(* An operator named Op_Variant is not part of the specification: it is a  *)
(* plausible bug in Op, used to see that a property notices it.            *)
(***************************************************************************)
EXTENDS Integers, Sequences, FiniteSets

CONSTANTS
    Workers,        \* threads of the pool
    Models,         \* the keys of RATE_LIMITS
    RateLimit,      \* rate_limit of a model
    QueueCapacity,  \* queue_capacity of a model
    MaxId,          \* bound: requests submitted in a behaviour
    MaxCount,       \* bound: requests of one spike
    MaxResets,      \* bound: spikes, admin resets and resets at start-up
    MaxFaults       \* bound: failed handlers and restarts

ASSUME AdmissionConstants ==
    /\ RateLimit \in [Models -> Nat]
    /\ QueueCapacity \in [Models -> Nat]
    /\ MaxId \in Nat /\ MaxCount \in Nat
    /\ MaxResets \in Nat /\ MaxFaults \in Nat

\* The pool of the server has a size.
ASSUME FinitePool == IsFiniteSet(Workers)

VARIABLES
    admitted,   \* resilience:admitted:<model>, the rate-limit counter
    queue,      \* resilience:queue:<limiter key>, the list of waiting ids
    tally,      \* resilience:dispositions, the hash of counts per fate
    logs,       \* resilience:logs, the admission_decision events
    receipts,   \* the admission_control rows of the receipts table
    pc,         \* where each worker is in its handler
    job,        \* what each worker was asked to do
    decision,   \* the decision each worker holds
    nextId,     \* the next fresh request id
    replies,    \* history: the answers given to /load/submit
    reports,    \* history: the answers given to /load/spike
    alone,      \* history: nobody else ran while this handler did
    resets,     \* spikes, admin resets and resets at start-up
    faults      \* failed handlers and restarts

redis   == <<admitted, queue, tally, logs>>
threads == <<pc, job, decision, nextId>>
history == <<replies, reports, alone, resets, faults>>
vars    == <<redis, receipts, threads, history>>

----------------------------------------------------------------------------
Fates == {"accepted", "delayed", "rejected"}

NoCounts == [f \in Fates |-> 0]

Total(counts) == counts["accepted"] + counts["delayed"] + counts["rejected"]

\* The structured event of one decision, with the state it was judged against.
Decision == [request_id : Nat, model : Models, disposition : Fates,
             rate_limit_count : Nat, queue_depth : Nat]

Receipt == [request_id : Nat, model : Models, disposition : Fates]

ReceiptOf(d) == [request_id |-> d.request_id, model |-> d.model,
                 disposition |-> d.disposition]

NoDecision == [disposition |-> "none"]

Job == [op : {"submit", "spike"}, model : Models, size : Nat,
        counts : [Fates -> Nat], depth : Nat]

NoJob == [op |-> "none"]
ResetJob == [op |-> "reset"]

Idle(w) == pc[w] = "idle"

----------------------------------------------------------------------------
Init ==
    /\ admitted = [m \in Models |-> 0]
    /\ queue = [m \in Models |-> <<>>]
    /\ tally = NoCounts
    /\ logs = <<>>
    /\ receipts = {}
    /\ pc = [w \in Workers |-> "idle"]
    /\ job = [w \in Workers |-> NoJob]
    /\ decision = [w \in Workers |-> NoDecision]
    /\ nextId = 1
    /\ replies = {} /\ reports = {}
    /\ alone = [w \in Workers |-> FALSE]
    /\ resets = 0 /\ faults = 0

(***************************************************************************)
(* A handler starts on an idle worker.                                     *)
(***************************************************************************)
Begin(w, newJob, at) ==
    /\ Idle(w)
    /\ job' = [job EXCEPT ![w] = newJob]
    /\ pc' = [pc EXCEPT ![w] = at]
    /\ alone' = [v \in Workers |-> v = w /\ \A u \in Workers : Idle(u)]
    /\ UNCHANGED <<redis, receipts, decision, nextId, replies, reports, faults>>

\* POST /load/submit
LoadSubmit(w, m) ==
    /\ Begin(w, [op |-> "submit", model |-> m, size |-> 1,
                 counts |-> NoCounts, depth |-> 0], "admit")
    /\ UNCHANGED resets

LoadSpike_NoReset(w, m, n) ==
    /\ resets < MaxResets
    /\ resets' = resets + 1
    /\ Begin(w, [op |-> "spike", model |-> m, size |-> n,
                 counts |-> NoCounts, depth |-> 0], "admit")

\* POST /load/spike
LoadSpike(w, m, n) ==
    /\ resets < MaxResets
    /\ resets' = resets + 1
    /\ Begin(w, [op |-> "spike", model |-> m, size |-> n,
                 counts |-> NoCounts, depth |-> 0], "wipe")

\* POST /admin/reset
AdminReset(w) ==
    /\ resets < MaxResets
    /\ resets' = resets + 1
    /\ Begin(w, ResetJob, "truncate")

Goto(w, at) == pc' = [pc EXCEPT ![w] = at]

Done_KeepsDecision(w) ==
    /\ Goto(w, "idle")
    /\ job' = [job EXCEPT ![w] = NoJob]
    /\ UNCHANGED decision

\* The worker returns its answer or raises: it keeps nothing.
Done(w) ==
    /\ Goto(w, "idle")
    /\ job' = [job EXCEPT ![w] = NoJob]
    /\ decision' = [decision EXCEPT ![w] = NoDecision]

(***************************************************************************)
(* One Redis DEL of many keys, hence one atomic step.                      *)
(***************************************************************************)
ResetResilience ==
    /\ admitted' = [m \in Models |-> 0]
    /\ queue' = [m \in Models |-> <<>>]
    /\ tally' = NoCounts
    /\ logs' = <<>>

Wipe(w) ==
    /\ pc[w] = "wipe"
    /\ ResetResilience
    /\ \/ /\ job[w].op = "spike"
          /\ Goto(w, "clear")
          /\ UNCHANGED <<job, decision>>
       \/ /\ job[w].op = "reset"
          /\ Done(w)
    /\ UNCHANGED <<receipts, nextId, history>>

ClearReceipts_NotInSpike(w) ==
    /\ \/ pc[w] = "clear" /\ Goto(w, "admit") /\ UNCHANGED receipts
       \/ pc[w] = "truncate" /\ Goto(w, "wipe") /\ receipts' = {}
    /\ UNCHANGED <<redis, job, decision, nextId, history>>

\* clear_admission_receipts in a spike, TRUNCATE in an admin reset
ClearReceipts(w) ==
    /\ \/ pc[w] = "clear" /\ Goto(w, "admit")
       \/ pc[w] = "truncate" /\ Goto(w, "wipe")
    /\ receipts' = {}
    /\ UNCHANGED <<redis, job, decision, nextId, history>>

(***************************************************************************)
(* submit_one: the Lua script, then the receipt, the tally and the log.    *)
(* One execution of the script is one atomic step with three outcomes.     *)
(***************************************************************************)
Decide(w, fate, count, depth) ==
    decision' = [decision EXCEPT ![w] =
        [request_id |-> nextId, model |-> job[w].model, disposition |-> fate,
         rate_limit_count |-> count, queue_depth |-> depth]]

AdmitAccepted_LimitPlusOne(w, m) ==
    /\ admitted[m] <= RateLimit[m]
    /\ admitted' = [admitted EXCEPT ![m] = @ + 1]
    /\ Decide(w, "accepted", admitted[m] + 1, Len(queue[m]))
    /\ UNCHANGED queue

AdmitAccepted_StaleCount(w, m) ==
    /\ admitted[m] < RateLimit[m]
    /\ admitted' = [admitted EXCEPT ![m] = @ + 1]
    /\ Decide(w, "accepted", admitted[m], Len(queue[m]))
    /\ UNCHANGED queue

AdmitAccepted(w, m) ==
    /\ admitted[m] < RateLimit[m]
    /\ admitted' = [admitted EXCEPT ![m] = @ + 1]
    /\ Decide(w, "accepted", admitted[m] + 1, Len(queue[m]))
    /\ UNCHANGED queue

AdmitDelayed_DepthOnly(w, m) ==
    /\ admitted[m] >= RateLimit[m]
    /\ Len(queue[m]) < QueueCapacity[m]
    /\ queue' = [queue EXCEPT ![m] = Append(@, 0)]
    /\ Decide(w, "delayed", admitted[m], Len(queue[m]) + 1)
    /\ UNCHANGED admitted

AdmitDelayed(w, m) ==
    /\ admitted[m] >= RateLimit[m]
    /\ Len(queue[m]) < QueueCapacity[m]
    /\ queue' = [queue EXCEPT ![m] = Append(@, nextId)]
    /\ Decide(w, "delayed", admitted[m], Len(queue[m]) + 1)
    /\ UNCHANGED admitted

AdmitRejected(w, m) ==
    /\ admitted[m] >= RateLimit[m]
    /\ Len(queue[m]) >= QueueCapacity[m]
    /\ Decide(w, "rejected", admitted[m], Len(queue[m]))
    /\ UNCHANGED <<admitted, queue>>

Admit(w) ==
    /\ pc[w] = "admit"
    /\ nextId <= MaxId
    /\ nextId' = nextId + 1
    /\ \/ AdmitAccepted(w, job[w].model)
       \/ AdmitDelayed(w, job[w].model)
       \/ AdmitRejected(w, job[w].model)
    /\ Goto(w, "insert")
    /\ UNCHANGED <<tally, logs, receipts, job, history>>

InsertReceipt_ServedOnly(w) ==
    /\ pc[w] = "insert"
    /\ receipts' = IF decision[w].disposition = "rejected" THEN receipts
                   ELSE receipts \union {ReceiptOf(decision[w])}
    /\ Goto(w, "tally")
    /\ UNCHANGED <<redis, job, decision, nextId, history>>

InsertReceipt(w) ==
    /\ pc[w] = "insert"
    /\ receipts' = receipts \union {ReceiptOf(decision[w])}
    /\ Goto(w, "tally")
    /\ UNCHANGED <<redis, job, decision, nextId, history>>

DispositionIncr(w) ==
    /\ pc[w] = "tally"
    /\ tally' = [tally EXCEPT ![decision[w].disposition] = @ + 1]
    /\ Goto(w, "log")
    /\ UNCHANGED <<admitted, queue, logs, receipts, job, decision, nextId, history>>

\* The event is appended; a submit answers, a spike counts and goes on.
LogAdmission(w) ==
    LET d == decision[w]
        counts == [job[w].counts EXCEPT ![d.disposition] = @ + 1]
    IN  /\ pc[w] = "log"
        /\ logs' = Append(logs, d)
        /\ \/ /\ job[w].op = "submit"
              /\ replies' = replies \union {ReceiptOf(d)}
              /\ Done(w)
           \/ /\ job[w].op = "spike"
              /\ job' = [job EXCEPT ![w].counts = counts]
              /\ decision' = [decision EXCEPT ![w] = NoDecision]
              /\ Goto(w, IF Total(counts) < job[w].size THEN "admit" ELSE "depth")
              /\ UNCHANGED replies
        /\ UNCHANGED <<admitted, queue, tally, receipts, nextId, reports, alone,
                       resets, faults>>

(***************************************************************************)
(* run_spike reads the queue depth twice for its summary.                  *)
(***************************************************************************)
ReadDepth(w) ==
    /\ pc[w] = "depth"
    /\ job' = [job EXCEPT ![w].depth = Len(queue[job[w].model])]
    /\ Goto(w, "full")
    /\ UNCHANGED <<redis, receipts, decision, nextId, history>>

Report(w) ==
    LET j == job[w] IN
    /\ pc[w] = "full"
    /\ reports' = reports \union
         {[model |-> j.model, submitted |-> j.size, counts |-> j.counts,
           queue_depth |-> j.depth,
           queue_full |-> Len(queue[j.model]) >= QueueCapacity[j.model],
           alone |-> alone[w]]}
    /\ Done(w)
    /\ UNCHANGED <<redis, receipts, nextId, replies, alone, resets, faults>>

(***************************************************************************)
(* A store raises in the middle of a handler: the caller gets a 500 and    *)
(* what was already written stays.                                         *)
(***************************************************************************)
Fail(w) ==
    /\ faults < MaxFaults
    /\ faults' = faults + 1
    /\ ~Idle(w)
    /\ Done(w)
    /\ UNCHANGED <<redis, receipts, nextId, replies, reports, alone, resets>>

\* The process restarts; the start-up reset of Redis is best-effort.
Restart ==
    /\ faults < MaxFaults
    /\ faults' = faults + 1
    /\ pc' = [w \in Workers |-> "idle"]
    /\ job' = [w \in Workers |-> NoJob]
    /\ decision' = [w \in Workers |-> NoDecision]
    /\ \/ /\ resets < MaxResets
          /\ resets' = resets + 1
          /\ ResetResilience
       \/ UNCHANGED <<redis, resets>>
    /\ UNCHANGED <<receipts, nextId, replies, reports, alone>>

Step(w) ==
    \/ Wipe(w) \/ ClearReceipts(w)
    \/ Admit(w) \/ InsertReceipt(w) \/ DispositionIncr(w) \/ LogAdmission(w)
    \/ ReadDepth(w) \/ Report(w)

Call(w) ==
    \/ \E m \in Models : LoadSubmit(w, m)
    \/ \E m \in Models, n \in 1..MaxCount : LoadSpike(w, m, n)
    \/ AdminReset(w)

Next ==
    \/ \E w \in Workers : Call(w) \/ Step(w) \/ Fail(w)
    \/ Restart

Spec == Init /\ [][Next]_vars

----------------------------------------------------------------------------
Working == {"insert", "tally", "log"}       \* a decision is held there

\* Every store and every thread holds what the code puts there, in the range
\* the endpoints accept (submit_one, run_spike, the Redis keys, the ledger).
TypeOK ==
    /\ admitted \in [Models -> Nat]
    /\ queue \in [Models -> Seq(Nat)]
    /\ tally \in [Fates -> Nat]
    /\ logs \in Seq(Decision)
    /\ receipts \subseteq Receipt
    /\ pc \in [Workers -> {"idle", "wipe", "clear", "truncate", "admit",
                           "depth", "full"} \union Working]
    /\ job \in [Workers -> Job \union {NoJob, ResetJob}]
    /\ decision \in [Workers -> Decision \union {NoDecision}]
    /\ nextId \in Nat
    /\ \A w \in Workers :
         /\ pc[w] \in Working => decision[w] \in Decision
         /\ pc[w] \notin Working => decision[w] = NoDecision
         /\ pc[w] \in Working \union {"clear", "admit", "depth", "full"}
              => job[w] \in Job

(***************************************************************************)
(* The gate.  These hold whatever resets, spikes, failures and restarts    *)
(* interleave with the requests.                                           *)
(***************************************************************************)

\* No race of requests lets a tier admit more than its limit or queue more
\* than its capacity (the claim of the comment above _ADMIT_LUA).
WithinLimits == \A m \in Models :
    /\ admitted[m] <= RateLimit[m]
    /\ Len(queue[m]) <= QueueCapacity[m]

\* Nobody waits while an immediate admit is free: _ADMIT_LUA queues only at
\* the limit, and every reset drops the counter and the list together.
QueueOnlyWhenSaturated == \A m \in Models :
    queue[m] # <<>> => admitted[m] = RateLimit[m]

\* What a decision says it saw is a state in which that decision is right.
Judged(d) ==
    LET limit == RateLimit[d.model]
        capacity == QueueCapacity[d.model]
    IN  \/ /\ d.disposition = "accepted"
           /\ d.rate_limit_count \in 1..limit /\ d.queue_depth = 0
        \/ /\ d.disposition = "delayed"
           /\ d.rate_limit_count = limit /\ d.queue_depth \in 1..capacity
        \/ /\ d.disposition = "rejected"
           /\ d.rate_limit_count = limit /\ d.queue_depth = capacity

\* Every event in the log, and every decision on its way there, was judged
\* against one consistent state: an accept saw an empty queue ("provably 0"
\* in redis_client.py), a reject saw a full one.
JudgedAgainstOneState ==
    /\ \A i \in 1..Len(logs) : Judged(logs[i])
    /\ \A w \in Workers : pc[w] \in Working => Judged(decision[w])

(***************************************************************************)
(* The evidence.  These relate the four stores, and the threads between    *)
(* them, in behaviours where nothing was reset.                            *)
(***************************************************************************)
Fated(f) == {r \in receipts : r.disposition = f}

Holding(f, at) == {w \in Workers : pc[w] = at /\ decision[w].disposition = f}

Logged(f) == {i \in 1..Len(logs) : logs[i].disposition = f}

OfModel(S, m) == {x \in S : x.model = m}

\* Equal while nothing has failed; a failed handler may only leave the earlier
\* store ahead of the later one.
Covers(earlier, later) ==
    /\ earlier >= later
    /\ faults = 0 => earlier = later

\* The counters, the ledger, the tally and the log always agree up to the
\* requests in flight between them, and a failure never makes a later store
\* claim more than an earlier one: the ledger never shows more admits than the
\* limiter granted, nor the log more decisions than the ledger.
BooksBalance == resets = 0 =>
    /\ \A m \in Models :
         Covers(admitted[m],
                Cardinality(OfModel(Fated("accepted"), m)) +
                Cardinality({w \in Holding("accepted", "insert") :
                               decision[w].model = m}))
    /\ \A m \in Models :
         Covers(Len(queue[m]),
                Cardinality(OfModel(Fated("delayed"), m)) +
                Cardinality({w \in Holding("delayed", "insert") :
                               decision[w].model = m}))
    /\ \A f \in Fates :
         /\ Covers(Cardinality(Fated(f)),
                   tally[f] + Cardinality(Holding(f, "tally")))
         /\ Covers(tally[f],
                   Cardinality(Logged(f)) + Cardinality(Holding(f, "log")))

Queued(m) == {queue[m][i] : i \in 1..Len(queue[m])}

\* An answered request can be traced: the ledger and the log hold it with the
\* fate the caller was told, and it waits in the queue exactly if that fate
\* was "delayed" (the correlation of /resilience/admission-logs).
RepliesTraceable == resets = 0 => \A r \in replies :
    /\ r \in receipts
    /\ \E i \in 1..Len(logs) : ReceiptOf(logs[i]) = r
    /\ r.disposition = "delayed" <=> r.request_id \in Queued(r.model)

(***************************************************************************)
(* The spike.                                                              *)
(***************************************************************************)

\* GET /resilience/matrix: the outcome of a burst, computed without a store.
MatrixRow(m, count) ==
    LET accepted == IF count < RateLimit[m] THEN count ELSE RateLimit[m]
        rest == count - accepted
        delayed == IF rest < QueueCapacity[m] THEN rest ELSE QueueCapacity[m]
    IN  [f \in Fates |-> CASE f = "accepted" -> accepted
                           [] f = "delayed" -> delayed
                           [] f = "rejected" -> rest - delayed]

\* A spike that nobody disturbed reports exactly the row the matrix projects,
\* whatever earlier handlers, failures and restarts left in the stores.
SpikeMatchesMatrix == \A r \in reports : r.alone =>
    /\ r.counts = MatrixRow(r.model, r.submitted)
    /\ r.queue_depth = r.counts["delayed"]
    /\ r.queue_full <=> r.counts["delayed"] = QueueCapacity[r.model]

\* When an undisturbed spike ends, tally, log and ledger hold its requests and
\* nothing of an earlier run ("the disposition totals always reflect the
\* latest run", clear_admission_receipts).
SpikeEvidenceIsFresh == \A w \in Workers : pc[w] = "depth" /\ alone[w] =>
    \A f \in Fates : /\ Cardinality(Fated(f)) = job[w].counts[f]
                     /\ tally[f] = job[w].counts[f]
                     /\ Cardinality(Logged(f)) = job[w].counts[f]

(***************************************************************************)
(* Claims of the repository that the code does not keep.                   *)
(***************************************************************************)

\* Each queued id is "dequeuable and traceable to its receipt": whenever no
\* reset is under way, some row of the ledger has it, unless the thread that
\* queued it is about to write that row.
QueuedIdsTraceable ==
    (\A w \in Workers : pc[w] \notin {"wipe", "clear", "truncate"}) =>
        \A m \in Models : \A id \in Queued(m) :
            \/ \E r \in receipts : r.request_id = id
            \/ \E w \in Workers :
                 pc[w] = "insert" /\ decision[w].request_id = id

\* GET /resilience/rate-limit: what the endpoint answers for a model.
RateLimitView(m) ==
    LET arrived == Total(tally)
        forwarded == admitted[m]
    IN  [requests_arrived |-> arrived,
         provider_calls_forwarded |-> forwarded,
         provider_calls_blocked |->
             IF arrived > forwarded THEN arrived - forwarded ELSE 0,
         quota_protected |-> arrived > forwarded]

\* The limiter's quota protection is "a number, not a claim": at rest, in a
\* behaviour without resets or failures, the provider calls the endpoint says
\* were blocked for a model are the queued and rejected requests of that model.
BlockedIsANumber == \A m \in Models :
    (\A w \in Workers : Idle(w)) /\ resets = 0 /\ faults = 0 =>
        RateLimitView(m).provider_calls_blocked =
            Cardinality(OfModel(Fated("delayed") \union Fated("rejected"), m))

----------------------------------------------------------------------------
\* The strip of tickets behind the counter and the list.
Gate == INSTANCE AdmissionGate WITH
            taken <- [m \in Models |-> admitted[m] + Len(queue[m])],
            verdict <- [w \in Workers |-> decision[w].disposition]

\* Counter, list and racing threads implement the strip of tickets, resets
\* between any two commands, failures and restarts included.
GateSpec == Gate!Spec
============================================================================
