-------------------------- MODULE AdmissionProofs --------------------------
(***************************************************************************)
(* Proofs about Admission and AdmissionViews, for every number of threads  *)
(* and tiers, every limit and capacity, and every interleaving of requests,*)
(* spikes, resets, failures and restarts:                                  *)
(*   TypeCorrect         the type invariant;                               *)
(*   GateIsSafe          limits, no waiting while an admit is free,        *)
(*                       decisions judged against one state;               *)
(*   GateRefined         the threads implement the strip of tickets;       *)
(*   BooksAlwaysBalance  limiter, queue, ledger, tally and log agree up to *)
(*                       the requests in flight;                           *)
(*   RepliesTraced       what a caller was told is found in every store;   *)
(*   ViewsAgree          a view of two stores does not contradict itself;  *)
(*   SpikeIsItsRow       an undisturbed spike is the row the matrix says;  *)
(*   SpikeIsFresh        its evidence holds its own requests and no other. *)
(***************************************************************************)
EXTENDS AdmissionViews, FiniteSetTheorems, TLAPS

(***************************************************************************)
(* Types.                                                                  *)
(***************************************************************************)
LEMMA InitType == Init => TypeOK
BY AdmissionConstants
   DEF Init, TypeOK, Working, NoCounts, NoDecision, NoJob, ResetJob, Fates

\* A handler that ends leaves its worker with nothing.
LEMMA DoneType ==
    ASSUME TypeOK, NEW w \in Workers, Done(w)
    PROVE  /\ pc' \in [Workers -> {"idle", "wipe", "clear", "truncate", "admit",
                           "depth", "full"} \union Working]
           /\ job' \in [Workers -> Job \union {NoJob, ResetJob}]
           /\ decision' \in [Workers -> Decision \union {NoDecision}]
           /\ \A v \in Workers :
                /\ pc'[v] \in Working => decision'[v] \in Decision
                /\ pc'[v] \notin Working => decision'[v] = NoDecision
                /\ pc'[v] \in Working \union {"clear", "admit", "depth", "full"}
                     => job'[v] \in Job
BY DEF TypeOK, Done, Goto, Working

LEMMA BeginType ==
    ASSUME TypeOK, NEW w \in Workers, NEW j, NEW at,
           \/ j \in Job /\ at \in {"admit", "wipe"}
           \/ j = ResetJob /\ at = "truncate",
           Begin(w, j, at)
    PROVE  TypeOK'
BY DEF TypeOK, Begin, Working, redis, Idle

LEMMA CallType ==
    ASSUME TypeOK, NEW w \in Workers, Call(w)
    PROVE  TypeOK'
<1>1. CASE \E m \in Models : LoadSubmit(w, m)
  BY <1>1, BeginType DEF LoadSubmit, Job, NoCounts
<1>2. CASE \E m \in Models, n \in 1..MaxCount : LoadSpike(w, m, n)
  <2>1. PICK m \in Models, n \in 1..MaxCount : LoadSpike(w, m, n)
    BY <1>2
  <2>2. [op |-> "spike", model |-> m, size |-> n,
         counts |-> NoCounts, depth |-> 0] \in Job
    BY DEF Job, NoCounts
  <2>. QED
    BY <2>1, <2>2, BeginType DEF LoadSpike
<1>3. CASE AdminReset(w)
  BY <1>3, BeginType DEF AdminReset
<1>. QED
  BY <1>1, <1>2, <1>3 DEF Call

LEMMA ResetType ==
    ASSUME ResetResilience
    PROVE  /\ admitted' \in [Models -> Nat]
           /\ queue' \in [Models -> Seq(Nat)]
           /\ tally' \in [Fates -> Nat]
           /\ logs' \in Seq(Decision)
BY DEF ResetResilience, NoCounts

\* Whatever the script decides, the worker holds a decision.
LEMMA AdmitType ==
    ASSUME TypeOK, NEW w \in Workers, Admit(w)
    PROVE  TypeOK'
<1> DEFINE m == job[w].model
<1>1. m \in Models /\ nextId \in Nat /\ nextId' \in Nat
  BY DEF TypeOK, Admit, Job, Working
<1>2. admitted[m] \in Nat /\ queue[m] \in Seq(Nat) /\ Len(queue[m]) \in Nat
  BY <1>1 DEF TypeOK
<1>3. \A fate \in Fates, count \in Nat, depth \in Nat :
        Decide(w, fate, count, depth) =>
          /\ decision' \in [Workers -> Decision \union {NoDecision}]
          /\ decision'[w] \in Decision
          /\ \A v \in Workers \ {w} : decision'[v] = decision[v]
  BY <1>1 DEF TypeOK, Decide, Decision
<1>4. /\ admitted' \in [Models -> Nat]
      /\ queue' \in [Models -> Seq(Nat)]
      /\ decision' \in [Workers -> Decision \union {NoDecision}]
      /\ decision'[w] \in Decision
      /\ \A v \in Workers \ {w} : decision'[v] = decision[v]
  <2>1. CASE AdmitAccepted(w, m)
    BY <2>1, <1>1, <1>2, <1>3 DEF AdmitAccepted, TypeOK, Fates
  <2>2. CASE AdmitDelayed(w, m)
    BY <2>2, <1>1, <1>2, <1>3 DEF AdmitDelayed, TypeOK, Fates
  <2>3. CASE AdmitRejected(w, m)
    BY <2>3, <1>1, <1>2, <1>3 DEF AdmitRejected, TypeOK, Fates
  <2>. QED
    BY <2>1, <2>2, <2>3 DEF Admit
<1>. QED
  BY <1>1, <1>4 DEF TypeOK, Admit, Goto, Working

LEMMA StepType ==
    ASSUME TypeOK, NEW w \in Workers, Step(w)
    PROVE  TypeOK'
<1>1. CASE Wipe(w)
  <2>1. CASE job[w].op = "spike"
    <3>1. NoJob.op # "spike" /\ ResetJob.op # "spike"
      BY DEF NoJob, ResetJob
    <3>2. job[w] \in Job
      BY <2>1, <3>1 DEF TypeOK
    <3>. QED
      BY <1>1, <2>1, <3>2, ResetType
      DEF TypeOK, Wipe, Goto, Working, Done, NoJob
  <2>2. CASE job[w].op = "reset"
    BY <1>1, <2>2, ResetType, DoneType DEF TypeOK, Wipe
  <2>. QED
    BY <1>1, <2>1, <2>2 DEF Wipe
<1>2. CASE ClearReceipts(w)
  BY <1>2 DEF TypeOK, ClearReceipts, Goto, Working, redis, history
<1>3. CASE Admit(w)
  BY <1>3, AdmitType
<1>4. CASE InsertReceipt(w)
  <2>1. ReceiptOf(decision[w]) \in Receipt
    BY <1>4 DEF TypeOK, InsertReceipt, ReceiptOf, Receipt, Decision, Working
  <2>. QED
    BY <1>4, <2>1 DEF TypeOK, InsertReceipt, Goto, Working, redis
<1>5. CASE DispositionIncr(w)
  <2>1. decision[w].disposition \in Fates
    BY <1>5 DEF TypeOK, DispositionIncr, Decision, Working
  <2>. QED
    BY <1>5, <2>1 DEF TypeOK, DispositionIncr, Goto, Working
<1>6. CASE LogAdmission(w)
  <2> DEFINE counts == [job[w].counts EXCEPT ![decision[w].disposition] = @ + 1]
  <2>1. decision[w] \in Decision /\ job[w] \in Job
    BY <1>6 DEF TypeOK, LogAdmission, Working
  <2>2. Append(logs, decision[w]) \in Seq(Decision)
    BY <2>1 DEF TypeOK
  <2>3. CASE job[w].op = "submit"
    BY <1>6, <2>1, <2>2, <2>3, DoneType DEF TypeOK, LogAdmission
  <2>4. CASE job[w].op = "spike"
    <3>1. counts \in [Fates -> Nat]
      BY <2>1 DEF Job, Decision
    <3>2. [job[w] EXCEPT !.counts = counts] \in Job
      BY <2>1, <3>1 DEF Job
    <3>3. job' = [job EXCEPT ![w] = [job[w] EXCEPT !.counts = counts]]
      BY <1>6, <2>4 DEF LogAdmission
    <3>4. job' \in [Workers -> Job \union {NoJob, ResetJob}] /\ job'[w] \in Job
      BY <3>2, <3>3 DEF TypeOK
    <3>5. /\ pc' = [pc EXCEPT ![w] = IF Total(counts) < job[w].size
                                     THEN "admit" ELSE "depth"]
          /\ decision' = [decision EXCEPT ![w] = NoDecision]
          /\ logs' = Append(logs, decision[w])
          /\ UNCHANGED <<admitted, queue, tally, receipts, nextId>>
      BY <1>6, <2>4 DEF LogAdmission, Goto
    <3>. QED
      BY <2>2, <3>3, <3>4, <3>5 DEF TypeOK, Working
  <2>. QED
    BY <1>6, <2>3, <2>4 DEF LogAdmission
<1>7. CASE ReadDepth(w)
  <2>1. job[w] \in Job /\ Len(queue[job[w].model]) \in Nat
    BY <1>7 DEF TypeOK, ReadDepth, Job
  <2>2. [job[w] EXCEPT !.depth = Len(queue[job[w].model])] \in Job
    BY <2>1 DEF Job
  <2>3. job' = [job EXCEPT ![w] = [job[w] EXCEPT !.depth = Len(queue[job[w].model])]]
    BY <1>7 DEF ReadDepth
  <2>. QED
    BY <1>7, <2>2, <2>3 DEF TypeOK, ReadDepth, Goto, Working, redis
<1>8. CASE Report(w)
  BY <1>8, DoneType DEF TypeOK, Report, redis
<1>. QED
  BY <1>1, <1>2, <1>3, <1>4, <1>5, <1>6, <1>7, <1>8 DEF Step

LEMMA FailType ==
    ASSUME TypeOK, NEW w \in Workers, Fail(w)
    PROVE  TypeOK'
BY DoneType DEF TypeOK, Fail, redis

LEMMA RestartType ==
    ASSUME TypeOK, Restart
    PROVE  TypeOK'
<1>1. /\ admitted' \in [Models -> Nat] /\ queue' \in [Models -> Seq(Nat)]
      /\ tally' \in [Fates -> Nat] /\ logs' \in Seq(Decision)
  BY ResetType DEF TypeOK, Restart, redis
<1>. QED
  BY <1>1 DEF TypeOK, Restart, Working

LEMMA NextType == TypeOK /\ [Next]_vars => TypeOK'
<1> SUFFICES ASSUME TypeOK, [Next]_vars PROVE TypeOK'
  OBVIOUS
<1>1. CASE UNCHANGED vars
  BY <1>1 DEF TypeOK, vars, redis, threads
<1>2. CASE Next
  BY <1>2, CallType, StepType, FailType, RestartType DEF Next
<1>. QED
  BY <1>1, <1>2

\* The stores and the threads hold what the code puts there, in every
\* behaviour of every instance (submit_one, run_spike, admin_reset, lifespan).
THEOREM TypeCorrect == Spec => []TypeOK
BY InitType, NextType, PTL DEF Spec

(***************************************************************************)
(* The gate.  Its parts are inductive only together: an accept sees an     *)
(* empty queue because nobody waits below the limit, and nobody waits      *)
(* below the limit because the counter never falls while the list stands.  *)
(***************************************************************************)
GateInv == WithinLimits /\ QueueOnlyWhenSaturated /\ JudgedAgainstOneState

LEMMA InitGate == Init => GateInv
BY AdmissionConstants
   DEF Init, GateInv, WithinLimits, QueueOnlyWhenSaturated,
       JudgedAgainstOneState, Working

\* A step that leaves counter, list and log alone and brings no new decision
\* leaves the gate as it is.
LEMMA QuietGate ==
    ASSUME GateInv, UNCHANGED <<admitted, queue, logs>>,
           \A v \in Workers : pc'[v] \in Working =>
               pc[v] \in Working /\ decision'[v] = decision[v]
    PROVE  GateInv'
BY DEF GateInv, WithinLimits, QueueOnlyWhenSaturated, JudgedAgainstOneState,
       Judged

\* Deleting all keys at once cannot strand a waiting request.
LEMMA ResetGate ==
    ASSUME GateInv, ResetResilience,
           \A v \in Workers : pc'[v] \in Working =>
               pc[v] \in Working /\ decision'[v] = decision[v]
    PROVE  GateInv'
BY AdmissionConstants
   DEF GateInv, WithinLimits, QueueOnlyWhenSaturated, JudgedAgainstOneState,
       Judged, ResetResilience

\* One execution of the script keeps the gate and judges its request against
\* the state it found.
LEMMA AdmitGate ==
    ASSUME TypeOK, GateInv, NEW w \in Workers, Admit(w)
    PROVE  GateInv'
<1> DEFINE m == job[w].model
<1>1. m \in Models /\ nextId \in Nat
  BY DEF TypeOK, Admit, Job, Working
<1>2. /\ admitted[m] \in Nat /\ queue[m] \in Seq(Nat) /\ Len(queue[m]) \in Nat
      /\ RateLimit[m] \in Nat /\ QueueCapacity[m] \in Nat
  BY <1>1, AdmissionConstants DEF TypeOK
<1>3. /\ admitted[m] <= RateLimit[m] /\ Len(queue[m]) <= QueueCapacity[m]
      /\ queue[m] # <<>> => admitted[m] = RateLimit[m]
  BY <1>1 DEF GateInv, WithinLimits, QueueOnlyWhenSaturated
<1>4. /\ pc' = [pc EXCEPT ![w] = "insert"]
      /\ logs' = logs
  BY DEF Admit, Goto
<1>5. /\ WithinLimits' /\ QueueOnlyWhenSaturated'
      /\ Judged(decision'[w])
      /\ \A v \in Workers \ {w} : decision'[v] = decision[v]
  <2>1. CASE AdmitAccepted(w, m)
    <3>1. queue[m] = <<>> /\ Len(queue[m]) = 0
      BY <2>1, <1>2, <1>3 DEF AdmitAccepted
    <3>2. decision' = [decision EXCEPT ![w] =
              [request_id |-> nextId, model |-> m, disposition |-> "accepted",
               rate_limit_count |-> admitted[m] + 1, queue_depth |-> 0]]
      BY <2>1, <3>1 DEF AdmitAccepted, Decide
    <3>3. Judged(decision'[w])
      BY <3>2, <2>1, <1>2 DEF AdmitAccepted, Judged, TypeOK
    <3>4. admitted' = [admitted EXCEPT ![m] = @ + 1] /\ queue' = queue
      BY <2>1 DEF AdmitAccepted
    <3>5. WithinLimits' /\ QueueOnlyWhenSaturated'
      BY <3>1, <3>4, <2>1, <1>1, <1>2
      DEF AdmitAccepted, GateInv, WithinLimits, QueueOnlyWhenSaturated, TypeOK
    <3>. QED
      BY <3>2, <3>3, <3>5 DEF TypeOK
  <2>2. CASE AdmitDelayed(w, m)
    <3>1. admitted[m] = RateLimit[m]
      BY <2>2, <1>2, <1>3 DEF AdmitDelayed
    <3>2. decision' = [decision EXCEPT ![w] =
              [request_id |-> nextId, model |-> m, disposition |-> "delayed",
               rate_limit_count |-> admitted[m],
               queue_depth |-> Len(queue[m]) + 1]]
      BY <2>2 DEF AdmitDelayed, Decide
    <3>3. Judged(decision'[w])
      BY <3>1, <3>2, <2>2, <1>2 DEF AdmitDelayed, Judged, TypeOK
    <3>4. /\ queue' = [queue EXCEPT ![m] = Append(@, nextId)]
          /\ admitted' = admitted
          /\ Len(queue'[m]) = Len(queue[m]) + 1
      BY <2>2, <1>1, <1>2 DEF AdmitDelayed, TypeOK
    <3>5. WithinLimits' /\ QueueOnlyWhenSaturated'
      BY <3>1, <3>4, <2>2, <1>1, <1>2
      DEF AdmitDelayed, GateInv, WithinLimits, QueueOnlyWhenSaturated, TypeOK
    <3>. QED
      BY <3>2, <3>3, <3>5 DEF TypeOK
  <2>3. CASE AdmitRejected(w, m)
    <3>1. decision' = [decision EXCEPT ![w] =
              [request_id |-> nextId, model |-> m, disposition |-> "rejected",
               rate_limit_count |-> admitted[m],
               queue_depth |-> Len(queue[m])]]
      BY <2>3 DEF AdmitRejected, Decide
    <3>2. Judged(decision'[w])
      BY <3>1, <2>3, <1>2, <1>3 DEF AdmitRejected, Judged, TypeOK
    <3>3. WithinLimits' /\ QueueOnlyWhenSaturated'
      BY <2>3 DEF AdmitRejected, GateInv, WithinLimits, QueueOnlyWhenSaturated
    <3>. QED
      BY <3>1, <3>2, <3>3 DEF TypeOK
  <2>4. AdmitAccepted(w, m) \/ AdmitDelayed(w, m) \/ AdmitRejected(w, m)
    BY DEF Admit
  <2>. QED
    BY <2>1, <2>2, <2>3, <2>4
<1>6. JudgedAgainstOneState'
  <2>1. \A i \in 1..Len(logs') : Judged(logs'[i])
    BY <1>4 DEF GateInv, JudgedAgainstOneState
  <2>2. \A v \in Workers \ {w} : pc'[v] = pc[v]
    BY <1>4 DEF TypeOK
  <2>3. \A v \in Workers : pc'[v] \in Working => Judged(decision'[v])
    BY <1>5, <2>2 DEF GateInv, JudgedAgainstOneState
  <2>. QED
    BY <2>1, <2>3 DEF JudgedAgainstOneState, Judged
<1>. QED
  BY <1>5, <1>6 DEF GateInv

\* The event that joins the log was judged when it was decided.
LEMMA LogGate ==
    ASSUME TypeOK, GateInv, NEW w \in Workers, LogAdmission(w)
    PROVE  GateInv'
<1>1. logs' = Append(logs, decision[w]) /\ UNCHANGED <<admitted, queue>>
  BY DEF LogAdmission
<1>2. logs \in Seq(Decision) /\ decision[w] \in Decision /\ Judged(decision[w])
  BY DEF TypeOK, GateInv, JudgedAgainstOneState, LogAdmission, Working
<1>3. \A i \in 1..Len(logs') : Judged(logs'[i])
  <2> SUFFICES ASSUME NEW i \in 1..Len(logs') PROVE Judged(logs'[i])
    OBVIOUS
  <2>1. CASE i = Len(logs) + 1
    BY <2>1, <1>1, <1>2
  <2>2. CASE i \in 1..Len(logs)
    BY <2>2, <1>1, <1>2 DEF GateInv, JudgedAgainstOneState
  <2>. QED
    BY <2>1, <2>2, <1>1, <1>2
<1>4. \A v \in Workers : pc'[v] \in Working =>
          pc[v] \in Working /\ decision'[v] = decision[v]
  BY DEF LogAdmission, Done, Goto, TypeOK, Working
<1>. QED
  BY <1>1, <1>3, <1>4
  DEF GateInv, WithinLimits, QueueOnlyWhenSaturated, JudgedAgainstOneState,
      Judged

LEMMA NextGate == TypeOK /\ GateInv /\ [Next]_vars => GateInv'
<1> SUFFICES ASSUME TypeOK, GateInv, [Next]_vars PROVE GateInv'
  OBVIOUS
<1>1. CASE UNCHANGED vars
  BY <1>1, QuietGate DEF vars, redis, threads
<1>2. ASSUME NEW w \in Workers, Call(w) PROVE GateInv'
  BY <1>2, QuietGate
  DEF Call, LoadSubmit, LoadSpike, AdminReset, Begin, redis, TypeOK, Working
<1>3. ASSUME NEW w \in Workers, Step(w) PROVE GateInv'
  <2>1. CASE Wipe(w)
    BY <2>1, ResetGate DEF Wipe, Goto, Done, TypeOK, Working
  <2>2. CASE ClearReceipts(w)
    BY <2>2, QuietGate DEF ClearReceipts, Goto, redis, TypeOK, Working
  <2>3. CASE InsertReceipt(w)
    BY <2>3, QuietGate DEF InsertReceipt, Goto, redis, TypeOK, Working
  <2>4. CASE DispositionIncr(w)
    BY <2>4, QuietGate DEF DispositionIncr, Goto, TypeOK, Working
  <2>5. CASE ReadDepth(w)
    BY <2>5, QuietGate DEF ReadDepth, Goto, redis, TypeOK, Working
  <2>6. CASE Report(w)
    BY <2>6, QuietGate DEF Report, Done, Goto, redis, TypeOK, Working
  <2>. QED
    BY <1>3, <2>1, <2>2, <2>3, <2>4, <2>5, <2>6, AdmitGate, LogGate DEF Step
<1>4. ASSUME NEW w \in Workers, Fail(w) PROVE GateInv'
  BY <1>4, QuietGate DEF Fail, Done, Goto, redis, TypeOK, Working
<1>5. CASE Restart
  <2>1. \A v \in Workers : pc'[v] \notin Working
    BY <1>5 DEF Restart, Working
  <2>. QED
    BY <1>5, <2>1, QuietGate, ResetGate DEF Restart, redis
<1>. QED
  BY <1>1, <1>2, <1>3, <1>4, <1>5 DEF Next

\* Racing requests never pass a limit or a capacity, nobody waits while an
\* immediate admit is free, and every logged decision is right about the state
\* it saw: what the comment above _ADMIT_LUA claims, for all limits and any
\* number of threads, resets and restarts in between included.
THEOREM GateIsSafe ==
    Spec => [](WithinLimits /\ QueueOnlyWhenSaturated /\ JudgedAgainstOneState)
<1>1. GateInv => WithinLimits /\ QueueOnlyWhenSaturated /\ JudgedAgainstOneState
  BY DEF GateInv
<1>. QED
  BY <1>1, InitGate, NextGate, TypeCorrect, PTL DEF Spec

(***************************************************************************)
(* The refinement.  A ticket is drawn by the script, a verdict is dropped  *)
(* when a handler ends, the strips are renewed by the reset; every other   *)
(* step of a handler is invisible to the gate.                             *)
(***************************************************************************)
Tickets == [m \in Models |-> admitted[m] + Len(queue[m])]
Verdicts == [w \in Workers |-> decision[w].disposition]

LEMMA InitRefines == Init => Gate!Init
BY DEF Init, Gate!Init, NoDecision

LEMMA QuietRefines ==
    ASSUME UNCHANGED <<admitted, queue, decision>>
    PROVE  UNCHANGED Gate!gateVars
BY DEF Gate!gateVars

LEMMA DoneRefines ==
    ASSUME TypeOK, NEW w \in Workers,
           decision' = [decision EXCEPT ![w] = NoDecision],
           UNCHANGED <<admitted, queue>>
    PROVE  Gate!Finish(w)
<1>1. Verdicts' = [Verdicts EXCEPT ![w] = "none"]
  BY DEF Verdicts, NoDecision, TypeOK
<1>2. Tickets' = Tickets
  BY DEF Tickets
<1>. QED
  BY <1>1, <1>2 DEF Gate!Finish, Verdicts, Tickets

LEMMA ResetRefines ==
    ASSUME ResetResilience, UNCHANGED decision
    PROVE  Gate!Renew
BY DEF ResetResilience, Gate!Renew

LEMMA AdmitRefines ==
    ASSUME TypeOK, GateInv, NEW w \in Workers, Admit(w),
           NEW m \in Models, m = job[w].model
    PROVE  Gate!Draw(w, m)
<1> DEFINE n == admitted[m] + Len(queue[m])
<1>1. decision[w] = NoDecision
  BY DEF TypeOK, Admit, Working
<1>2. /\ admitted[m] \in Nat /\ queue[m] \in Seq(Nat) /\ Len(queue[m]) \in Nat
      /\ RateLimit[m] \in Nat /\ QueueCapacity[m] \in Nat
  BY <1>1, AdmissionConstants DEF TypeOK
<1>3. /\ admitted[m] <= RateLimit[m] /\ Len(queue[m]) <= QueueCapacity[m]
      /\ queue[m] # <<>> => admitted[m] = RateLimit[m]
  BY <1>1 DEF GateInv, WithinLimits, QueueOnlyWhenSaturated
<1>4. Verdicts[w] = "none"
  BY <1>1 DEF Verdicts, NoDecision
<1>5. /\ decision'[w].disposition = Gate!FateOfTicket(m, n)
      /\ \A v \in Workers \ {w} : decision'[v] = decision[v]
      /\ Tickets' = [Tickets EXCEPT ![m] =
                        IF @ < Gate!Burst(m) THEN @ + 1 ELSE @]
  <2>1. CASE AdmitAccepted(w, m)
    <3>1. queue[m] = <<>> /\ Len(queue[m]) = 0
      BY <2>1, <1>2, <1>3 DEF AdmitAccepted
    <3>2. n < RateLimit[m] /\ n < Gate!Burst(m)
      BY <2>1, <3>1, <1>2 DEF AdmitAccepted, Gate!Burst
    <3>3. /\ decision'[w].disposition = "accepted"
          /\ \A v \in Workers \ {w} : decision'[v] = decision[v]
      BY <2>1 DEF AdmitAccepted, Decide, TypeOK
    <3>4. /\ admitted'[m] + Len(queue'[m]) = n + 1
          /\ \A k \in Models \ {m} :
               admitted'[k] = admitted[k] /\ queue'[k] = queue[k]
      BY <2>1, <1>2 DEF AdmitAccepted, TypeOK
    <3>5. Tickets' = [Tickets EXCEPT ![m] = @ + 1]
      BY <3>4, <1>1 DEF Tickets
    <3>. QED
      BY <3>2, <3>3, <3>5, <1>1 DEF Tickets, Gate!FateOfTicket
  <2>2. CASE AdmitDelayed(w, m)
    <3>1. ~(n < RateLimit[m]) /\ n < Gate!Burst(m)
      BY <2>2, <1>2, <1>3 DEF AdmitDelayed, Gate!Burst
    <3>2. /\ decision'[w].disposition = "delayed"
          /\ \A v \in Workers \ {w} : decision'[v] = decision[v]
      BY <2>2 DEF AdmitDelayed, Decide, TypeOK
    <3>3. Len(queue'[m]) = Len(queue[m]) + 1
      BY <2>2, <1>1, <1>2 DEF AdmitDelayed, TypeOK
    <3>4. /\ admitted'[m] + Len(queue'[m]) = n + 1
          /\ \A k \in Models \ {m} :
               admitted'[k] = admitted[k] /\ queue'[k] = queue[k]
      BY <2>2, <3>3, <1>2 DEF AdmitDelayed, TypeOK
    <3>5. Tickets' = [Tickets EXCEPT ![m] = @ + 1]
      BY <3>4, <1>1 DEF Tickets
    <3>. QED
      BY <3>1, <3>2, <3>5, <1>1 DEF Tickets, Gate!FateOfTicket
  <2>3. CASE AdmitRejected(w, m)
    <3>1. ~(n < RateLimit[m]) /\ ~(n < Gate!Burst(m))
      BY <2>3, <1>2, <1>3 DEF AdmitRejected, Gate!Burst
    <3>2. /\ decision'[w].disposition = "rejected"
          /\ \A v \in Workers \ {w} : decision'[v] = decision[v]
      BY <2>3 DEF AdmitRejected, Decide, TypeOK
    <3>3. Tickets' = Tickets
      BY <2>3 DEF AdmitRejected, Tickets
    <3>. QED
      BY <3>1, <3>2, <3>3, <1>1 DEF Tickets, Gate!FateOfTicket
  <2>. QED
    BY <2>1, <2>2, <2>3
    DEF Admit, AdmitAccepted, AdmitDelayed, AdmitRejected
<1>6. Verdicts' = [Verdicts EXCEPT ![w] = Gate!FateOfTicket(m, Tickets[m])]
  BY <1>1, <1>5 DEF Verdicts, Tickets
<1>. QED
  BY <1>4, <1>5, <1>6 DEF Gate!Draw, Verdicts, Tickets

LEMMA StepRefines ==
    ASSUME TypeOK, GateInv, NEW w \in Workers, Step(w)
    PROVE  [Gate!Next]_(Gate!gateVars)
<1>1. CASE Wipe(w)
  <2>1. decision[w] = NoDecision
    BY <1>1 DEF Wipe, TypeOK, Working
  <2>2. UNCHANGED decision /\ ResetResilience
    BY <1>1, <2>1 DEF Wipe, Done, TypeOK
  <2>. QED
    BY <2>2, ResetRefines DEF Gate!Next
<1>2. CASE Admit(w)
  <2>1. PICK m \in Models : m = job[w].model
    BY <1>2 DEF TypeOK, Admit, Job, Working
  <2>2. Gate!Draw(w, m)
    BY <1>2, <2>1, AdmitRefines
  <2>. QED
    BY <2>2 DEF Gate!Next
<1>3. CASE LogAdmission(w)
  BY <1>3, DoneRefines DEF LogAdmission, Done, Gate!Next
<1>4. CASE Report(w)
  BY <1>4, DoneRefines DEF Report, Done, redis, Gate!Next
<1>5. CASE ClearReceipts(w) \/ InsertReceipt(w) \/ DispositionIncr(w) \/ ReadDepth(w)
  BY <1>5, QuietRefines
  DEF ClearReceipts, InsertReceipt, DispositionIncr, ReadDepth, redis
<1>. QED
  BY <1>1, <1>2, <1>3, <1>4, <1>5 DEF Step

LEMMA NextRefines ==
    TypeOK /\ GateInv /\ [Next]_vars => [Gate!Next]_(Gate!gateVars)
<1> SUFFICES ASSUME TypeOK, GateInv, [Next]_vars
             PROVE  [Gate!Next]_(Gate!gateVars)
  OBVIOUS
<1>1. CASE UNCHANGED vars
  BY <1>1, QuietRefines DEF vars, redis, threads
<1>2. ASSUME NEW w \in Workers, Call(w)
      PROVE  [Gate!Next]_(Gate!gateVars)
  BY <1>2, QuietRefines
  DEF Call, LoadSubmit, LoadSpike, AdminReset, Begin, redis
<1>3. ASSUME NEW w \in Workers, Fail(w)
      PROVE  [Gate!Next]_(Gate!gateVars)
  BY <1>3, DoneRefines DEF Fail, Done, redis, Gate!Next
<1>4. CASE Restart
  <2>1. Verdicts' = [w \in Workers |-> "none"]
    BY <1>4 DEF Restart, Verdicts, NoDecision
  <2>2. Tickets' = Tickets \/ Tickets' = [m \in Models |-> 0]
    BY <1>4 DEF Restart, ResetResilience, redis, Tickets
  <2>3. Gate!Reboot
    BY <2>1, <2>2 DEF Gate!Reboot, Verdicts, Tickets
  <2>. QED
    BY <2>3 DEF Gate!Next
<1>. QED
  BY <1>1, <1>2, <1>3, <1>4, StepRefines DEF Next

\* The counter, the list and the racing threads implement the strip of
\* tickets of AdmissionGate: the fate of every request is the class of the
\* ticket it drew, for all limits, capacities and numbers of threads.
THEOREM GateRefined == Spec => GateSpec
<1>1. Spec => []GateInv
  BY InitGate, NextGate, TypeCorrect, PTL DEF Spec
<1>. QED
  BY <1>1, TypeCorrect, InitRefines, NextRefines, PTL
  DEF Spec, GateSpec, Gate!Spec

(***************************************************************************)
(* Request ids.  No two requests share one, and a thread that is about to  *)
(* write its receipt finds no row with its id: a row is one request.       *)
(***************************************************************************)
IdsApart ==
    /\ \A r \in receipts : r.request_id < nextId
    /\ \A w \in Workers : pc[w] \in Working => decision[w].request_id < nextId
    /\ \A v, w \in Workers :
         v # w /\ pc[v] \in Working /\ pc[w] \in Working =>
            decision[v].request_id # decision[w].request_id
    /\ \A w \in Workers, r \in receipts :
         pc[w] = "insert" => r.request_id # decision[w].request_id

\* The histories, and what it means that nothing was reset: no thread is on
\* its way to a reset.
HistoryOK ==
    /\ resets \in Nat /\ faults \in Nat
    /\ IsFiniteSet(receipts)
    /\ resets = 0 => \A w \in Workers : pc[w] \notin {"wipe", "clear", "truncate"}

Apart == IdsApart /\ HistoryOK

LEMMA InitApart == Init => Apart
BY FS_EmptySet DEF Init, Apart, IdsApart, HistoryOK, Working

\* A step that adds no row and brings no new decision, and lets no thread
\* back to its insert, keeps the ids apart.
LEMMA QuietApart ==
    ASSUME IdsApart, receipts' \subseteq receipts, nextId' = nextId,
           \A v \in Workers : pc'[v] \in Working =>
               /\ pc[v] \in Working /\ decision'[v] = decision[v]
               /\ pc'[v] = "insert" => pc[v] = "insert"
    PROVE  IdsApart'
BY DEF IdsApart, Working

LEMMA AdmitApart ==
    ASSUME TypeOK, Apart, NEW w \in Workers, Admit(w)
    PROVE  Apart'
<1>1. /\ nextId \in Nat /\ nextId' = nextId + 1
      /\ pc' = [pc EXCEPT ![w] = "insert"]
      /\ UNCHANGED <<receipts, resets, faults>>
  BY DEF Admit, TypeOK, Goto, history
<1>2. /\ decision'[w].request_id = nextId
      /\ \A v \in Workers \ {w} : decision'[v] = decision[v]
  BY DEF Admit, AdmitAccepted, AdmitDelayed, AdmitRejected, Decide, TypeOK
<1>3. \A r \in receipts : r.request_id \in Nat /\ r.request_id < nextId
  BY DEF TypeOK, Receipt, Apart, IdsApart
<1>4. \A v \in Workers : pc[v] \in Working =>
        decision[v].request_id \in Nat /\ decision[v].request_id < nextId
  BY DEF TypeOK, Decision, Apart, IdsApart
<1>5. \A v \in Workers \ {w} : pc'[v] = pc[v]
  BY <1>1 DEF TypeOK
<1>6. IdsApart'
  BY <1>1, <1>2, <1>3, <1>4, <1>5 DEF Apart, IdsApart
<1>7. HistoryOK'
  BY <1>1, <1>5 DEF Apart, HistoryOK, TypeOK
<1>. QED
  BY <1>6, <1>7 DEF Apart

LEMMA InsertApart ==
    ASSUME TypeOK, Apart, NEW w \in Workers, InsertReceipt(w)
    PROVE  Apart'
<1>1. /\ pc[w] = "insert" /\ pc' = [pc EXCEPT ![w] = "tally"]
      /\ receipts' = receipts \union {ReceiptOf(decision[w])}
      /\ ReceiptOf(decision[w]).request_id = decision[w].request_id
      /\ UNCHANGED <<decision, nextId, resets, faults>>
  BY DEF InsertReceipt, Goto, ReceiptOf, history
<1>2. \A v \in Workers \ {w} : pc'[v] = pc[v]
  BY <1>1 DEF TypeOK
<1>3. pc'[w] = "tally" /\ pc[w] \in Working
  BY <1>1 DEF TypeOK, Working
<1>4. \A v \in Workers : pc'[v] \in Working => pc[v] \in Working
  BY <1>2, <1>3
<1>5. IdsApart'
  <2>1. \A r \in receipts' : r.request_id < nextId'
    BY <1>1, <1>3 DEF Apart, IdsApart
  <2>2. \A v \in Workers, r \in receipts' :
          pc'[v] = "insert" => r.request_id # decision'[v].request_id
    BY <1>1, <1>2, <1>3, <1>4 DEF Apart, IdsApart, Working
  <2>. QED
    BY <2>1, <2>2, <1>1, <1>4 DEF Apart, IdsApart
<1>6. IsFiniteSet(receipts')
  BY <1>1, FS_AddElement DEF Apart, HistoryOK
<1>7. HistoryOK'
  BY <1>1, <1>2, <1>3, <1>6 DEF Apart, HistoryOK
<1>. QED
  BY <1>5, <1>7 DEF Apart

LEMMA NextApart == TypeOK /\ Apart /\ [Next]_vars => Apart'
<1> SUFFICES ASSUME TypeOK, Apart, [Next]_vars PROVE Apart'
  OBVIOUS
<1> USE DEF Apart
<1>1. CASE UNCHANGED vars
  BY <1>1, QuietApart DEF vars, redis, threads, history, HistoryOK
<1>2. ASSUME NEW w \in Workers, Call(w) PROVE Apart'
  <2>1. /\ UNCHANGED <<receipts, decision, nextId, faults>>
        /\ \/ pc' = [pc EXCEPT ![w] = "admit"] /\ resets' = resets
           \/ pc' = [pc EXCEPT ![w] = "wipe"] /\ resets' = resets + 1
           \/ pc' = [pc EXCEPT ![w] = "truncate"] /\ resets' = resets + 1
    <3>1. CASE \E m \in Models : LoadSubmit(w, m)
      BY <3>1 DEF LoadSubmit, Begin
    <3>2. CASE \E m \in Models, n \in 1..MaxCount : LoadSpike(w, m, n)
      BY <3>2 DEF LoadSpike, Begin
    <3>3. CASE AdminReset(w)
      BY <3>3 DEF AdminReset, Begin
    <3>. QED
      BY <1>2, <3>1, <3>2, <3>3 DEF Call
  <2>2. IdsApart'
    BY <2>1, QuietApart DEF TypeOK, Working
  <2>. QED
    BY <2>1, <2>2 DEF HistoryOK, TypeOK
<1>3. ASSUME NEW w \in Workers, Step(w) PROVE Apart'
  <2>1. CASE Wipe(w)
    <3>1. IdsApart'
      BY <2>1, QuietApart DEF Wipe, Done, Goto, TypeOK, Working
    <3>. QED
      BY <2>1, <3>1 DEF HistoryOK, Wipe, Done, Goto, TypeOK, history
  <2>2. CASE ClearReceipts(w)
    <3>1. IdsApart'
      BY <2>2, QuietApart DEF ClearReceipts, Goto, TypeOK, Working
    <3>. QED
      BY <2>2, <3>1, FS_EmptySet
      DEF HistoryOK, ClearReceipts, Goto, TypeOK, history
  <2>3. CASE DispositionIncr(w)
    <3>1. IdsApart'
      BY <2>3, QuietApart DEF DispositionIncr, Goto, TypeOK, Working
    <3>. QED
      BY <2>3, <3>1 DEF HistoryOK, DispositionIncr, Goto, TypeOK, history
  <2>4. CASE LogAdmission(w)
    <3>1. \/ pc' = [pc EXCEPT ![w] = "idle"]
          \/ pc' = [pc EXCEPT ![w] = "admit"]
          \/ pc' = [pc EXCEPT ![w] = "depth"]
      BY <2>4 DEF LogAdmission, Done, Goto
    <3>2. decision' = [decision EXCEPT ![w] = NoDecision]
      BY <2>4 DEF LogAdmission, Done
    <3>3. UNCHANGED <<receipts, nextId, resets, faults>>
      BY <2>4 DEF LogAdmission
    <3>4. IdsApart'
      BY <3>1, <3>2, <3>3, QuietApart DEF TypeOK, Working
    <3>. QED
      BY <3>1, <3>3, <3>4 DEF HistoryOK, TypeOK
  <2>5. CASE ReadDepth(w)
    <3>1. IdsApart'
      BY <2>5, QuietApart DEF ReadDepth, Goto, TypeOK, Working
    <3>. QED
      BY <2>5, <3>1 DEF HistoryOK, ReadDepth, Goto, TypeOK, history
  <2>6. CASE Report(w)
    <3>1. IdsApart'
      BY <2>6, QuietApart DEF Report, Done, Goto, TypeOK, Working
    <3>. QED
      BY <2>6, <3>1 DEF HistoryOK, Report, Done, Goto, TypeOK
  <2>. QED
    BY <1>3, <2>1, <2>2, <2>3, <2>4, <2>5, <2>6, AdmitApart, InsertApart
    DEF Step
<1>4. ASSUME NEW w \in Workers, Fail(w) PROVE Apart'
  <2>1. IdsApart'
    BY <1>4, QuietApart DEF Fail, Done, Goto, TypeOK, Working
  <2>. QED
    BY <1>4, <2>1 DEF HistoryOK, Fail, Done, Goto, TypeOK
<1>5. CASE Restart
  <2>1. IdsApart'
    BY <1>5, QuietApart DEF Restart, Working
  <2>. QED
    BY <1>5, <2>1 DEF HistoryOK, Restart
<1>. QED
  BY <1>1, <1>2, <1>3, <1>4, <1>5 DEF Next

(***************************************************************************)
(* Behaviours without a reset.  A step of one is one of the four writes of *)
(* submit_one, or it leaves the stores alone and at most takes a decision  *)
(* away from a thread that failed.                                         *)
(***************************************************************************)
Records(w) == Admit(w) \/ InsertReceipt(w) \/ DispositionIncr(w) \/ LogAdmission(w)

Quiet ==
    /\ UNCHANGED <<admitted, queue, tally, logs, receipts, replies, nextId>>
    /\ \A v \in Workers : pc'[v] \in Working =>
         pc'[v] = pc[v] /\ decision'[v] = decision[v]
    /\ \/ /\ faults' = faults
          /\ \A v \in Workers : pc[v] \in Working => pc'[v] = pc[v]
       \/ faults' = faults + 1

LEMMA UnresetStep ==
    ASSUME TypeOK, HistoryOK, [Next]_vars, resets' = 0
    PROVE  resets = 0 /\ (Quiet \/ \E w \in Workers : Records(w))
<1>1. resets = 0
  <2>1. resets' = resets \/ resets' = resets + 1
    BY DEF Next, Call, LoadSubmit, LoadSpike, AdminReset, Step, Wipe,
           ClearReceipts, Admit, InsertReceipt, DispositionIncr, LogAdmission,
           ReadDepth, Report, Fail, Restart, vars, history
  <2>. QED
    BY <2>1 DEF HistoryOK
<1>2. \A w \in Workers : pc[w] \notin {"wipe", "clear", "truncate"}
  BY <1>1 DEF HistoryOK
<1>3. CASE UNCHANGED vars
  BY <1>3 DEF Quiet, vars, redis, threads, history
<1>4. ASSUME NEW w \in Workers, Call(w) PROVE Quiet
  <2>1. /\ UNCHANGED <<redis, receipts, replies, nextId, decision, faults>>
        /\ pc[w] = "idle"
        /\ \E at \in {"admit", "wipe", "truncate"} : pc' = [pc EXCEPT ![w] = at]
    <3>1. CASE \E m \in Models : LoadSubmit(w, m)
      BY <3>1 DEF LoadSubmit, Begin, Idle
    <3>2. CASE \E m \in Models, n \in 1..MaxCount : LoadSpike(w, m, n)
      BY <3>2 DEF LoadSpike, Begin, Idle
    <3>3. CASE AdminReset(w)
      BY <3>3 DEF AdminReset, Begin, Idle
    <3>. QED
      BY <1>4, <3>1, <3>2, <3>3 DEF Call
  <2>. QED
    BY <2>1 DEF Quiet, redis, TypeOK, Working
<1>5. ASSUME NEW w \in Workers, Step(w) PROVE Quiet \/ Records(w)
  <2>1. CASE ReadDepth(w)
    BY <2>1 DEF ReadDepth, Goto, redis, history, TypeOK, Working, Quiet
  <2>2. CASE Report(w)
    BY <2>2 DEF Report, Done, Goto, redis, TypeOK, Working, Quiet
  <2>3. ~Wipe(w) /\ ~ClearReceipts(w)
    BY <1>2 DEF Wipe, ClearReceipts
  <2>. QED
    BY <1>5, <2>1, <2>2, <2>3 DEF Step, Records
<1>6. ASSUME NEW w \in Workers, Fail(w) PROVE Quiet
  BY <1>6 DEF Fail, Done, Goto, redis, TypeOK, Working, Quiet
<1>7. CASE Restart
  <2>1. /\ UNCHANGED <<admitted, queue, tally, logs, receipts, replies, nextId>>
        /\ faults' = faults + 1
        /\ \A v \in Workers : pc'[v] = "idle"
    BY <1>1, <1>7 DEF Restart, redis
  <2>. QED
    BY <1>1, <2>1 DEF Working, Quiet
<1>. QED
  BY <1>1, <1>3, <1>4, <1>5, <1>6, <1>7 DEF Next

(***************************************************************************)
(* The books.  The parts of BooksBalance, in the sets that one step changes*)
(* by one member: the rows of a fate in a tier, and the threads about to   *)
(* write one.                                                              *)
(***************************************************************************)
Won(f, m) == OfModel(Fated(f), m)

Entering(f, m) == {w \in Holding(f, "insert") : decision[w].model = m}

GateBooks == \A m \in Models :
    /\ Covers(admitted[m], Cardinality(Won("accepted", m)) +
                           Cardinality(Entering("accepted", m)))
    /\ Covers(Len(queue[m]), Cardinality(Won("delayed", m)) +
                             Cardinality(Entering("delayed", m)))

TallyBooks == \A f \in Fates :
    Covers(Cardinality(Fated(f)), tally[f] + Cardinality(Holding(f, "tally")))

LogBooks == \A f \in Fates :
    Covers(tally[f], Cardinality(Logged(f)) + Cardinality(Holding(f, "log")))

Books == GateBooks /\ TallyBooks /\ LogBooks

LEMMA BooksParts == BooksBalance <=> (resets = 0 => Books)
BY DEF BooksBalance, Books, GateBooks, TallyBooks, LogBooks, Won, Entering

\* All the sets that are counted are finite.
LEMMA Countable ==
    ASSUME TypeOK, HistoryOK
    PROVE  /\ \A f : /\ IsFiniteSet(Fated(f)) /\ Cardinality(Fated(f)) \in Nat
                     /\ IsFiniteSet(Logged(f)) /\ Cardinality(Logged(f)) \in Nat
           /\ \A f, at : /\ IsFiniteSet(Holding(f, at))
                         /\ Cardinality(Holding(f, at)) \in Nat
           /\ \A f, m : /\ IsFiniteSet(Won(f, m)) /\ Cardinality(Won(f, m)) \in Nat
                        /\ IsFiniteSet(Entering(f, m))
                        /\ Cardinality(Entering(f, m)) \in Nat
<1>1. \A f, m : Won(f, m) \subseteq Fated(f) /\ Fated(f) \subseteq receipts
  BY DEF Won, OfModel, Fated
<1>2. \A f, m : Entering(f, m) \subseteq Workers
  BY DEF Entering, Holding
<1>3. \A f, at : Holding(f, at) \subseteq Workers
  BY DEF Holding
<1>4. \A f : Logged(f) \subseteq 1..Len(logs)
  BY DEF Logged
<1>5. IsFiniteSet(1..Len(logs))
  BY FS_Interval DEF TypeOK
<1>6. \A S, T : IsFiniteSet(T) /\ S \subseteq T =>
        IsFiniteSet(S) /\ Cardinality(S) \in Nat
  BY FS_Subset, FS_CardinalityType
<1>. QED
  BY <1>1, <1>2, <1>3, <1>4, <1>5, <1>6, FinitePool DEF HistoryOK

\* One member more, one member less.
LEMMA OneMore ==
    ASSUME NEW S, IsFiniteSet(S), NEW x, x \notin S
    PROVE  Cardinality(S \union {x}) = Cardinality(S) + 1
BY FS_AddElement

LEMMA OneLess ==
    ASSUME NEW S, IsFiniteSet(S), NEW x \in S
    PROVE  Cardinality(S) = Cardinality(S \ {x}) + 1
<1>1. Cardinality(S) \in Nat
  BY FS_CardinalityType
<1>2. Cardinality(S \ {x}) = Cardinality(S) - 1
  BY FS_RemoveElement
<1>. QED
  BY <1>1, <1>2

\* A step that leaves the stores alone and brings no thread a decision: only a
\* fault may take one away.
LEMMA QuietBooks ==
    ASSUME TypeOK, HistoryOK, TypeOK', HistoryOK', Books,
           UNCHANGED <<admitted, queue, tally, logs, receipts>>,
           \A v \in Workers : pc'[v] \in Working =>
               pc'[v] = pc[v] /\ decision'[v] = decision[v],
           \/ /\ faults' = faults
              /\ \A v \in Workers : pc[v] \in Working => pc'[v] = pc[v]
           \/ faults' = faults + 1
    PROVE  Books'
<1>1. /\ \A f : Fated(f)' = Fated(f) /\ Logged(f)' = Logged(f)
      /\ \A f, m : Won(f, m)' = Won(f, m)
  BY DEF Fated, Logged, Won, OfModel
<1>2. /\ \A f, m : Entering(f, m)' \subseteq Entering(f, m)
      /\ \A f, at : at \in Working => Holding(f, at)' \subseteq Holding(f, at)
  BY DEF Entering, Holding, Working
<1>3. faults' = faults =>
        /\ \A f, m : Entering(f, m)' = Entering(f, m)
        /\ \A f, at : at \in Working => Holding(f, at)' = Holding(f, at)
  <2> SUFFICES ASSUME faults' = faults
               PROVE  /\ \A f, m : Entering(f, m)' = Entering(f, m)
                      /\ \A f, at : at \in Working => Holding(f, at)' = Holding(f, at)
    OBVIOUS
  <2>1. faults \in Nat
    BY DEF HistoryOK
  <2>2. \A v \in Workers : pc[v] \in Working =>
            pc'[v] = pc[v] /\ decision'[v] = decision[v]
    BY <2>1
  <2>3. /\ \A f, m : Entering(f, m) \subseteq Entering(f, m)'
        /\ \A f, at : at \in Working => Holding(f, at) \subseteq Holding(f, at)'
    BY <2>2 DEF Entering, Holding, Working
  <2>. QED
    BY <2>3, <1>2
<1>4. /\ \A f, m : Cardinality(Entering(f, m)') <= Cardinality(Entering(f, m))
      /\ \A f, at : at \in Working =>
            Cardinality(Holding(f, at)') <= Cardinality(Holding(f, at))
  BY <1>2, Countable, FS_Subset
<1>5. /\ \A f, m : Cardinality(Entering(f, m)') \in Nat
      /\ \A f, at : at \in Working => Cardinality(Holding(f, at)') \in Nat
  <2>1. \A S, T : IsFiniteSet(T) /\ S \subseteq T => Cardinality(S) \in Nat
    BY FS_Subset, FS_CardinalityType
  <2>. QED
    BY <2>1, <1>2, Countable
<1>6. /\ faults \in Nat /\ (faults' = faults \/ faults' = faults + 1)
      /\ admitted \in [Models -> Nat] /\ queue \in [Models -> Seq(Nat)]
      /\ tally \in [Fates -> Nat]
  BY DEF TypeOK, HistoryOK
<1>7. GateBooks'
  BY <1>1, <1>3, <1>4, <1>5, <1>6, Countable DEF Books, GateBooks, Covers
<1>8. TallyBooks' /\ LogBooks'
  BY <1>1, <1>3, <1>4, <1>5, <1>6, Countable
  DEF Books, TallyBooks, LogBooks, Covers, Working
<1>. QED
  BY <1>7, <1>8 DEF Books

\* The script: the counter or the list grows with the threads about to write.
LEMMA AdmitBooks ==
    ASSUME TypeOK, Apart, Books, NEW w \in Workers, Admit(w)
    PROVE  Books'
<1> DEFINE m == job[w].model
           d == decision'[w]
<1>1. /\ pc[w] = "admit" /\ pc' = [pc EXCEPT ![w] = "insert"]
      /\ UNCHANGED <<tally, logs, receipts, faults>>
      /\ m \in Models
  BY DEF Admit, Goto, history, TypeOK, Job, Working
<1>2. d.model = m /\ \A v \in Workers \ {w} : decision'[v] = decision[v]
  BY DEF Admit, AdmitAccepted, AdmitDelayed, AdmitRejected, Decide, TypeOK
<1>3. pc'[w] = "insert" /\ \A v \in Workers \ {w} : pc'[v] = pc[v]
  BY <1>1 DEF TypeOK
<1>4. /\ \A f : Fated(f)' = Fated(f) /\ Logged(f)' = Logged(f)
      /\ \A f, k : Won(f, k)' = Won(f, k)
  BY <1>1 DEF Fated, Logged, Won, OfModel
<1>5. \A f : /\ Holding(f, "tally")' = Holding(f, "tally")
             /\ Holding(f, "log")' = Holding(f, "log")
  BY <1>1, <1>2, <1>3 DEF Holding
<1>6. \A f, k : w \notin Entering(f, k)
  BY <1>1 DEF Entering, Holding
<1>7. \A f, k : Entering(f, k)' = IF f = d.disposition /\ k = m
                                  THEN Entering(f, k) \union {w}
                                  ELSE Entering(f, k)
  BY <1>1, <1>2, <1>3 DEF Entering, Holding
<1>8. \A f, k : Cardinality(Entering(f, k)') =
                  IF f = d.disposition /\ k = m
                  THEN Cardinality(Entering(f, k)) + 1
                  ELSE Cardinality(Entering(f, k))
  BY <1>6, <1>7, OneMore, Countable DEF Apart
<1>9. /\ \A k \in Models : admitted[k] \in Nat /\ queue[k] \in Seq(Nat)
                           /\ Len(queue[k]) \in Nat
      /\ \A f, k : /\ Cardinality(Entering(f, k)) \in Nat
                   /\ Cardinality(Won(f, k)) \in Nat
  BY Countable DEF TypeOK, Apart
<1>10. GateBooks'
  <2>1. \A k \in Models :
          /\ admitted'[k] = IF d.disposition = "accepted" /\ k = m
                            THEN admitted[k] + 1 ELSE admitted[k]
          /\ Len(queue'[k]) = IF d.disposition = "delayed" /\ k = m
                              THEN Len(queue[k]) + 1 ELSE Len(queue[k])
    <3>1. CASE AdmitAccepted(w, m)
      <4>1. d.disposition = "accepted"
        BY <3>1 DEF AdmitAccepted, Decide, TypeOK
      <4>. QED
        BY <3>1, <4>1 DEF AdmitAccepted, TypeOK
    <3>2. CASE AdmitDelayed(w, m)
      <4>1. d.disposition = "delayed"
        BY <3>2 DEF AdmitDelayed, Decide, TypeOK
      <4>2. Len(Append(queue[m], nextId)) = Len(queue[m]) + 1
        BY <1>1, <1>9 DEF TypeOK
      <4>. QED
        BY <3>2, <4>1, <4>2 DEF AdmitDelayed, TypeOK
    <3>3. CASE AdmitRejected(w, m)
      <4>1. d.disposition = "rejected"
        BY <3>3 DEF AdmitRejected, Decide, TypeOK
      <4>. QED
        BY <3>3, <4>1 DEF AdmitRejected, TypeOK
    <3>. QED
      BY <3>1, <3>2, <3>3 DEF Admit
  <2> SUFFICES ASSUME NEW k \in Models
               PROVE  /\ Covers(admitted[k], Cardinality(Won("accepted", k)) +
                                             Cardinality(Entering("accepted", k)))'
                      /\ Covers(Len(queue[k]), Cardinality(Won("delayed", k)) +
                                               Cardinality(Entering("delayed", k)))'
    BY DEF GateBooks
  <2>2. /\ Covers(admitted[k], Cardinality(Won("accepted", k)) +
                               Cardinality(Entering("accepted", k)))
        /\ Covers(Len(queue[k]), Cardinality(Won("delayed", k)) +
                                 Cardinality(Entering("delayed", k)))
    BY DEF Books, GateBooks
  <2>3. faults' = faults /\ \A f : Won(f, k)' = Won(f, k)
    BY <1>1, <1>4
  <2> HIDE DEF m, d
  <2>4. ASSUME NEW f, NEW old, NEW new, old \in Nat,
               Covers(old, Cardinality(Won(f, k)) + Cardinality(Entering(f, k))),
               new = IF f = d.disposition /\ k = m THEN old + 1 ELSE old
        PROVE  new >= Cardinality(Won(f, k)') + Cardinality(Entering(f, k)') /\
               (faults' = 0 =>
                  new = Cardinality(Won(f, k)') + Cardinality(Entering(f, k)'))
    <3>1. Cardinality(Entering(f, k)') =
            IF f = d.disposition /\ k = m THEN Cardinality(Entering(f, k)) + 1
                                          ELSE Cardinality(Entering(f, k))
      BY <1>8
    <3>2. Cardinality(Won(f, k)') = Cardinality(Won(f, k)) /\ faults' = faults
      BY <2>3
    <3>3. Cardinality(Won(f, k)) \in Nat /\ Cardinality(Entering(f, k)) \in Nat
      BY <1>9
    <3>. QED
      BY <2>4, <3>1, <3>2, <3>3 DEF Covers
  <2>5. admitted[k] \in Nat /\ Len(queue[k]) \in Nat
    BY <1>9
  <2>6. /\ admitted'[k] = IF "accepted" = d.disposition /\ k = m
                          THEN admitted[k] + 1 ELSE admitted[k]
        /\ Len(queue'[k]) = IF "delayed" = d.disposition /\ k = m
                            THEN Len(queue[k]) + 1 ELSE Len(queue[k])
    BY <2>1
  <2>7. Covers(admitted[k], Cardinality(Won("accepted", k)) +
                            Cardinality(Entering("accepted", k)))'
    BY <2>4, <2>2, <2>5, <2>6 DEF Covers
  <2>8. Covers(Len(queue[k]), Cardinality(Won("delayed", k)) +
                              Cardinality(Entering("delayed", k)))'
    BY <2>4, <2>2, <2>5, <2>6 DEF Covers
  <2>. QED
    BY <2>7, <2>8
<1>11. TallyBooks' /\ LogBooks'
  BY <1>1, <1>4, <1>5 DEF Books, TallyBooks, LogBooks, Covers
<1>. QED
  BY <1>10, <1>11 DEF Books

\* The receipt: a row more, a thread about to write it less, and one more that
\* is about to tally.
LEMMA InsertBooks ==
    ASSUME TypeOK, Apart, Books, NEW w \in Workers, InsertReceipt(w)
    PROVE  Books'
<1> DEFINE d == decision[w]
           row == ReceiptOf(d)
<1>1. /\ pc[w] = "insert" /\ pc' = [pc EXCEPT ![w] = "tally"]
      /\ receipts' = receipts \union {row}
      /\ UNCHANGED <<admitted, queue, tally, logs, decision, faults>>
  BY DEF InsertReceipt, Goto, redis, history
<1>2. /\ row.disposition = d.disposition /\ row.model = d.model
      /\ row \notin receipts
  BY <1>1 DEF ReceiptOf, Apart, IdsApart
<1>3. pc'[w] = "tally" /\ \A v \in Workers \ {w} : pc'[v] = pc[v]
  BY <1>1 DEF TypeOK
<1>4. \A f : /\ Fated(f)' = IF f = d.disposition THEN Fated(f) \union {row}
                            ELSE Fated(f)
             /\ row \notin Fated(f)
             /\ Logged(f)' = Logged(f)
  BY <1>1, <1>2 DEF Fated, Logged
<1>5. \A f, k : /\ Won(f, k)' = IF f = d.disposition /\ k = d.model
                                THEN Won(f, k) \union {row} ELSE Won(f, k)
                /\ row \notin Won(f, k)
  BY <1>1, <1>2 DEF Won, OfModel, Fated
<1>6. \A f, k : /\ Entering(f, k)' = IF f = d.disposition /\ k = d.model
                                     THEN Entering(f, k) \ {w}
                                     ELSE Entering(f, k)
                /\ f = d.disposition /\ k = d.model => w \in Entering(f, k)
  BY <1>1, <1>3 DEF Entering, Holding
<1>7. \A f : /\ Holding(f, "tally")' = IF f = d.disposition
                                       THEN Holding(f, "tally") \union {w}
                                       ELSE Holding(f, "tally")
             /\ w \notin Holding(f, "tally")
             /\ Holding(f, "log")' = Holding(f, "log")
  BY <1>1, <1>3 DEF Holding
<1>8. \A f, k : Cardinality(Won(f, k)') + Cardinality(Entering(f, k)')
                  = Cardinality(Won(f, k)) + Cardinality(Entering(f, k))
  <2> SUFFICES ASSUME NEW f, NEW k
               PROVE  Cardinality(Won(f, k)') + Cardinality(Entering(f, k)')
                        = Cardinality(Won(f, k)) + Cardinality(Entering(f, k))
    OBVIOUS
  <2>1. CASE f = d.disposition /\ k = d.model
    <3>1. Cardinality(Won(f, k)') = Cardinality(Won(f, k)) + 1
      BY <2>1, <1>5, OneMore, Countable DEF Apart
    <3>2. Cardinality(Entering(f, k)) = Cardinality(Entering(f, k)') + 1
      BY <2>1, <1>6, OneLess, Countable DEF Apart
    <3>3. /\ IsFiniteSet(Entering(f, k)')
          /\ Cardinality(Entering(f, k)') \in Nat
      BY <2>1, <1>6, Countable, FS_RemoveElement, FS_CardinalityType DEF Apart
    <3>. QED
      BY <3>1, <3>2, <3>3, Countable DEF Apart
  <2>2. CASE ~(f = d.disposition /\ k = d.model)
    BY <2>2, <1>5, <1>6
  <2>. QED
    BY <2>1, <2>2
<1>9. \A f : /\ Cardinality(Fated(f)') = IF f = d.disposition
                                         THEN Cardinality(Fated(f)) + 1
                                         ELSE Cardinality(Fated(f))
             /\ Cardinality(Holding(f, "tally")') =
                  IF f = d.disposition THEN Cardinality(Holding(f, "tally")) + 1
                  ELSE Cardinality(Holding(f, "tally"))
  BY <1>4, <1>7, OneMore, Countable DEF Apart
<1>10. GateBooks'
  BY <1>1, <1>8 DEF Books, GateBooks, Covers
<1>11. TallyBooks'
  <2> SUFFICES ASSUME NEW f \in Fates
               PROVE  Covers(Cardinality(Fated(f)),
                             tally[f] + Cardinality(Holding(f, "tally")))'
    BY DEF TallyBooks
  <2>1. /\ tally[f] \in Nat /\ Cardinality(Fated(f)) \in Nat
        /\ Cardinality(Holding(f, "tally")) \in Nat
    BY Countable DEF TypeOK, Apart
  <2>2. Covers(Cardinality(Fated(f)), tally[f] + Cardinality(Holding(f, "tally")))
    BY DEF Books, TallyBooks
  <2>. QED
    BY <1>1, <1>9, <2>1, <2>2 DEF Covers
<1>12. LogBooks'
  BY <1>1, <1>4, <1>7 DEF Books, LogBooks, Covers
<1>. QED
  BY <1>10, <1>11, <1>12 DEF Books

\* The tally counts what it no longer expects.
LEMMA TallyBooksStep ==
    ASSUME TypeOK, Apart, Books, NEW w \in Workers, DispositionIncr(w)
    PROVE  Books'
<1> DEFINE d == decision[w]
<1>1. /\ pc[w] = "tally" /\ pc' = [pc EXCEPT ![w] = "log"]
      /\ tally' = [tally EXCEPT ![d.disposition] = @ + 1]
      /\ UNCHANGED <<admitted, queue, logs, receipts, decision, faults>>
      /\ d.disposition \in Fates
  BY DEF DispositionIncr, Goto, history, TypeOK, Decision, Working
<1>2. pc'[w] = "log" /\ \A v \in Workers \ {w} : pc'[v] = pc[v]
  BY <1>1 DEF TypeOK
<1>3. /\ \A f : Fated(f)' = Fated(f) /\ Logged(f)' = Logged(f)
      /\ \A f, k : Won(f, k)' = Won(f, k)
  BY <1>1 DEF Fated, Logged, Won, OfModel
<1>4. \A f, k : Entering(f, k)' = Entering(f, k)
  BY <1>1, <1>2 DEF Entering, Holding
<1>5. \A f : /\ Holding(f, "tally")' = IF f = d.disposition
                                       THEN Holding(f, "tally") \ {w}
                                       ELSE Holding(f, "tally")
             /\ f = d.disposition => w \in Holding(f, "tally")
             /\ Holding(f, "log")' = IF f = d.disposition
                                     THEN Holding(f, "log") \union {w}
                                     ELSE Holding(f, "log")
             /\ w \notin Holding(f, "log")
  BY <1>1, <1>2 DEF Holding
<1>6. GateBooks'
  BY <1>1, <1>3, <1>4 DEF Books, GateBooks, Covers
<1>7. ASSUME NEW f \in Fates
      PROVE  /\ Covers(Cardinality(Fated(f)),
                       tally[f] + Cardinality(Holding(f, "tally")))'
             /\ Covers(tally[f], Cardinality(Logged(f)) +
                                 Cardinality(Holding(f, "log")))'
  <2>1. /\ Covers(Cardinality(Fated(f)), tally[f] + Cardinality(Holding(f, "tally")))
        /\ Covers(tally[f], Cardinality(Logged(f)) + Cardinality(Holding(f, "log")))
    BY DEF Books, TallyBooks, LogBooks
  <2>2. CASE f = d.disposition
    <3>1. Cardinality(Holding(f, "tally")) = Cardinality(Holding(f, "tally")') + 1
      BY <2>2, <1>5, OneLess, Countable DEF Apart
    <3>2. Cardinality(Holding(f, "tally")') \in Nat
      BY <2>2, <1>5, Countable, FS_RemoveElement, FS_CardinalityType DEF Apart
    <3>3. Cardinality(Holding(f, "log")') = Cardinality(Holding(f, "log")) + 1
      BY <2>2, <1>5, OneMore, Countable DEF Apart
    <3>4. tally'[f] = tally[f] + 1 /\ tally[f] \in Nat
      BY <2>2, <1>1 DEF TypeOK
    <3>5. /\ Cardinality(Fated(f)) \in Nat /\ Cardinality(Logged(f)) \in Nat
          /\ Cardinality(Holding(f, "log")) \in Nat
      BY Countable DEF Apart
    <3>. QED
      BY <2>1, <3>1, <3>2, <3>3, <3>4, <3>5, <1>1, <1>3 DEF Covers
  <2>3. CASE f # d.disposition
    BY <2>1, <2>3, <1>1, <1>3, <1>5 DEF Covers, TypeOK
  <2>. QED
    BY <2>2, <2>3
<1>. QED
  BY <1>6, <1>7 DEF Books, TallyBooks, LogBooks

\* The event is in the log, and the thread no longer holds it.
LEMMA LogBooksStep ==
    ASSUME TypeOK, Apart, Books, NEW w \in Workers, LogAdmission(w)
    PROVE  Books'
<1> DEFINE d == decision[w]
           n == Len(logs)
<1>1. /\ pc[w] = "log" /\ logs' = Append(logs, d)
      /\ \/ pc' = [pc EXCEPT ![w] = "idle"]
         \/ pc' = [pc EXCEPT ![w] = "admit"]
         \/ pc' = [pc EXCEPT ![w] = "depth"]
      /\ decision' = [decision EXCEPT ![w] = NoDecision]
      /\ UNCHANGED <<admitted, queue, tally, receipts, faults>>
  BY DEF LogAdmission, Done, Goto
<1>2. d \in Decision /\ d.disposition \in Fates /\ logs \in Seq(Decision) /\ n \in Nat
  BY <1>1 DEF TypeOK, Decision, Working
<1>3. pc'[w] \notin Working /\ \A v \in Workers \ {w} :
          pc'[v] = pc[v] /\ decision'[v] = decision[v]
  BY <1>1 DEF TypeOK, Working
<1>4. /\ \A f : Fated(f)' = Fated(f)
      /\ \A f, k : Won(f, k)' = Won(f, k)
  BY <1>1 DEF Fated, Won, OfModel
<1>5. /\ \A f, k : Entering(f, k)' = Entering(f, k)
      /\ \A f : Holding(f, "tally")' = Holding(f, "tally")
  BY <1>1, <1>3 DEF Entering, Holding, Working
<1>6. \A f : /\ Holding(f, "log")' = IF f = d.disposition
                                     THEN Holding(f, "log") \ {w}
                                     ELSE Holding(f, "log")
             /\ f = d.disposition => w \in Holding(f, "log")
  BY <1>1, <1>3 DEF Holding, Working
<1>7. /\ Len(logs') = n + 1 /\ logs'[n + 1] = d
      /\ \A i \in 1..n : logs'[i] = logs[i]
  BY <1>1, <1>2
<1>8. \A f : /\ Logged(f)' = IF f = d.disposition THEN Logged(f) \union {n + 1}
                             ELSE Logged(f)
             /\ n + 1 \notin Logged(f)
  BY <1>2, <1>7 DEF Logged
<1>9. GateBooks' /\ TallyBooks'
  BY <1>1, <1>4, <1>5 DEF Books, GateBooks, TallyBooks, Covers
<1>10. ASSUME NEW f \in Fates
       PROVE  Covers(tally[f], Cardinality(Logged(f)) +
                               Cardinality(Holding(f, "log")))'
  <2>1. Covers(tally[f], Cardinality(Logged(f)) + Cardinality(Holding(f, "log")))
    BY DEF Books, LogBooks
  <2>2. CASE f = d.disposition
    <3>1. Cardinality(Logged(f)') = Cardinality(Logged(f)) + 1
      BY <2>2, <1>8, OneMore, Countable DEF Apart
    <3>2. Cardinality(Holding(f, "log")) = Cardinality(Holding(f, "log")') + 1
      BY <2>2, <1>6, OneLess, Countable DEF Apart
    <3>3. Cardinality(Holding(f, "log")') \in Nat
      BY <2>2, <1>6, Countable, FS_RemoveElement, FS_CardinalityType DEF Apart
    <3>4. Cardinality(Logged(f)) \in Nat
      BY Countable DEF Apart
    <3>5. tally'[f] = tally[f] /\ tally[f] \in Nat /\ faults' = faults
      BY <1>1 DEF TypeOK
    <3>6. Cardinality(Logged(f)') + Cardinality(Holding(f, "log")') =
            Cardinality(Logged(f)) + Cardinality(Holding(f, "log"))
      BY <3>1, <3>2, <3>3, <3>4
    <3>. QED
      BY <2>1, <3>5, <3>6 DEF Covers
  <2>3. CASE f # d.disposition
    BY <2>1, <2>3, <1>1, <1>6, <1>8 DEF Covers
  <2>. QED
    BY <2>2, <2>3
<1>. QED
  BY <1>9, <1>10 DEF Books, LogBooks

\* The books balance as long as nothing was reset.
BooksInv == resets = 0 => Books

LEMMA InitBooks == Init => BooksInv
<1> SUFFICES ASSUME Init PROVE Books
  BY DEF BooksInv
<1>1. /\ receipts = {} /\ logs = <<>> /\ tally = [f \in Fates |-> 0]
      /\ admitted = [m \in Models |-> 0] /\ queue = [m \in Models |-> <<>>]
      /\ \A w \in Workers : pc[w] = "idle"
  BY DEF Init, NoCounts
<1>2. /\ \A f : Fated(f) = {} /\ Logged(f) = {}
      /\ \A f, m : Won(f, m) = {} /\ Entering(f, m) = {}
      /\ \A f, at : at \in Working => Holding(f, at) = {}
  BY <1>1 DEF Fated, Logged, Won, OfModel, Entering, Holding, Working
<1>3. Cardinality({}) = 0
  BY FS_EmptySet
<1>4. GateBooks
  <2> SUFFICES ASSUME NEW m \in Models, NEW f
               PROVE  /\ Covers(admitted[m], Cardinality(Won(f, m)) +
                                             Cardinality(Entering(f, m)))
                      /\ Covers(Len(queue[m]), Cardinality(Won(f, m)) +
                                               Cardinality(Entering(f, m)))
    BY DEF GateBooks
  <2>1. admitted[m] = 0 /\ Len(queue[m]) = 0
    BY <1>1
  <2>2. Cardinality(Won(f, m)) = 0 /\ Cardinality(Entering(f, m)) = 0
    BY <1>2, <1>3
  <2>. QED
    BY <2>1, <2>2 DEF Covers
<1>5. ASSUME NEW f \in Fates
      PROVE  /\ Covers(Cardinality(Fated(f)), tally[f] + Cardinality(Holding(f, "tally")))
             /\ Covers(tally[f], Cardinality(Logged(f)) + Cardinality(Holding(f, "log")))
  <2>1. tally[f] = 0
    BY <1>1
  <2>2. /\ Cardinality(Fated(f)) = 0 /\ Cardinality(Logged(f)) = 0
        /\ Cardinality(Holding(f, "tally")) = 0
        /\ Cardinality(Holding(f, "log")) = 0
    BY <1>2, <1>3 DEF Working
  <2>. QED
    BY <2>1, <2>2 DEF Covers
<1>. QED
  BY <1>4, <1>5 DEF Books, TallyBooks, LogBooks

LEMMA NextBooks ==
    TypeOK /\ TypeOK' /\ Apart /\ Apart' /\ BooksInv /\ [Next]_vars => BooksInv'
<1> SUFFICES ASSUME TypeOK, TypeOK', Apart, Apart', BooksInv, [Next]_vars,
                    resets' = 0
             PROVE  Books'
  BY DEF BooksInv
<1>1. resets = 0 /\ (Quiet \/ \E w \in Workers : Records(w))
  BY UnresetStep DEF Apart
<1>2. CASE Quiet
  BY <1>1, <1>2, QuietBooks DEF Quiet, BooksInv, Apart
<1>3. ASSUME NEW w \in Workers, Records(w) PROVE Books'
  BY <1>1, <1>3, AdmitBooks, InsertBooks, TallyBooksStep, LogBooksStep
  DEF Records, BooksInv
<1>. QED
  BY <1>1, <1>2, <1>3

\* In every behaviour without a reset limiter, queue, ledger, tally and log
\* agree up to the requests in flight, and what a failure loses is only ever
\* missing from the later store (submit_one's four writes).
THEOREM BooksAlwaysBalance == Spec => []BooksBalance
<1>1. BooksInv => BooksBalance
  BY BooksParts DEF BooksInv
<1>2. Spec => []Apart
  BY InitApart, NextApart, TypeCorrect, PTL DEF Spec
<1>. QED
  BY <1>1, <1>2, InitBooks, NextBooks, TypeCorrect, PTL DEF Spec

(***************************************************************************)
(* The trace of one request.  A row is one request; without a reset its    *)
(* thread finds the row it wrote, an id waits in the queue of its tier     *)
(* exactly if its thread was told "delayed", and what the thread then logs *)
(* and answers is the row.                                                 *)
(***************************************************************************)
RowsApart == \A r, s \in receipts : r.request_id = s.request_id => r = s

\* No id waits twice.
QueueApart(ids) == \A i, j \in 1..Len(ids) : ids[i] = ids[j] => i = j

\* A request waits exactly if it was delayed.
WaitsIfDelayed(d) == d.disposition = "delayed" <=> d.request_id \in Queued(d.model)

Trace ==
    /\ \A m \in Models : QueueApart(queue[m])
    /\ \A m \in Models : \A id \in Queued(m) : id < nextId
    /\ \A w \in Workers : pc[w] \in Working => WaitsIfDelayed(decision[w])
    /\ \A w \in Workers : pc[w] \in {"tally", "log"} =>
                           ReceiptOf(decision[w]) \in receipts
    /\ \A i \in 1..Len(logs) : ReceiptOf(logs[i]) \in receipts
    /\ \A r \in replies : /\ r \in receipts /\ WaitsIfDelayed(r)
                           /\ \E i \in 1..Len(logs) : ReceiptOf(logs[i]) = r

TraceInv == RowsApart /\ (resets = 0 => Trace)

LEMMA InitTrace == Init => TraceInv
BY DEF Init, TraceInv, RowsApart, Trace, Queued, QueueApart, Working

\* A step that leaves queue, log and replies alone, and a thread's decision as
\* it was, and takes no row away.
LEMMA QuietTrace ==
    ASSUME Trace, receipts \subseteq receipts',
           UNCHANGED <<queue, logs, replies, nextId>>,
           \A v \in Workers : pc'[v] \in Working =>
               pc'[v] = pc[v] /\ decision'[v] = decision[v]
    PROVE  Trace'
BY DEF Trace, WaitsIfDelayed, Queued, ReceiptOf, Working

\* The script: only a delayed request joins the list, under an id that nobody
\* else has.
LEMMA AdmitTrace ==
    ASSUME TypeOK, Apart, Trace, NEW w \in Workers, Admit(w)
    PROVE  Trace'
<1> DEFINE m == job[w].model
           d == decision'[w]
<1>1. /\ pc[w] = "admit" /\ pc' = [pc EXCEPT ![w] = "insert"]
      /\ nextId \in Nat /\ nextId' = nextId + 1
      /\ UNCHANGED <<logs, receipts, replies>>
      /\ m \in Models /\ queue \in [Models -> Seq(Nat)]
  BY DEF Admit, Goto, history, TypeOK, Job, Working
<1>2. /\ d.model = m /\ d.request_id = nextId
      /\ \A v \in Workers \ {w} : decision'[v] = decision[v]
  BY DEF Admit, AdmitAccepted, AdmitDelayed, AdmitRejected, Decide, TypeOK
<1>3. pc'[w] = "insert" /\ \A v \in Workers \ {w} : pc'[v] = pc[v]
  BY <1>1 DEF TypeOK
<1>4. \/ d.disposition = "delayed" /\ queue' = [queue EXCEPT ![m] = Append(@, nextId)]
      \/ d.disposition # "delayed" /\ queue' = queue
  BY DEF Admit, AdmitAccepted, AdmitDelayed, AdmitRejected, Decide, TypeOK
<1> HIDE DEF m, d
<1>5. \A k \in Models :
        Queued(k)' = IF k = m /\ d.disposition = "delayed"
                     THEN Queued(k) \union {nextId} ELSE Queued(k)
  <2> SUFFICES ASSUME NEW k \in Models
               PROVE  Queued(k)' = IF k = m /\ d.disposition = "delayed"
                                   THEN Queued(k) \union {nextId} ELSE Queued(k)
    OBVIOUS
  <2>1. CASE k = m /\ d.disposition = "delayed"
    <3>1. queue'[k] = Append(queue[k], nextId) /\ queue[k] \in Seq(Nat)
      BY <2>1, <1>1, <1>4
    <3>2. Len(queue'[k]) = Len(queue[k]) + 1 /\ Len(queue[k]) \in Nat
      BY <3>1
    <3>3. /\ \A i \in 1..Len(queue[k]) : queue'[k][i] = queue[k][i]
          /\ queue'[k][Len(queue[k]) + 1] = nextId
      BY <3>1
    <3>. QED
      BY <2>1, <3>2, <3>3 DEF Queued
  <2>2. CASE ~(k = m /\ d.disposition = "delayed")
    <3>1. queue'[k] = queue[k]
      BY <2>2, <1>1, <1>4
    <3>. QED
      BY <2>2, <3>1 DEF Queued
  <2>. QED
    BY <2>1, <2>2
<1>6. \A k \in Models : nextId \notin Queued(k)
  BY <1>1 DEF Trace
<1>7. ASSUME NEW e, e.model \in Models, e.request_id < nextId,
             e.request_id \in Nat, WaitsIfDelayed(e)
      PROVE  e.disposition = "delayed" <=> e.request_id \in Queued(e.model)'
  <2>1. e.request_id # nextId
    BY <1>1, <1>7
  <2>2. \/ Queued(e.model)' = Queued(e.model)
        \/ Queued(e.model)' = Queued(e.model) \union {nextId}
    BY <1>5, <1>7
  <2>. QED
    BY <2>1, <2>2, <1>7 DEF WaitsIfDelayed
<1>8. ASSUME NEW v \in Workers, pc'[v] \in Working
      PROVE  WaitsIfDelayed(decision[v])'
  <2>1. CASE v = w
    BY <2>1, <1>1, <1>2, <1>5, <1>6 DEF WaitsIfDelayed, d
  <2>2. CASE v # w
    <3>1. /\ pc[v] \in Working /\ decision'[v] = decision[v]
          /\ decision[v] \in Decision /\ decision[v].request_id < nextId
          /\ WaitsIfDelayed(decision[v])
      BY <2>2, <1>2, <1>3, <1>8 DEF TypeOK, Apart, IdsApart, Trace
    <3>. QED
      BY <3>1, <1>7 DEF WaitsIfDelayed, Decision
  <2>. QED
    BY <2>1, <2>2
<1>9. \A r \in replies : WaitsIfDelayed(r)'
  <2> SUFFICES ASSUME NEW r \in replies PROVE WaitsIfDelayed(r)'
    OBVIOUS
  <2>1. r \in Receipt /\ r.request_id < nextId /\ WaitsIfDelayed(r)
    BY DEF Trace, TypeOK, Apart, IdsApart
  <2>. QED
    BY <2>1, <1>7 DEF WaitsIfDelayed, Receipt
<1>10. \A k \in Models : \A id \in Queued(k)' : id < nextId'
  <2> SUFFICES ASSUME NEW k \in Models, NEW id \in Queued(k)' PROVE id < nextId'
    OBVIOUS
  <2>1. id = nextId \/ id \in Queued(k)
    BY <1>5
  <2>2. \A x \in Queued(k) : x \in Nat /\ x < nextId
    <3>1. queue[k] \in Seq(Nat)
      BY <1>1
    <3>2. \A i \in 1..Len(queue[k]) : queue[k][i] \in Nat
      BY <3>1
    <3>. QED
      BY <3>2 DEF Trace, Queued
  <2>. QED
    BY <2>1, <2>2, <1>1
<1>11. \A v \in Workers : pc'[v] \in {"tally", "log"} =>
          ReceiptOf(decision'[v]) \in receipts'
  BY <1>1, <1>2, <1>3 DEF Trace
<1>12. \A k \in Models : QueueApart(queue'[k])
  <2> SUFFICES ASSUME NEW k \in Models PROVE QueueApart(queue'[k])
    OBVIOUS
  <2>1. queue[k] \in Seq(Nat) /\ QueueApart(queue[k])
    BY <1>1 DEF Trace
  <2>2. \A i \in 1..Len(queue[k]) : queue[k][i] # nextId
    BY <1>6 DEF Queued
  <2>3. queue'[k] = queue[k] \/ queue'[k] = Append(queue[k], nextId)
    BY <1>1, <1>4
  <2>4. QueueApart(Append(queue[k], nextId))
    BY <2>1, <2>2, <1>1 DEF QueueApart
  <2>. QED
    BY <2>1, <2>3, <2>4
<1>. QED
  BY <1>1, <1>8, <1>9, <1>10, <1>11, <1>12 DEF Trace
\* The receipt is the row of its thread; nobody else's row is touched.
LEMMA InsertTrace ==
    ASSUME TypeOK, Apart, Trace, NEW w \in Workers, InsertReceipt(w)
    PROVE  Trace'
<1>1. /\ pc[w] = "insert" /\ pc' = [pc EXCEPT ![w] = "tally"]
      /\ receipts' = receipts \union {ReceiptOf(decision[w])}
      /\ UNCHANGED <<queue, logs, replies, decision, nextId>>
  BY DEF InsertReceipt, Goto, redis, history
<1>2. \A v \in Workers \ {w} : pc'[v] = pc[v]
  BY <1>1 DEF TypeOK
<1>3. \A v \in Workers : pc'[v] \in Working => pc[v] \in Working
  BY <1>1, <1>2 DEF Working
<1>4. \A m : Queued(m)' = Queued(m)
  BY <1>1 DEF Queued
<1>5. \A v \in Workers : pc'[v] \in {"tally", "log"} =>
         ReceiptOf(decision[v]) \in receipts'
  BY <1>1, <1>2 DEF Trace
<1>6. /\ \A m \in Models : QueueApart(queue'[m])
      /\ \A m \in Models : \A id \in Queued(m)' : id < nextId'
  BY <1>1, <1>4 DEF Trace
<1>7. \A v \in Workers : pc'[v] \in Working => WaitsIfDelayed(decision[v])'
  BY <1>1, <1>3, <1>4 DEF Trace, WaitsIfDelayed
<1>8. \A i \in 1..Len(logs') : ReceiptOf(logs'[i]) \in receipts'
  BY <1>1 DEF Trace
<1>9. \A r \in replies' : /\ r \in receipts' /\ WaitsIfDelayed(r)'
                         /\ \E i \in 1..Len(logs') : ReceiptOf(logs'[i]) = r
  BY <1>1, <1>4 DEF Trace, WaitsIfDelayed
<1>. QED
  BY <1>1, <1>5, <1>6, <1>7, <1>8, <1>9 DEF Trace, WaitsIfDelayed

\* The event of the thread is its row, and so is the answer of a submit.
LEMMA LogTrace ==
    ASSUME TypeOK, Trace, NEW w \in Workers, LogAdmission(w)
    PROVE  Trace'
<1> DEFINE d == decision[w]
           n == Len(logs)
<1>1. /\ pc[w] = "log" /\ logs' = Append(logs, d)
      /\ UNCHANGED <<queue, receipts, nextId>>
      /\ replies' = replies \/ replies' = replies \union {ReceiptOf(d)}
      /\ \E at \in {"idle", "admit", "depth"} : pc' = [pc EXCEPT ![w] = at]
      /\ decision' = [decision EXCEPT ![w] = NoDecision]
  BY DEF LogAdmission, Done, Goto
<1>2. \A v \in Workers : pc'[v] \in Working =>
          v # w /\ pc'[v] = pc[v] /\ decision'[v] = decision[v]
  BY <1>1 DEF TypeOK, Working
<1>3. /\ ReceiptOf(d) \in receipts /\ WaitsIfDelayed(d)
  BY <1>1 DEF Trace, Working
<1>4. /\ n \in Nat /\ Len(logs') = n + 1 /\ logs'[n + 1] = d
      /\ \A i \in 1..n : logs'[i] = logs[i]
  BY <1>1 DEF TypeOK
<1> HIDE DEF d, n
<1>5. \A m : Queued(m)' = Queued(m)
  BY <1>1 DEF Queued
<1>6. \A i \in 1..Len(logs') : ReceiptOf(logs'[i]) \in receipts'
  <2> SUFFICES ASSUME NEW i \in 1..(n + 1) PROVE ReceiptOf(logs'[i]) \in receipts
    BY <1>1, <1>4
  <2>1. CASE i = n + 1
    BY <2>1, <1>3, <1>4
  <2>2. CASE i \in 1..n
    BY <2>2, <1>4 DEF Trace, n
  <2>. QED
    BY <2>1, <2>2, <1>4
<1>7. WaitsIfDelayed(ReceiptOf(d))
  BY <1>3 DEF WaitsIfDelayed, ReceiptOf
<1>8. ASSUME NEW r \in replies'
      PROVE  /\ r \in receipts' /\ WaitsIfDelayed(r)'
             /\ \E i \in 1..Len(logs') : ReceiptOf(logs'[i]) = r
  <2>1. CASE r = ReceiptOf(d)
    <3>1. n + 1 \in 1..Len(logs') /\ ReceiptOf(logs'[n + 1]) = r
      BY <2>1, <1>4
    <3>. QED
      BY <2>1, <3>1, <1>1, <1>3, <1>5, <1>7 DEF WaitsIfDelayed
  <2>2. CASE r \in replies
    <3>1. PICK i \in 1..n : ReceiptOf(logs[i]) = r
      BY <2>2 DEF Trace, n
    <3>2. i \in 1..Len(logs') /\ ReceiptOf(logs'[i]) = r
      BY <3>1, <1>4
    <3>. QED
      BY <2>2, <3>2, <1>1, <1>5 DEF Trace, WaitsIfDelayed
  <2>. QED
    BY <2>1, <2>2, <1>1, <1>8
<1>9. \A v \in Workers : pc'[v] \in Working =>
         /\ WaitsIfDelayed(decision[v])'
         /\ pc'[v] \in {"tally", "log"} => ReceiptOf(decision'[v]) \in receipts'
  BY <1>1, <1>2, <1>5 DEF Trace, WaitsIfDelayed
<1>. QED
  BY <1>1, <1>5, <1>6, <1>8, <1>9 DEF Trace, Working
LEMMA NextTrace ==
    TypeOK /\ TypeOK' /\ Apart /\ TraceInv /\ [Next]_vars => TraceInv'
<1> SUFFICES ASSUME TypeOK, TypeOK', Apart, TraceInv, [Next]_vars PROVE TraceInv'
  OBVIOUS
<1>1. RowsApart'
  <2>1. \/ receipts' = receipts \/ receipts' = {}
        \/ \E w \in Workers : InsertReceipt(w)
    BY DEF Next, Call, LoadSubmit, LoadSpike, AdminReset, Begin, Step, Wipe,
           ClearReceipts, Admit, DispositionIncr, LogAdmission, ReadDepth,
           Report, Fail, Restart, vars
  <2>2. ASSUME NEW w \in Workers, InsertReceipt(w) PROVE RowsApart'
    <3>1. /\ receipts' = receipts \union {ReceiptOf(decision[w])}
          /\ \A r \in receipts : r.request_id # ReceiptOf(decision[w]).request_id
      BY <2>2 DEF InsertReceipt, Apart, IdsApart, ReceiptOf
    <3>. QED
      BY <3>1 DEF TraceInv, RowsApart
  <2>. QED
    BY <2>1, <2>2 DEF TraceInv, RowsApart
<1>2. ASSUME resets' = 0 PROVE Trace'
  <2>1. resets = 0 /\ (Quiet \/ \E w \in Workers : Records(w))
    BY <1>2, UnresetStep DEF Apart
  <2>2. Trace
    BY <2>1 DEF TraceInv
  <2>3. CASE Quiet
    BY <2>2, <2>3, QuietTrace DEF Quiet
  <2>4. ASSUME NEW w \in Workers, DispositionIncr(w) PROVE Trace'
    <3>1. /\ pc[w] = "tally" /\ pc' = [pc EXCEPT ![w] = "log"]
          /\ UNCHANGED <<queue, logs, replies, receipts, decision, nextId>>
      BY <2>4 DEF DispositionIncr, Goto, history
    <3>2. \A v \in Workers : /\ pc'[v] \in Working => pc[v] \in Working
                             /\ pc'[v] \in {"tally", "log"} => pc[v] \in {"tally", "log"}
      BY <3>1 DEF TypeOK, Working
    <3>3. \A m : Queued(m)' = Queued(m)
      BY <3>1 DEF Queued
    <3>. QED
      BY <2>2, <3>1, <3>2, <3>3 DEF Trace, WaitsIfDelayed
  <2>. QED
    BY <2>1, <2>2, <2>3, <2>4, AdmitTrace, InsertTrace, LogTrace DEF Records
<1>. QED
  BY <1>1, <1>2 DEF TraceInv

\* In every behaviour without a reset, an answered request is found in the
\* ledger and in the log with the fate its caller was told, and its id waits
\* in the queue exactly if that fate was "delayed": what
\* /resilience/admission-logs calls one id in three places.
THEOREM RepliesTraced == Spec => []RepliesTraceable
<1>1. TraceInv => RepliesTraceable
  BY DEF TraceInv, Trace, WaitsIfDelayed, RepliesTraceable
<1>2. Spec => []Apart
  BY InitApart, NextApart, TypeCorrect, PTL DEF Spec
<1>. QED
  BY <1>1, <1>2, InitTrace, NextTrace, TypeCorrect, PTL DEF Spec

(***************************************************************************)
(* The views.  A reader keeps what its first read found; ledger and queue  *)
(* only grow until its second read.                                        *)
(***************************************************************************)
ViewInv ==
    /\ view.at = "ids" => view.model \in Models /\ view.depth \in Nat
    /\ view.at = "samples" => view.count \in Nat
    /\ resets = 0 =>
         /\ view.at = "ids" => view.depth <= Len(queue[view.model])
         /\ view.at = "samples" => view.count <= UpToTwo(Cardinality(Fated(view.fate)))
         /\ view.at = "receipt" =>
              /\ view.log # {} => \E r \in receipts : /\ r.request_id = view.id
                                                     /\ view.log = {r.disposition}
              /\ view.told # {} => view.log = view.told
    /\ ViewsConsistent

LEMMA InitView == ViewInit => ViewInv
BY DEF ViewInit, NoView, ViewInv, ViewsConsistent

LEMMA ViewStep == ViewNext => [Next]_vars
BY DEF ViewNext, View, ReadQueueDepth, ReadCounts, ReadLogs, ReadQueueIds,
       ReadSamples, ReadReceipt

\* Without a reset, queue and ledger only grow.
LEMMA StoresGrow ==
    ASSUME TypeOK, HistoryOK, [Next]_vars, resets' = 0
    PROVE  /\ resets = 0 /\ receipts \subseteq receipts'
           /\ \A m \in Models : Len(queue[m]) <= Len(queue'[m])
<1>1. resets = 0 /\ (Quiet \/ \E w \in Workers : Records(w))
  BY UnresetStep
<1>2. \A m \in Models : queue[m] \in Seq(Nat)
  BY DEF TypeOK
<1>3. CASE Quiet
  BY <1>1, <1>2, <1>3 DEF Quiet
<1>4. ASSUME NEW w \in Workers, Records(w)
      PROVE  /\ receipts \subseteq receipts'
             /\ \A m \in Models : \/ queue'[m] = queue[m]
                                  \/ queue'[m] = Append(queue[m], nextId)
  BY <1>4 DEF Records, Admit, AdmitAccepted, AdmitDelayed, AdmitRejected,
              InsertReceipt, DispositionIncr, LogAdmission, redis, TypeOK
<1>5. nextId \in Nat
  BY DEF TypeOK
<1>6. \A m \in Models : Len(Append(queue[m], nextId)) = Len(queue[m]) + 1
  BY <1>2
<1>7. \A m \in Models : Len(queue[m]) \in Nat
  BY <1>2
<1>. QED
  BY <1>1, <1>3, <1>4, <1>6, <1>7

\* A request is served while a view is open.
LEMMA ServiceKeepsView ==
    ASSUME TypeOK, Apart, TypeOK', Apart', ViewInv, [Next]_vars, ~Answered,
           view' = view
    PROVE  ViewInv'
<1>1. view.at \notin {"queue", "dispositions", "correlate"}
  BY DEF Answered
<1>2. ViewsConsistent'
  BY <1>1 DEF ViewsConsistent
<1>3. ASSUME resets' = 0
      PROVE  /\ view.at = "ids" => view.depth <= Len(queue'[view.model])
             /\ view.at = "samples" =>
                  view.count <= UpToTwo(Cardinality(Fated(view.fate)'))
             /\ view.at = "receipt" =>
                  /\ view.log # {} => \E r \in receipts' : /\ r.request_id = view.id
                                                          /\ view.log = {r.disposition}
                  /\ view.told # {} => view.log = view.told
  <2>1. /\ resets = 0 /\ receipts \subseteq receipts'
        /\ \A m \in Models : Len(queue[m]) <= Len(queue'[m])
    BY <1>3, StoresGrow DEF Apart
  <2>2. ASSUME view.at = "ids" PROVE view.depth <= Len(queue'[view.model])
    <3>1. /\ view.model \in Models /\ view.depth \in Nat
          /\ view.depth <= Len(queue[view.model])
      BY <2>1, <2>2 DEF ViewInv
    <3>2. queue[view.model] \in Seq(Nat) /\ queue'[view.model] \in Seq(Nat)
      BY <3>1 DEF TypeOK
    <3>3. Len(queue[view.model]) \in Nat /\ Len(queue'[view.model]) \in Nat
      BY <3>2
    <3>4. Len(queue[view.model]) <= Len(queue'[view.model])
      BY <2>1, <3>1
    <3>. QED
      BY <3>1, <3>3, <3>4
  <2>3. ASSUME view.at = "samples"
        PROVE  view.count <= UpToTwo(Cardinality(Fated(view.fate)'))
    <3> DEFINE F == Fated(view.fate)
    <3>1. view.count \in Nat /\ view.count <= UpToTwo(Cardinality(F))
      BY <2>1, <2>3 DEF ViewInv
    <3>2. IsFiniteSet(receipts') /\ Fated(view.fate)' \subseteq receipts'
      BY DEF Fated, Apart, HistoryOK
    <3>3. F \subseteq Fated(view.fate)' /\ IsFiniteSet(Fated(view.fate)')
      BY <2>1, <3>2, FS_Subset DEF Fated
    <3> HIDE DEF F
    <3>4. /\ Cardinality(F) \in Nat /\ Cardinality(Fated(view.fate)') \in Nat
          /\ Cardinality(F) <= Cardinality(Fated(view.fate)')
      BY <3>3, FS_Subset, FS_CardinalityType
    <3>. QED
      BY <3>1, <3>4 DEF UpToTwo
  <2>. QED
    BY <2>1, <2>2, <2>3 DEF ViewInv
<1>. QED
  BY <1>2, <1>3 DEF ViewInv

\* The list is never shorter than the depth that was read before it, and never
\* longer than the capacity.
LEMMA QueueView ==
    ASSUME TypeOK, GateInv, TraceInv, ViewInv, ReadQueueIds
    PROVE  ViewInv'
<1> DEFINE k == view.model
<1>1. /\ view.at = "ids" /\ k \in Models /\ view.depth \in Nat
      /\ resets' = resets
      /\ view'.at = "queue" /\ view'.capacity = QueueCapacity[k]
      /\ view'.depth = view.depth /\ view'.ids = queue[k]
      /\ view'.full => view.depth >= QueueCapacity[k]
  BY DEF ReadQueueIds, ViewInv, vars, history
<1>2. /\ queue[k] \in Seq(Nat) /\ QueueCapacity[k] \in Nat
      /\ Len(queue[k]) <= QueueCapacity[k]
  BY <1>1, AdmissionConstants DEF TypeOK, GateInv, WithinLimits
<1>3. resets = 0 => view.depth <= Len(queue[k]) /\ QueueApart(queue[k])
  BY <1>1 DEF ViewInv, TraceInv, Trace
<1>4. Len(queue[k]) \in Nat
  BY <1>2
<1> HIDE DEF k
<1>5. resets = 0 => /\ Len(view'.ids) >= view'.depth
                    /\ QueueApart(view'.ids)
                    /\ view'.full => Len(view'.ids) = view'.capacity
  BY <1>1, <1>2, <1>3, <1>4
<1>. QED
  BY <1>1, <1>5 DEF ViewInv, ViewsConsistent, QueueApart

\* The event of an id, its row and the answer to its caller name one fate.
LEMMA LogsView ==
    ASSUME TypeOK, TraceInv, NEW given, ReadLogs(given)
    PROVE  ViewInv'
<1> DEFINE id == Target(given)
           told == {r.disposition : r \in {a \in replies : a.request_id = id}}
<1>1. /\ view'.at \in {"empty", "receipt"}
      /\ view'.id = id /\ view'.log = LogFates(id) /\ view'.told = told
      /\ resets' = resets /\ receipts' = receipts
  BY DEF ReadLogs, vars, history
<1> HIDE DEF id
<1>2. ASSUME resets = 0, NEW f \in LogFates(id)
      PROVE  \E r \in receipts : r.request_id = id /\ LogFates(id) = {r.disposition}
  <2>1. PICK i \in 1..Len(logs) : logs[i].request_id = id
    BY <1>2 DEF LogFates
  <2>2. \A j \in 1..Len(logs) : logs[j].request_id = id =>
            ReceiptOf(logs[j]) = ReceiptOf(logs[i])
    BY <1>2, <2>1 DEF TraceInv, Trace, RowsApart, ReceiptOf
  <2>3. \A j \in 1..Len(logs) : logs[j].request_id = id =>
            logs[j].disposition = logs[i].disposition
    BY <2>2 DEF ReceiptOf
  <2>4. LogFates(id) = {logs[i].disposition}
    BY <2>1, <2>3 DEF LogFates
  <2>5. /\ ReceiptOf(logs[i]) \in receipts
        /\ ReceiptOf(logs[i]).request_id = id
        /\ ReceiptOf(logs[i]).disposition = logs[i].disposition
    BY <1>2, <2>1 DEF TraceInv, Trace, ReceiptOf
  <2>. QED
    BY <2>4, <2>5
<1>3. ASSUME resets = 0, told # {} PROVE LogFates(id) = told
  <2>1. PICK a \in replies : a.request_id = id
    BY <1>3
  <2>2. PICK i \in 1..Len(logs) : ReceiptOf(logs[i]) = a
    BY <1>3 DEF TraceInv, Trace
  <2>3. logs[i].request_id = id /\ logs[i].disposition = a.disposition
    BY <2>1, <2>2 DEF ReceiptOf
  <2>4. a.disposition \in LogFates(id)
    BY <2>3 DEF LogFates
  <2>5. LogFates(id) = {a.disposition}
    BY <1>2, <1>3, <2>4
  <2>6. \A b \in replies : b.request_id = id => b = a
    BY <1>3, <2>1 DEF TraceInv, Trace, RowsApart
  <2>7. told = {a.disposition}
    BY <2>1, <2>6
  <2>. QED
    BY <2>5, <2>7
<1> HIDE DEF told
<1>. QED
  BY <1>1, <1>2, <1>3 DEF ViewInv, ViewsConsistent

LEMMA ReceiptView ==
    ASSUME TraceInv, ViewInv, ReadReceipt
    PROVE  ViewInv'
<1>1. /\ view.at = "receipt" /\ view'.at = "correlate"
      /\ view'.log = view.log /\ view'.told = view.told
      /\ view'.receipt = {r.disposition : r \in {x \in receipts : x.request_id = view.id}}
      /\ resets' = resets
  BY DEF ReadReceipt, vars, history
<1>2. ASSUME resets = 0, view.log # {}
      PROVE  view'.receipt = view.log /\ Cardinality(view.log) = 1
  <2>1. PICK r \in receipts : r.request_id = view.id /\ view.log = {r.disposition}
    BY <1>1, <1>2 DEF ViewInv
  <2>2. \A x \in receipts : x.request_id = view.id => x = r
    BY <2>1 DEF TraceInv, RowsApart
  <2>3. view'.receipt = {r.disposition}
    BY <1>1, <2>1, <2>2
  <2>4. Cardinality({r.disposition}) = 1
    BY FS_Singleton
  <2>. QED
    BY <2>1, <2>3, <2>4
<1>3. resets = 0 /\ view.told # {} => view.log = view.told
  BY <1>1 DEF ViewInv
<1>. QED
  BY <1>1, <1>2, <1>3 DEF ViewInv, ViewsConsistent

LEMMA NextView ==
    TypeOK /\ TypeOK' /\ GateInv /\ Apart /\ Apart' /\ TraceInv /\ ViewInv /\
    [ViewNext]_viewVars => ViewInv'
<1> SUFFICES ASSUME TypeOK, TypeOK', GateInv, Apart, Apart', TraceInv, ViewInv,
                    [ViewNext]_viewVars
             PROVE  ViewInv'
  OBVIOUS
<1>1. CASE UNCHANGED viewVars
  <2>1. UNCHANGED <<view, queue, receipts, resets>>
    BY <1>1 DEF viewVars, vars, redis, history
  <2>. QED
    BY <2>1 DEF ViewInv, ViewsConsistent, Fated
<1>2. CASE Next /\ ~Answered /\ UNCHANGED view
  BY <1>2, ServiceKeepsView
<1>3. ASSUME NEW m \in Models, ReadQueueDepth(m) PROVE ViewInv'
  <2>1. /\ view'.at = "ids" /\ view'.model = m /\ view'.depth = Len(queue[m])
        /\ queue' = queue /\ queue[m] \in Seq(Nat)
    BY <1>3 DEF ReadQueueDepth, TypeOK, vars, redis
  <2>2. Len(queue[m]) \in Nat
    BY <2>1
  <2>. QED
    BY <2>1, <2>2 DEF ViewInv, ViewsConsistent
<1>4. ASSUME NEW f \in Fates, ReadCounts(f) PROVE ViewInv'
  <2>1. /\ view'.at = "samples" /\ view'.fate = f
        /\ view'.count = UpToTwo(Cardinality(Fated(f))) /\ receipts' = receipts
    BY <1>4 DEF ReadCounts, vars
  <2>2. Cardinality(Fated(f)) \in Nat
    BY Countable DEF Apart
  <2>3. Fated(f)' = Fated(f)
    BY <2>1 DEF Fated
  <2>4. UpToTwo(Cardinality(Fated(f))) \in Nat
    BY <2>2 DEF UpToTwo
  <2>. QED
    BY <2>1, <2>3, <2>4 DEF ViewInv, ViewsConsistent, UpToTwo
<1>5. CASE ReadSamples
  <2>1. /\ view.at = "samples" /\ view'.at = "dispositions"
        /\ view'.count = view.count
        /\ view'.samples = UpToTwo(Cardinality(Fated(view.fate)))
        /\ resets' = resets
    BY <1>5 DEF ReadSamples, vars, history
  <2>2. Cardinality(Fated(view.fate)) \in Nat /\ view.count \in Nat
    BY <2>1, Countable DEF Apart, ViewInv
  <2>3. resets = 0 => view'.samples >= view'.count
    BY <2>1, <2>2 DEF ViewInv, UpToTwo
  <2>. QED
    BY <2>1, <2>3 DEF ViewInv, ViewsConsistent
<1>. QED
  BY <1>1, <1>2, <1>3, <1>4, <1>5, QueueView, LogsView, ReceiptView
  DEF ViewNext, View

\* A view that reads two stores one after the other never contradicts itself
\* while requests race, handlers fail and the process restarts, as long as
\* nothing is reset: the handlers of /resilience/queue, /dispositions and
\* /admission-logs.
THEOREM ViewsAgree == ViewSpec => []ViewsConsistent
<1>1. ViewInit => Init /\ ViewInv
  BY InitView DEF ViewInit
<1>2. [ViewNext]_viewVars => [Next]_vars
  BY ViewStep DEF viewVars
<1>3. TypeOK /\ [Next]_vars => TypeOK'
  BY NextType
<1>4. ViewInv => ViewsConsistent
  BY DEF ViewInv
<1>. QED
  BY <1>1, <1>2, <1>3, <1>4, InitType, InitGate, NextGate, InitApart, NextApart,
     InitTrace, NextTrace, NextView, PTL DEF ViewSpec

(***************************************************************************)
(* The spike.  A spike counts what it submitted, and while nobody else runs*)
(* the stores it wiped hold its own requests and nothing else.             *)
(***************************************************************************)
SpikeJobs == \A w \in Workers :
    /\ pc[w] \in {"clear", "depth", "full"} => job[w].op = "spike"
    /\ pc[w] = "truncate" => job[w].op # "spike"
    /\ pc[w] \in {"wipe", "clear"} /\ job[w].op = "spike" =>
         job[w] \in Job /\ job[w].counts = NoCounts /\ job[w].size > 0
    /\ pc[w] \in {"admit", "insert", "tally", "log"} /\ job[w].op = "spike" =>
         Total(job[w].counts) < job[w].size
    /\ pc[w] \in {"depth", "full"} => Total(job[w].counts) = job[w].size

LEMMA CountOneMore ==
    ASSUME NEW counts \in [Fates -> Nat], NEW f \in Fates
    PROVE  Total([counts EXCEPT ![f] = @ + 1]) = Total(counts) + 1
BY DEF Fates, Total

LEMMA InitSpikeJobs == Init => SpikeJobs
BY DEF Init, SpikeJobs

LEMMA NextSpikeJobs == TypeOK /\ SpikeJobs /\ [Next]_vars => SpikeJobs'
<1> SUFFICES ASSUME TypeOK, SpikeJobs, [Next]_vars PROVE SpikeJobs'
  OBVIOUS
<1>1. CASE UNCHANGED vars
  BY <1>1 DEF SpikeJobs, vars, threads
<1>2. ASSUME NEW w \in Workers, NEW m \in Models, LoadSubmit(w, m)
      PROVE  SpikeJobs'
  BY <1>2 DEF SpikeJobs, LoadSubmit, Begin, TypeOK
<1>3. ASSUME NEW w \in Workers, NEW m \in Models, NEW n \in 1..MaxCount,
             LoadSpike(w, m, n)
      PROVE  SpikeJobs'
  <2>1. /\ pc' = [pc EXCEPT ![w] = "wipe"]
        /\ job' = [job EXCEPT ![w] = [op |-> "spike", model |-> m, size |-> n,
                                     counts |-> NoCounts, depth |-> 0]]
    BY <1>3 DEF LoadSpike, Begin
  <2>2. [op |-> "spike", model |-> m, size |-> n, counts |-> NoCounts,
         depth |-> 0] \in Job /\ n > 0
    BY AdmissionConstants DEF Job, NoCounts
  <2>. QED
    BY <2>1, <2>2 DEF SpikeJobs, TypeOK
<1>4. ASSUME NEW w \in Workers, AdminReset(w) PROVE SpikeJobs'
  BY <1>4 DEF SpikeJobs, AdminReset, Begin, ResetJob, TypeOK
<1>5. ASSUME NEW w \in Workers, Wipe(w) PROVE SpikeJobs'
  <2>1. CASE job[w].op = "spike"
    <3>1. pc[w] = "wipe" /\ pc' = [pc EXCEPT ![w] = "clear"] /\ job' = job
      BY <1>5, <2>1 DEF Wipe, Goto
    <3>. QED
      BY <2>1, <3>1 DEF SpikeJobs, TypeOK
  <2>2. CASE job[w].op # "spike"
    <3>1. pc' = [pc EXCEPT ![w] = "idle"] /\ job' = [job EXCEPT ![w] = NoJob]
      BY <1>5, <2>2 DEF Wipe, Done, Goto
    <3>. QED
      BY <3>1 DEF SpikeJobs, TypeOK
  <2>. QED
    BY <2>1, <2>2
<1>6. ASSUME NEW w \in Workers, ClearReceipts(w) PROVE SpikeJobs'
  <2>1. CASE pc[w] = "clear"
    <3>1. /\ pc' = [pc EXCEPT ![w] = "admit"] /\ job' = job
          /\ job[w].counts = NoCounts /\ job[w] \in Job /\ job[w].size > 0
      BY <1>6, <2>1 DEF ClearReceipts, Goto, SpikeJobs
    <3>2. Total(NoCounts) = 0
      BY DEF Total, NoCounts, Fates
    <3>. QED
      BY <3>1, <3>2 DEF SpikeJobs, TypeOK, Job
  <2>2. CASE pc[w] = "truncate"
    <3>1. pc' = [pc EXCEPT ![w] = "wipe"] /\ job' = job
      BY <1>6, <2>2 DEF ClearReceipts, Goto
    <3>2. job[w].op # "spike"
      BY <2>2 DEF SpikeJobs
    <3>. QED
      BY <3>1, <3>2 DEF SpikeJobs, TypeOK
  <2>. QED
    BY <1>6, <2>1, <2>2 DEF ClearReceipts
<1>7. ASSUME NEW w \in Workers, Admit(w) \/ InsertReceipt(w) \/ DispositionIncr(w)
      PROVE  SpikeJobs'
  <2>1. /\ \/ pc[w] = "admit" /\ pc' = [pc EXCEPT ![w] = "insert"]
           \/ pc[w] = "insert" /\ pc' = [pc EXCEPT ![w] = "tally"]
           \/ pc[w] = "tally" /\ pc' = [pc EXCEPT ![w] = "log"]
        /\ job' = job
    BY <1>7 DEF Admit, InsertReceipt, DispositionIncr, Goto
  <2>. QED
    BY <2>1 DEF SpikeJobs, TypeOK
<1>8. ASSUME NEW w \in Workers, LogAdmission(w) PROVE SpikeJobs'
  <2> DEFINE f == decision[w].disposition
             c == [job[w].counts EXCEPT ![f] = @ + 1]
  <2>1. CASE job[w].op = "submit"
    <3>1. pc' = [pc EXCEPT ![w] = "idle"] /\ job' = [job EXCEPT ![w] = NoJob]
      BY <1>8, <2>1 DEF LogAdmission, Done, Goto
    <3>. QED
      BY <3>1 DEF SpikeJobs, TypeOK
  <2>2. CASE job[w].op = "spike"
    <3>1. /\ pc[w] = "log" /\ f \in Fates /\ job[w] \in Job
          /\ job[w].counts \in [Fates -> Nat] /\ job[w].size \in Nat
          /\ Total(job[w].counts) < job[w].size
      BY <1>8, <2>2 DEF LogAdmission, TypeOK, Working, Decision, Job, SpikeJobs
    <3>2. /\ job' = [job EXCEPT ![w].counts = c]
          /\ pc' = [pc EXCEPT ![w] = IF Total(c) < job[w].size THEN "admit" ELSE "depth"]
      BY <1>8, <2>2 DEF LogAdmission, Goto
    <3>3. Total(c) = Total(job[w].counts) + 1
      BY <3>1, CountOneMore
    <3>4. Total(job[w].counts) \in Nat
      BY <3>1 DEF Total, Fates
    <3> HIDE DEF f, c
    <3>5. Total(c) < job[w].size \/ Total(c) = job[w].size
      BY <3>1, <3>3, <3>4
    <3>6. /\ job'[w].op = "spike" /\ job'[w].counts = c
          /\ job'[w].size = job[w].size
          /\ \A v \in Workers \ {w} : job'[v] = job[v]
      BY <2>2, <3>1, <3>2 DEF TypeOK, Job
    <3>7. \A v \in Workers \ {w} : pc'[v] = pc[v]
      BY <3>2 DEF TypeOK
    <3>8. CASE Total(c) < job[w].size
      <4>1. pc'[w] = "admit"
        BY <3>2, <3>8 DEF TypeOK
      <4>. QED
        BY <3>6, <3>7, <3>8, <4>1 DEF SpikeJobs
    <3>9. CASE Total(c) = job[w].size /\ ~(Total(c) < job[w].size)
      <4>1. pc'[w] = "depth"
        BY <3>2, <3>9 DEF TypeOK
      <4>. QED
        BY <3>6, <3>7, <3>9, <4>1 DEF SpikeJobs
    <3>. QED
      BY <3>5, <3>8, <3>9
  <2>. QED
    BY <1>8, <2>1, <2>2 DEF LogAdmission
<1>9. ASSUME NEW w \in Workers, ReadDepth(w) PROVE SpikeJobs'
  <2>1. /\ pc[w] = "depth" /\ pc' = [pc EXCEPT ![w] = "full"]
        /\ job' = [job EXCEPT ![w].depth = Len(queue[job[w].model])]
        /\ job[w] \in Job
    BY <1>9 DEF ReadDepth, Goto, TypeOK
  <2>2. /\ pc'[w] = "full"
        /\ job'[w].op = job[w].op /\ job'[w].counts = job[w].counts
        /\ job'[w].size = job[w].size
    BY <2>1 DEF TypeOK, Job
  <2>3. \A v \in Workers \ {w} : pc'[v] = pc[v] /\ job'[v] = job[v]
    BY <2>1 DEF TypeOK
  <2>. QED
    BY <2>1, <2>2, <2>3 DEF SpikeJobs
<1>10. ASSUME NEW w \in Workers, Report(w) \/ Fail(w) PROVE SpikeJobs'
  <2>1. pc' = [pc EXCEPT ![w] = "idle"] /\ job' = [job EXCEPT ![w] = NoJob]
    BY <1>10 DEF Report, Fail, Done, Goto
  <2>. QED
    BY <2>1 DEF SpikeJobs, TypeOK
<1>11. CASE Restart
  BY <1>11 DEF SpikeJobs, Restart
<1>. QED
  BY <1>1, <1>2, <1>3, <1>4, <1>5, <1>6, <1>7, <1>8, <1>9, <1>10, <1>11
  DEF Next, Call, Step

\* While a handler that was alone runs, everybody else is idle.
Undisturbed == \A v, w \in Workers : v # w /\ alone[w] /\ ~Idle(w) => Idle(v)

LEMMA InitUndisturbed == Init => Undisturbed
BY DEF Init, Undisturbed, Idle

\* A step after which w is alone is a step of w, or none.
LEMMA AloneStep ==
    ASSUME TypeOK, Undisturbed, [Next]_vars, NEW w \in Workers,
           alone'[w], pc'[w] # "idle"
    PROVE  \/ UNCHANGED vars
           \/ Call(w) /\ \A v \in Workers : Idle(v)
           \/ Step(w) /\ alone[w] /\ pc[w] # "idle" /\ UNCHANGED <<alone, resets, faults>>
<1>1. ASSUME NEW v \in Workers, Call(v)
      PROVE  v = w /\ \A u \in Workers : Idle(u)
  <2>1. alone' = [u \in Workers |-> u = v /\ \A x \in Workers : Idle(x)]
    BY <1>1 DEF Call, LoadSubmit, LoadSpike, AdminReset, Begin
  <2>. QED
    BY <2>1
<1>2. ASSUME NEW v \in Workers, Step(v)
      PROVE  /\ v = w /\ alone[w] /\ pc[w] # "idle"
             /\ UNCHANGED <<alone, resets, faults>>
  <2>1. pc[v] # "idle" /\ UNCHANGED <<alone, resets, faults>>
    BY <1>2 DEF Step, Wipe, ClearReceipts, Admit, InsertReceipt,
                DispositionIncr, LogAdmission, ReadDepth, Report, history
  <2>2. alone[w]
    BY <2>1
  <2>3. v # w => pc'[w] = pc[w]
    BY <1>2 DEF Step, Wipe, ClearReceipts, Admit, InsertReceipt,
                DispositionIncr, LogAdmission, ReadDepth, Report, Goto, Done,
                TypeOK
  <2>. QED
    BY <2>1, <2>2, <2>3 DEF Undisturbed, Idle
<1>3. ASSUME NEW v \in Workers, Fail(v) PROVE FALSE
  <2>1. pc' = [pc EXCEPT ![v] = "idle"] /\ alone' = alone /\ pc[v] # "idle"
    BY <1>3 DEF Fail, Done, Goto, Idle
  <2>2. v # w /\ pc'[w] = pc[w] /\ alone[w]
    BY <2>1 DEF TypeOK
  <2>. QED
    BY <2>1, <2>2 DEF Undisturbed, Idle
<1>4. ~Restart
  BY DEF Restart
<1>. QED
  BY <1>1, <1>2, <1>3, <1>4 DEF Next

LEMMA NextUndisturbed == TypeOK /\ Undisturbed /\ [Next]_vars => Undisturbed'
<1> SUFFICES ASSUME TypeOK, Undisturbed, [Next]_vars,
                    NEW v \in Workers, NEW w \in Workers,
                    v # w, alone'[w], pc'[w] # "idle"
             PROVE  pc'[v] = "idle"
  BY DEF Undisturbed, Idle
<1>1. CASE UNCHANGED vars
  BY <1>1 DEF Undisturbed, Idle, vars, threads, history
<1>2. CASE Call(w) /\ \A u \in Workers : Idle(u)
  BY <1>2 DEF Call, LoadSubmit, LoadSpike, AdminReset, Begin, Idle, TypeOK
<1>3. CASE Step(w) /\ alone[w] /\ pc[w] # "idle"
  <2>1. pc[v] = "idle"
    BY <1>3 DEF Undisturbed, Idle
  <2>. QED
    BY <1>3, <2>1 DEF Step, Wipe, ClearReceipts, Admit, InsertReceipt,
                      DispositionIncr, LogAdmission, ReadDepth, Report, Goto,
                      Done, TypeOK
<1>. QED
  BY <1>1, <1>2, <1>3, AloneStep

\* One if the thread is in one of the places with a decision of that fate.
Held(w, f, at) == IF pc[w] \in at /\ decision[w].disposition = f THEN 1 ELSE 0

Wiped(w) ==
    /\ admitted[job[w].model] = 0 /\ queue[job[w].model] = <<>>
    /\ tally = NoCounts /\ logs = <<>>

\* The limiter and the evidence of a spike that runs alone.
GateOf(w) ==
    LET counts == job[w].counts
        m == job[w].model
    IN  /\ admitted[m] = counts["accepted"] + Held(w, "accepted", Working)
        /\ Len(queue[m]) = counts["delayed"] + Held(w, "delayed", Working)
        /\ counts["rejected"] + Held(w, "rejected", Working) > 0 =>
             admitted[m] = RateLimit[m] /\ Len(queue[m]) = QueueCapacity[m]

EvidenceOf(w) == \A f \in Fates :
    /\ Cardinality(Fated(f)) = job[w].counts[f] + Held(w, f, {"tally", "log"})
    /\ tally[f] = job[w].counts[f] + Held(w, f, {"log"})
    /\ Cardinality(Logged(f)) = job[w].counts[f]

SpikeOf(w) ==
    /\ pc[w] = "clear" => Wiped(w)
    /\ pc[w] \in {"admit", "insert", "tally", "log", "depth", "full"} =>
         GateOf(w) /\ EvidenceOf(w)
    /\ pc[w] = "full" => job[w].depth = Len(queue[job[w].model])

FreshInv == \A w \in Workers : alone[w] /\ job[w].op = "spike" => SpikeOf(w)

LEMMA InitFresh == Init => FreshInv
BY DEF Init, FreshInv, NoJob

\* The spike of w takes its step.
LEMMA StepFresh ==
    ASSUME TypeOK, TypeOK', GateInv, Apart, SpikeJobs, NEW w \in Workers, Step(w),
           job[w].op = "spike", job'[w].op = "spike", pc'[w] # "idle", SpikeOf(w)
    PROVE  SpikeOf(w)'
<1> DEFINE m == job[w].model
           counts == job[w].counts
           f == decision[w].disposition
<1>1. CASE Wipe(w)
  <2>1. /\ pc'[w] = "clear" /\ job'[w] = job[w]
        /\ ResetResilience
    BY <1>1 DEF Wipe, Goto, TypeOK
  <2>2. job[w] \in Job
    BY <1>1 DEF Wipe, SpikeJobs
  <2>. QED
    BY <2>1, <2>2 DEF SpikeOf, Wiped, ResetResilience, Job
<1>2. CASE ClearReceipts(w)
  <2>1. /\ pc[w] = "clear" /\ pc'[w] = "admit" /\ job' = job /\ receipts' = {}
        /\ UNCHANGED <<admitted, queue, tally, logs>>
    BY <1>2 DEF ClearReceipts, Goto, redis, TypeOK, SpikeJobs
  <2>2. counts = NoCounts /\ Wiped(w)
    BY <2>1 DEF SpikeJobs, SpikeOf
  <2>3. \A k : Held(w, k, Working)' = 0 /\ Held(w, k, {"tally", "log"})' = 0
               /\ Held(w, k, {"log"})' = 0
    BY <2>1 DEF Held, Working
  <2>4. \A k : Fated(k)' = {} /\ Logged(k)' = {}
    BY <2>1, <2>2 DEF Fated, Logged, Wiped
  <2>5. \A k : Cardinality(Fated(k)') = 0 /\ Cardinality(Logged(k)') = 0
    BY <2>4, FS_EmptySet
  <2>6. \A k \in Fates : counts[k] = 0 /\ tally'[k] = 0
    BY <2>1, <2>2 DEF Wiped, NoCounts
  <2>7. admitted'[m] = 0 /\ Len(queue'[m]) = 0
    BY <2>1, <2>2 DEF Wiped
  <2>8. GateOf(w)'
    BY <2>1, <2>3, <2>6, <2>7 DEF GateOf, Fates
  <2>9. EvidenceOf(w)'
    BY <2>1, <2>3, <2>5, <2>6 DEF EvidenceOf
  <2>. QED
    BY <2>1, <2>8, <2>9 DEF SpikeOf
<1>3. CASE Admit(w)
  <2> DEFINE g == decision'[w].disposition
  <2>1. /\ pc[w] = "admit" /\ pc'[w] = "insert" /\ job' = job
        /\ UNCHANGED <<tally, logs, receipts>>
        /\ m \in Models /\ counts \in [Fates -> Nat]
        /\ RateLimit[m] \in Nat /\ QueueCapacity[m] \in Nat
    BY <1>3, AdmissionConstants DEF Admit, Goto, TypeOK, Job, Working
  <2>2. /\ admitted[m] \in Nat /\ Len(queue[m]) \in Nat
        /\ Len(Append(queue[m], nextId)) = Len(queue[m]) + 1
        /\ admitted[m] <= RateLimit[m] /\ Len(queue[m]) <= QueueCapacity[m]
    BY <2>1 DEF TypeOK, GateInv, WithinLimits
  <2>3. GateOf(w) /\ EvidenceOf(w)
    BY <2>1 DEF SpikeOf
  <2>5. /\ \A k : /\ Held(w, k, {"tally", "log"})' = 0 /\ Held(w, k, {"log"})' = 0
                 /\ Held(w, k, Working)' = IF g = k THEN 1 ELSE 0
        /\ \A k : /\ Held(w, k, {"tally", "log"}) = 0 /\ Held(w, k, {"log"}) = 0
                 /\ Held(w, k, Working) = 0
    BY <2>1 DEF Held, Working
  <2>6. \A k : Fated(k)' = Fated(k) /\ Logged(k)' = Logged(k)
    BY <2>1 DEF Fated, Logged
  <2>7. EvidenceOf(w)'
    BY <2>1, <2>3, <2>5, <2>6 DEF EvidenceOf
  <2>8. /\ admitted[m] = counts["accepted"] /\ Len(queue[m]) = counts["delayed"]
        /\ counts["rejected"] > 0 =>
             admitted[m] = RateLimit[m] /\ Len(queue[m]) = QueueCapacity[m]
        /\ counts["rejected"] \in Nat
    BY <2>1, <2>3, <2>5 DEF GateOf, Fates
  <2>9. \/ g = "accepted" /\ admitted[m] < RateLimit[m]
           /\ admitted'[m] = admitted[m] + 1 /\ queue' = queue
        \/ g = "delayed" /\ Len(queue[m]) < QueueCapacity[m] /\ admitted' = admitted
           /\ Len(queue'[m]) = Len(queue[m]) + 1
        \/ g = "rejected" /\ UNCHANGED <<admitted, queue>>
           /\ admitted[m] >= RateLimit[m] /\ Len(queue[m]) >= QueueCapacity[m]
    BY <1>3, <2>1, <2>2
    DEF Admit, AdmitAccepted, AdmitDelayed, AdmitRejected, Decide, TypeOK
  <2> HIDE DEF m, counts, f, g
  <2>10. /\ admitted'[m] = counts["accepted"] + Held(w, "accepted", Working)'
         /\ Len(queue'[m]) = counts["delayed"] + Held(w, "delayed", Working)'
         /\ counts["rejected"] + Held(w, "rejected", Working)' > 0 =>
              admitted'[m] = RateLimit[m] /\ Len(queue'[m]) = QueueCapacity[m]
    <3>1. /\ Held(w, "accepted", Working)' = IF g = "accepted" THEN 1 ELSE 0
          /\ Held(w, "delayed", Working)' = IF g = "delayed" THEN 1 ELSE 0
          /\ Held(w, "rejected", Working)' = IF g = "rejected" THEN 1 ELSE 0
      BY <2>5
    <3>2. CASE g = "accepted"
      BY <3>1, <3>2, <2>1, <2>2, <2>8, <2>9
    <3>3. CASE g = "delayed"
      BY <3>1, <3>3, <2>1, <2>2, <2>8, <2>9
    <3>4. CASE g = "rejected"
      BY <3>1, <3>4, <2>1, <2>2, <2>8, <2>9
    <3>. QED
      BY <3>2, <3>3, <3>4, <2>9
  <2>11. GateOf(w)'
    BY <2>1, <2>10 DEF GateOf, m, counts
  <2>. QED
    BY <2>1, <2>7, <2>11 DEF SpikeOf
<1>4. CASE InsertReceipt(w)
  <2> DEFINE row == ReceiptOf(decision[w])
  <2>1. /\ pc[w] = "insert" /\ pc'[w] = "tally" /\ job' = job
        /\ UNCHANGED <<admitted, queue, tally, logs, decision>>
        /\ receipts' = receipts \union {row} /\ row.disposition = f
        /\ counts \in [Fates -> Nat]
    BY <1>4 DEF InsertReceipt, Goto, redis, TypeOK, Job, Working, ReceiptOf
  <2>2. GateOf(w) /\ EvidenceOf(w)
    BY <2>1 DEF SpikeOf
  <2>3. GateOf(w)'
    BY <2>1, <2>2 DEF GateOf, Held, Working
  <2>4. row \notin receipts
    BY <2>1 DEF Apart, IdsApart, ReceiptOf
  <2>5. \A k : Fated(k)' = IF k = f THEN Fated(k) \union {row} ELSE Fated(k)
    BY <2>1 DEF Fated
  <2>6. \A k : row \notin Fated(k)
    BY <2>4 DEF Fated
  <2>7. \A k : Cardinality(Fated(k)') = IF k = f THEN Cardinality(Fated(k)) + 1
                                               ELSE Cardinality(Fated(k))
    BY <2>5, <2>6, OneMore, Countable DEF Apart
  <2>8. \A k : Logged(k)' = Logged(k)
    BY <2>1 DEF Logged
  <2>9. \A k : /\ Held(w, k, {"tally", "log"}) = 0 /\ Held(w, k, {"log"}) = 0
               /\ Held(w, k, {"tally", "log"})' = (IF k = f THEN 1 ELSE 0)
               /\ Held(w, k, {"log"})' = 0
    BY <2>1 DEF Held
  <2>10. EvidenceOf(w)'
    <3> SUFFICES ASSUME NEW k \in Fates
                 PROVE  /\ Cardinality(Fated(k)') =
                             counts[k] + Held(w, k, {"tally", "log"})'
                        /\ tally'[k] = counts[k] + Held(w, k, {"log"})'
                        /\ Cardinality(Logged(k)') = counts[k]
      BY <2>1 DEF EvidenceOf
    <3> HIDE DEF counts, f, row
    <3>1. /\ Cardinality(Fated(k)) = counts[k] + Held(w, k, {"tally", "log"})
          /\ tally[k] = counts[k] + Held(w, k, {"log"})
          /\ Cardinality(Logged(k)) = counts[k] /\ counts[k] \in Nat
      BY <2>1, <2>2 DEF EvidenceOf, counts
    <3>. QED
      BY <3>1, <2>1, <2>7, <2>8, <2>9
  <2>. QED
    BY <2>1, <2>3, <2>10 DEF SpikeOf
<1>5. CASE DispositionIncr(w)
  <2>1. /\ pc[w] = "tally" /\ pc'[w] = "log" /\ job' = job
        /\ UNCHANGED <<admitted, queue, logs, receipts, decision>>
        /\ tally' = [tally EXCEPT ![f] = @ + 1] /\ tally \in [Fates -> Nat]
        /\ counts \in [Fates -> Nat] /\ f \in Fates
    BY <1>5 DEF DispositionIncr, Goto, TypeOK, Job, Working, Decision
  <2>2. GateOf(w) /\ EvidenceOf(w)
    BY <2>1 DEF SpikeOf
  <2>3. GateOf(w)'
    BY <2>1, <2>2 DEF GateOf, Held, Working
  <2>4. \A k : Fated(k)' = Fated(k) /\ Logged(k)' = Logged(k)
    BY <2>1 DEF Fated, Logged
  <2>5. \A k : /\ Held(w, k, {"tally", "log"})' = Held(w, k, {"tally", "log"})
               /\ Held(w, k, {"log"}) = 0
               /\ Held(w, k, {"log"})' = (IF k = f THEN 1 ELSE 0)
    BY <2>1 DEF Held
  <2>6. EvidenceOf(w)'
    BY <2>1, <2>2, <2>4, <2>5 DEF EvidenceOf
  <2>. QED
    BY <2>1, <2>3, <2>6 DEF SpikeOf
<1>6. CASE LogAdmission(w)
  <2> DEFINE n == Len(logs)
             c == [counts EXCEPT ![f] = @ + 1]
  <2>1. /\ pc[w] = "log" /\ pc'[w] \in {"admit", "depth"}
        /\ job'[w] = [job[w] EXCEPT !.counts = c]
        /\ UNCHANGED <<admitted, queue, tally, receipts>>
        /\ logs' = Append(logs, decision[w]) /\ logs \in Seq(Decision)
        /\ counts \in [Fates -> Nat] /\ f \in Fates /\ decision[w] \in Decision
        /\ job[w] \in Job
    BY <1>6 DEF LogAdmission, Goto, TypeOK, Job, Working, Decision
  <2>2. GateOf(w) /\ EvidenceOf(w)
    BY <2>1 DEF SpikeOf
  <2>3. /\ job'[w].model = m /\ job'[w].counts = c
        /\ \A k \in Fates : c[k] = counts[k] + (IF k = f THEN 1 ELSE 0)
    BY <2>1 DEF Job
  <2>4. /\ \A k, at : at \in {Working, {"tally", "log"}, {"log"}} =>
             /\ Held(w, k, at) = IF k = f THEN 1 ELSE 0
             /\ Held(w, k, at)' = 0
    BY <2>1 DEF Held, Working
  <2>5. \A k : Fated(k)' = Fated(k)
    BY <2>1 DEF Fated
  <2>6. /\ n \in Nat /\ Len(logs') = n + 1 /\ logs'[n + 1] = decision[w]
        /\ \A i \in 1..n : logs'[i] = logs[i]
    BY <2>1
  <2>7. \A k : /\ Logged(k)' = IF k = f THEN Logged(k) \union {n + 1} ELSE Logged(k)
               /\ n + 1 \notin Logged(k)
    BY <2>6 DEF Logged
  <2>8. \A k : Cardinality(Logged(k)') = IF k = f THEN Cardinality(Logged(k)) + 1
                                                ELSE Cardinality(Logged(k))
    BY <2>7, OneMore, Countable DEF Apart
  <2> HIDE DEF n, c
  <2>9. GateOf(w)'
    <3>1. \A k \in Fates : c[k] + Held(w, k, Working)' = counts[k] + Held(w, k, Working)
      BY <2>1, <2>3, <2>4
    <3>2. "accepted" \in Fates /\ "delayed" \in Fates /\ "rejected" \in Fates
      BY DEF Fates
    <3>. QED
      BY <2>1, <2>2, <2>3, <3>1, <3>2 DEF GateOf
  <2>10. EvidenceOf(w)'
    <3> SUFFICES ASSUME NEW k \in Fates
                 PROVE  /\ Cardinality(Fated(k)') =
                             c[k] + Held(w, k, {"tally", "log"})'
                        /\ tally'[k] = c[k] + Held(w, k, {"log"})'
                        /\ Cardinality(Logged(k)') = c[k]
      BY <2>3 DEF EvidenceOf
    <3>1. /\ Cardinality(Fated(k)) = counts[k] + Held(w, k, {"tally", "log"})
          /\ tally[k] = counts[k] + Held(w, k, {"log"})
          /\ Cardinality(Logged(k)) = counts[k] /\ counts[k] \in Nat
      BY <2>1, <2>2 DEF EvidenceOf
    <3>2. /\ Held(w, k, {"tally", "log"}) = IF k = f THEN 1 ELSE 0
          /\ Held(w, k, {"log"}) = IF k = f THEN 1 ELSE 0
          /\ Held(w, k, {"tally", "log"})' = 0 /\ Held(w, k, {"log"})' = 0
      BY <2>4
    <3>3. c[k] = counts[k] + (IF k = f THEN 1 ELSE 0)
      BY <2>3
    <3>. QED
      BY <3>1, <3>2, <3>3, <2>1, <2>5, <2>8
  <2>. QED
    BY <2>1, <2>9, <2>10 DEF SpikeOf
<1>7. CASE ReadDepth(w)
  <2>1. /\ pc[w] = "depth" /\ pc'[w] = "full"
        /\ job'[w] = [job[w] EXCEPT !.depth = Len(queue[m])] /\ job[w] \in Job
        /\ UNCHANGED <<admitted, queue, tally, logs, receipts, decision>>
    BY <1>7 DEF ReadDepth, Goto, redis, TypeOK
  <2>2. /\ job'[w].model = m /\ job'[w].counts = counts
        /\ job'[w].depth = Len(queue[m])
    BY <2>1 DEF Job
  <2>3. GateOf(w) /\ EvidenceOf(w)
    BY <2>1 DEF SpikeOf
  <2>4. \A k, at : at \in {Working, {"tally", "log"}, {"log"}} =>
          Held(w, k, at) = 0 /\ Held(w, k, at)' = 0
    BY <2>1 DEF Held, Working
  <2>5. GateOf(w)'
    BY <2>1, <2>2, <2>3, <2>4 DEF GateOf
  <2>6. \A k : Fated(k)' = Fated(k) /\ Logged(k)' = Logged(k)
    BY <2>1 DEF Fated, Logged
  <2>7. EvidenceOf(w)'
    BY <2>1, <2>2, <2>3, <2>4, <2>6 DEF EvidenceOf
  <2>. QED
    BY <2>1, <2>2, <2>5, <2>7 DEF SpikeOf
<1>8. ~Report(w)
  BY DEF Report, Done, Goto, TypeOK
<1>. QED
  BY <1>1, <1>2, <1>3, <1>4, <1>5, <1>6, <1>7, <1>8 DEF Step

LEMMA NextFresh ==
    TypeOK /\ TypeOK' /\ GateInv /\ Apart /\ SpikeJobs /\ Undisturbed /\ FreshInv /\
    [Next]_vars => FreshInv'
<1> SUFFICES ASSUME TypeOK, TypeOK', GateInv, Apart, SpikeJobs, Undisturbed,
                    FreshInv, [Next]_vars,
                    NEW w \in Workers, alone'[w], job'[w].op = "spike"
             PROVE  SpikeOf(w)'
  BY DEF FreshInv
<1>1. CASE pc'[w] = "idle"
  BY <1>1 DEF SpikeOf
<1>2. CASE UNCHANGED vars
  <2>1. UNCHANGED <<admitted, queue, tally, logs, receipts, pc, job, decision, alone>>
    BY <1>2 DEF vars, redis, threads, history
  <2>2. SpikeOf(w)
    BY <2>1 DEF FreshInv
  <2>3. \A k, at : Held(w, k, at)' = Held(w, k, at)
    BY <2>1 DEF Held
  <2>4. \A k : Fated(k)' = Fated(k) /\ Logged(k)' = Logged(k)
    BY <2>1 DEF Fated, Logged
  <2>5. /\ Wiped(w) => Wiped(w)'
        /\ GateOf(w) => GateOf(w)'
        /\ EvidenceOf(w) => EvidenceOf(w)'
    BY <2>1, <2>3, <2>4 DEF Wiped, GateOf, EvidenceOf, Working
  <2>. QED
    BY <2>1, <2>2, <2>5 DEF SpikeOf
<1>3. CASE Call(w)
  <2>1. pc'[w] \in {"wipe", "truncate"}
    <3>1. CASE \E m \in Models : LoadSubmit(w, m)
      BY <3>1 DEF LoadSubmit, Begin, TypeOK
    <3>2. CASE \E m \in Models, n \in 1..MaxCount : LoadSpike(w, m, n)
      BY <3>2 DEF LoadSpike, Begin, TypeOK
    <3>3. CASE AdminReset(w)
      BY <3>3 DEF AdminReset, Begin, TypeOK
    <3>. QED
      BY <1>3, <3>1, <3>2, <3>3 DEF Call
  <2>. QED
    BY <2>1 DEF SpikeOf
<1>4. CASE pc'[w] # "idle" /\ Step(w) /\ alone[w]
  <2>1. job[w].op = "spike"
    <3>1. job'[w] = job[w] \/ job'[w] = NoJob \/ job'[w].op = job[w].op
      BY <1>4 DEF Step, Wipe, ClearReceipts, Admit, InsertReceipt,
                  DispositionIncr, LogAdmission, ReadDepth, Report, Done,
                  TypeOK, Job, Working
    <3>. QED
      BY <3>1 DEF NoJob
  <2>. QED
    BY <1>4, <2>1, StepFresh DEF FreshInv
<1>. QED
  BY <1>1, <1>2, <1>3, <1>4, AloneStep

\* A burst fills the limit, then the queue, then overflows: the row that the
\* matrix projects for it.
LEMMA BurstIsRow ==
    ASSUME NEW m \in Models, NEW counts \in [Fates -> Nat],
           counts["accepted"] <= RateLimit[m],
           counts["delayed"] <= QueueCapacity[m],
           counts["delayed"] > 0 => counts["accepted"] = RateLimit[m],
           counts["rejected"] > 0 => /\ counts["accepted"] = RateLimit[m]
                                     /\ counts["delayed"] = QueueCapacity[m]
    PROVE  counts = MatrixRow(m, Total(counts))
<1> DEFINE a == counts["accepted"]
           d == counts["delayed"]
           r == counts["rejected"]
           row == MatrixRow(m, Total(counts))
<1>1. /\ a \in Nat /\ d \in Nat /\ r \in Nat
      /\ RateLimit[m] \in Nat /\ QueueCapacity[m] \in Nat
  BY AdmissionConstants DEF Fates
<1>2. /\ Total(counts) = a + d + r
      /\ a <= RateLimit[m] /\ d <= QueueCapacity[m]
      /\ d > 0 => a = RateLimit[m]
      /\ r > 0 => a = RateLimit[m] /\ d = QueueCapacity[m]
  BY DEF Total
<1> HIDE DEF a, d, r
<1>3. /\ row \in [Fates -> {row[f] : f \in Fates}]
      /\ row["accepted"] = IF Total(counts) < RateLimit[m] THEN Total(counts)
                                                          ELSE RateLimit[m]
      /\ row["delayed"] = IF Total(counts) - row["accepted"] < QueueCapacity[m]
                          THEN Total(counts) - row["accepted"] ELSE QueueCapacity[m]
      /\ row["rejected"] = Total(counts) - row["accepted"] - row["delayed"]
  BY DEF MatrixRow, Fates
<1> HIDE DEF row
<1>4. row["accepted"] = a
  BY <1>1, <1>2, <1>3
<1>5. row["delayed"] = d
  <2>1. Total(counts) - a = d + r
    BY <1>1, <1>2
  <2>2. row["delayed"] = IF d + r < QueueCapacity[m] THEN d + r ELSE QueueCapacity[m]
    BY <2>1, <1>3, <1>4
  <2>. QED
    BY <2>2, <1>1, <1>2
<1>6. row["rejected"] = r
  BY <1>1, <1>2, <1>3, <1>4, <1>5
<1>7. \A f \in Fates : row[f] = counts[f]
  BY <1>4, <1>5, <1>6 DEF Fates, a, d, r
<1>8. row = counts
  BY <1>3, <1>7
<1>. QED
  BY <1>8 DEF row

SpikeInv == SpikeJobs /\ Undisturbed /\ FreshInv /\ SpikeMatchesMatrix

\* What a spike that ran alone reports.
LEMMA ReportMatches ==
    ASSUME TypeOK, GateInv, SpikeInv, NEW w \in Workers, Report(w)
    PROVE  SpikeMatchesMatrix'
<1> DEFINE j == job[w]
           m == j.model
           counts == j.counts
           r == [model |-> m, submitted |-> j.size, counts |-> counts,
                 queue_depth |-> j.depth,
                 queue_full |-> Len(queue[m]) >= QueueCapacity[m],
                 alone |-> alone[w]]
<1>1. reports' = reports \union {r} /\ pc[w] = "full"
  BY DEF Report
<1>2. /\ j \in Job /\ m \in Models /\ counts \in [Fates -> Nat]
      /\ j.op = "spike" /\ Total(counts) = j.size
  BY <1>1 DEF TypeOK, Job, Working, SpikeInv, SpikeJobs
<1>3. ASSUME alone[w]
      PROVE  /\ counts = MatrixRow(m, j.size)
             /\ j.depth = counts["delayed"]
             /\ Len(queue[m]) >= QueueCapacity[m] <=> counts["delayed"] = QueueCapacity[m]
  <2>1. GateOf(w) /\ j.depth = Len(queue[m])
    BY <1>1, <1>2, <1>3 DEF SpikeInv, FreshInv, SpikeOf
  <2>2. \A k : Held(w, k, Working) = 0
    BY <1>1 DEF Held, Working
  <2>3. \A k \in Fates : counts[k] \in Nat
    BY <1>2
  <2>4. /\ admitted[m] = counts["accepted"] /\ Len(queue[m]) = counts["delayed"]
        /\ counts["rejected"] > 0 =>
             admitted[m] = RateLimit[m] /\ Len(queue[m]) = QueueCapacity[m]
    BY <2>1, <2>2, <2>3 DEF GateOf, Fates
  <2>5. /\ admitted[m] <= RateLimit[m] /\ Len(queue[m]) <= QueueCapacity[m]
        /\ queue[m] # <<>> => admitted[m] = RateLimit[m]
    BY <1>2 DEF GateInv, WithinLimits, QueueOnlyWhenSaturated
  <2>6. counts["delayed"] > 0 => admitted[m] = RateLimit[m]
    <3>1. queue[m] = <<>> => Len(queue[m]) = 0
      OBVIOUS
    <3>. QED
      BY <3>1, <2>4, <2>5
  <2>7. QueueCapacity[m] \in Nat /\ counts["delayed"] \in Nat
    BY <1>2, AdmissionConstants DEF Fates
  <2> HIDE DEF j, m, counts
  <2>8. counts = MatrixRow(m, Total(counts))
    BY <1>2, <2>4, <2>5, <2>6, BurstIsRow
  <2>. QED
    BY <1>2, <2>1, <2>4, <2>5, <2>7, <2>8
<1>4. r.alone => /\ r.counts = MatrixRow(r.model, r.submitted)
                 /\ r.queue_depth = r.counts["delayed"]
                 /\ r.queue_full <=> r.counts["delayed"] = QueueCapacity[r.model]
  BY <1>3
<1> HIDE DEF r
<1>5. ASSUME NEW x \in reports', x.alone
      PROVE  /\ x.counts = MatrixRow(x.model, x.submitted)
             /\ x.queue_depth = x.counts["delayed"]
             /\ x.queue_full <=> x.counts["delayed"] = QueueCapacity[x.model]
  <2>1. CASE x = r
    BY <2>1, <1>4, <1>5
  <2>2. CASE x \in reports
    BY <2>2, <1>5 DEF SpikeInv, SpikeMatchesMatrix
  <2>. QED
    BY <2>1, <2>2, <1>1, <1>5
<1>. QED
  BY <1>5 DEF SpikeMatchesMatrix, MatrixRow

LEMMA InitSpike == Init => SpikeInv
BY InitSpikeJobs, InitUndisturbed, InitFresh DEF Init, SpikeInv, SpikeMatchesMatrix

LEMMA NextSpike ==
    TypeOK /\ TypeOK' /\ GateInv /\ Apart /\ SpikeInv /\ [Next]_vars => SpikeInv'
<1> SUFFICES ASSUME TypeOK, TypeOK', GateInv, Apart, SpikeInv, [Next]_vars
             PROVE  SpikeMatchesMatrix'
  BY NextSpikeJobs, NextUndisturbed, NextFresh DEF SpikeInv
<1>1. reports' = reports \/ \E w \in Workers : Report(w)
  BY DEF Next, Call, LoadSubmit, LoadSpike, AdminReset, Begin, Step, Wipe,
         ClearReceipts, Admit, InsertReceipt, DispositionIncr, LogAdmission,
         ReadDepth, Fail, Restart, vars, history
<1>. QED
  BY <1>1, ReportMatches DEF SpikeInv, SpikeMatchesMatrix, MatrixRow

LEMMA SpikeInvariant == Spec => [](TypeOK /\ SpikeInv)
BY InitType, NextType, InitGate, NextGate, InitApart, NextApart, InitSpike,
   NextSpike, PTL DEF Spec

\* A spike that nobody disturbed reports the row of /resilience/matrix for its
\* size: for every limit, capacity and size, and whatever ran before it
\* (run_spike).
THEOREM SpikeIsItsRow == Spec => []SpikeMatchesMatrix
<1>1. SpikeInv => SpikeMatchesMatrix
  BY DEF SpikeInv
<1>. QED
  BY <1>1, SpikeInvariant, PTL

\* A spike that nobody disturbed finds tally, log and ledger holding its own
\* requests and nothing of an earlier run (run_spike).
THEOREM SpikeIsFresh == Spec => []SpikeEvidenceIsFresh
<1>1. TypeOK /\ SpikeInv => SpikeEvidenceIsFresh
  <2> SUFFICES ASSUME TypeOK, SpikeInv, NEW w \in Workers, pc[w] = "depth",
                      alone[w], NEW f \in Fates
               PROVE  /\ Cardinality(Fated(f)) = job[w].counts[f]
                      /\ tally[f] = job[w].counts[f]
                      /\ Cardinality(Logged(f)) = job[w].counts[f]
    BY DEF SpikeEvidenceIsFresh
  <2>1. EvidenceOf(w)
    BY DEF SpikeInv, SpikeJobs, FreshInv, SpikeOf
  <2>2. Held(w, f, {"tally", "log"}) = 0 /\ Held(w, f, {"log"}) = 0
    BY DEF Held
  <2>3. job[w].counts[f] \in Nat
    BY DEF TypeOK, Job
  <2>. QED
    BY <2>1, <2>2, <2>3 DEF EvidenceOf
<1>. QED
  BY <1>1, SpikeInvariant, PTL
============================================================================
