------------------------- MODULE CircuitDrillProofs -------------------------
(***************************************************************************)
(* Proofs about CircuitDrill and CircuitViews, for every script and any    *)
(* number of threads, drills, resets, failures and restarts.               *)
(***************************************************************************)
EXTENDS CircuitViews, FiniteSetTheorems, TLAPS

(***************************************************************************)
(* The types of the stores and the threads.                                *)
(***************************************************************************)
Transitions == {"shed", "recovered", "probe_failed", "healthy", "failover",
                "trip"}

LogEntry == [primary_condition : Conditions,
             circuit : {"closed", "open", "half_open"},
             transition : Transitions, role : Roles, primary_attempts : Nat]

Run == [drill : Nat, breaker : BreakerState, log : Seq(LogEntry),
        served : [Roles -> Nat], attempts : Nat, unguarded : Nat,
        spent : Seq(Nat), recovered : BOOLEAN]

Row == [drill : Nat, seq : Nat, role : Roles]

Summary == [set : {TRUE}, served : [Roles -> Nat], recovered : BOOLEAN,
            final_state : {"closed", "open"}, attempts : Nat,
            attempts_without_breaker : Nat]

\* Where a drill is once its loop is over
Saving == {"state", "timeline", "retrylog", "summary"}

Places == {"idle", "reset", "clear", "start", "insert", "count", "truncate",
           "wipe"} \union Saving

\* A thread in the loop has a request left, and one past it has none.
InScript(w) ==
    /\ pc[w] = "insert" => Len(run[w].log) < Len(Script)
    /\ pc[w] = "count" => Len(run[w].log) \in 1..Len(Script)
    /\ pc[w] \in Saving => Len(run[w].log) = Len(Script)

DrillType ==
    /\ counts \in [Roles -> Nat]
    /\ timeline \in Seq(LogEntry) /\ retrylog \in Seq(LogEntry)
    /\ summary \in {Absent} \union Summary
    /\ receipts \subseteq Row
    /\ pc \in [Workers -> Places]
    /\ run \in [Workers -> Run]
    /\ ops \in Nat /\ faults \in Nat
    /\ \A w \in Workers : InScript(w)

LEMMA ScriptType ==
    /\ Script \in Seq(Conditions) /\ Len(Script) \in Nat \ {0}
    /\ \A i \in 1..Len(Script) : Script[i] \in Conditions
BY DrillConstants

LEMMA HandleType ==
    ASSUME NEW b \in BreakerState, NEW c
    PROVE  /\ Handle(b, c).breaker \in BreakerState
           /\ Handle(b, c).role \in Roles
           /\ Handle(b, c).attempts \in Nat
           /\ Handle(b, c).transition \in Transitions
           /\ Handling(b) \in {"closed", "open", "half_open"}
BY BreakerConstants
DEF Handle, Handling, Shed, ProbeSucceeds, ProbeFails, Serve, FailOver, Outcome,
    Fresh, BreakerState, Roles, Transitions

LEMMA FreshRunType == FreshRun \in Run
BY DEF FreshRun, Run, Fresh, BreakerState, Roles

\* What one pass of the loop does with the locals of a run
NextRun(r) ==
    LET c == Script[Len(r.log) + 1]
        out == Handle(r.breaker, c)
    IN  [drill |-> r.drill,
         breaker |-> out.breaker,
         log |-> Append(r.log,
             [primary_condition |-> c, circuit |-> Handling(r.breaker),
              transition |-> out.transition, role |-> out.role,
              primary_attempts |-> out.attempts]),
         served |-> [r.served EXCEPT ![out.role] = @ + 1],
         attempts |-> r.attempts + out.attempts,
         unguarded |-> r.unguarded + UnguardedAttempts(c),
         spent |-> Append(r.spent, r.attempts),
         recovered |-> r.recovered \/ out.transition = "recovered"]

LEMMA NextRunType ==
    ASSUME NEW r \in Run, Len(r.log) < Len(Script)
    PROVE  /\ NextRun(r) \in Run
           /\ Len(NextRun(r).log) = Len(r.log) + 1
           /\ NextRun(r).log[Len(r.log) + 1].role
                = Handle(r.breaker, Script[Len(r.log) + 1]).role
           /\ NextRun(r).log[Len(r.log) + 1].primary_attempts
                = Handle(r.breaker, Script[Len(r.log) + 1]).attempts
           /\ \A i \in 1..Len(r.log) : NextRun(r).log[i] = r.log[i]
<1> DEFINE c == Script[Len(r.log) + 1]
           out == Handle(r.breaker, c)
           entry == [primary_condition |-> c, circuit |-> Handling(r.breaker),
                     transition |-> out.transition, role |-> out.role,
                     primary_attempts |-> out.attempts]
<1>1. /\ r.drill \in Nat /\ r.breaker \in BreakerState
      /\ r.log \in Seq(LogEntry) /\ r.served \in [Roles -> Nat]
      /\ r.attempts \in Nat /\ r.unguarded \in Nat /\ r.spent \in Seq(Nat)
      /\ r.recovered \in BOOLEAN
  BY DEF Run
<1>2. Len(r.log) + 1 \in 1..Len(Script)
  BY <1>1, ScriptType
<1>3. c \in Conditions
  BY <1>2, ScriptType
<1>4. /\ out.breaker \in BreakerState /\ out.role \in Roles
      /\ out.attempts \in Nat /\ out.transition \in Transitions
      /\ Handling(r.breaker) \in {"closed", "open", "half_open"}
  BY <1>1, HandleType
<1>5. UnguardedAttempts(c) \in Nat
  BY BreakerConstants DEF UnguardedAttempts
<1> HIDE DEF c, out
<1>6. /\ entry \in LogEntry /\ entry.role = out.role
      /\ entry.primary_attempts = out.attempts
  BY <1>3, <1>4 DEF LogEntry
<1>7. NextRun(r) = [drill |-> r.drill, breaker |-> out.breaker,
                    log |-> Append(r.log, entry),
                    served |-> [r.served EXCEPT ![out.role] = @ + 1],
                    attempts |-> r.attempts + out.attempts,
                    unguarded |-> r.unguarded + UnguardedAttempts(c),
                    spent |-> Append(r.spent, r.attempts),
                    recovered |-> r.recovered \/ out.transition = "recovered"]
  BY DEF NextRun, c, out
<1> HIDE DEF entry
<1>8. /\ Append(r.log, entry) \in Seq(LogEntry)
      /\ Len(Append(r.log, entry)) = Len(r.log) + 1
      /\ Append(r.log, entry)[Len(r.log) + 1] = entry
      /\ \A i \in 1..Len(r.log) : Append(r.log, entry)[i] = r.log[i]
  BY <1>1, <1>6
<1>9. Append(r.spent, r.attempts) \in Seq(Nat)
  BY <1>1
<1>10. [r.served EXCEPT ![out.role] = @ + 1] \in [Roles -> Nat]
  BY <1>1, <1>4
<1>11. NextRun(r) \in Run
  <2>1. /\ r.attempts + out.attempts \in Nat
        /\ r.unguarded + UnguardedAttempts(c) \in Nat
        /\ (r.recovered \/ out.transition = "recovered") \in BOOLEAN
    BY <1>1, <1>4, <1>5
  <2>. QED
    BY <1>1, <1>4, <1>7, <1>8, <1>9, <1>10, <2>1 DEF Run
<1>. QED
  BY <1>6, <1>7, <1>8, <1>11 DEF c, out

LEMMA RequestRun ==
    ASSUME DrillType, NEW w \in Workers, HandleRequest(w)
    PROVE  run' = [run EXCEPT ![w] = NextRun(run[w])]
<1>1. run[w] \in Run
  BY DEF DrillType
<1>2. PICK x : run' = [run EXCEPT ![w] = x]
  BY Zenon DEF HandleRequest
<1>3. run'[w] = NextRun(run[w])
  <2>1. run[w] = [drill |-> run[w].drill, breaker |-> run[w].breaker,
                  log |-> run[w].log, served |-> run[w].served,
                  attempts |-> run[w].attempts, unguarded |-> run[w].unguarded,
                  spent |-> run[w].spent, recovered |-> run[w].recovered]
    BY <1>1 DEF Run
  <2>. QED
    BY <2>1 DEF DrillType, HandleRequest, NextRun
<1>. QED
  BY <1>2, <1>3

LEMMA InitDrill == Init => DrillType
BY FreshRunType, DrillConstants
DEF Init, DrillType, Absent, Places, Saving, InScript, Roles

LEMMA NextDrill == DrillType /\ [Next]_vars => DrillType'
<1> SUFFICES ASSUME DrillType, [Next]_vars PROVE DrillType'
  OBVIOUS
<1>1. ASSUME NEW w \in Workers, Drill(w) PROVE DrillType'
  BY <1>1 DEF DrillType, Drill, Begin, Goto, Idle, redis, Places, Saving, InScript
<1>2. ASSUME NEW w \in Workers, AdminReset(w) PROVE DrillType'
  BY <1>2 DEF DrillType, AdminReset, Begin, Goto, Idle, redis, Places, Saving,
              InScript
<1>3. ASSUME NEW w \in Workers, Reset(w) PROVE DrillType'
  BY <1>3 DEF DrillType, Reset, ResetCircuit, Goto, Places, Saving, InScript,
              Absent
<1>4. ASSUME NEW w \in Workers, ClearReceipts(w) PROVE DrillType'
  BY <1>4 DEF DrillType, ClearReceipts, Goto, redis, Places, Saving, InScript
<1>5. ASSUME NEW w \in Workers, StartLoop(w) PROVE DrillType'
  <2>1. [FreshRun EXCEPT !.drill = ops] \in Run
    BY FreshRunType DEF DrillType, Run
  <2>2. Len([FreshRun EXCEPT !.drill = ops].log) = 0
    BY DEF FreshRun
  <2>. QED
    BY <1>5, <2>1, <2>2, ScriptType
    DEF DrillType, StartLoop, Goto, redis, Places, Saving, InScript
<1>6. ASSUME NEW w \in Workers, HandleRequest(w) PROVE DrillType'
  <2>1. /\ run[w] \in Run /\ pc[w] = "insert" /\ Len(run[w].log) < Len(Script)
        /\ run[w].log \in Seq(LogEntry) /\ run[w].breaker \in BreakerState
        /\ run[w].drill \in Nat
    BY <1>6 DEF DrillType, HandleRequest, InScript, Run
  <2>2. run' = [run EXCEPT ![w] = NextRun(run[w])]
    BY <1>6, RequestRun
  <2>3. NextRun(run[w]) \in Run /\ Len(NextRun(run[w]).log) = Len(run[w].log) + 1
    BY <2>1, NextRunType
  <2>4. Len(NextRun(run[w]).log) \in 1..Len(Script)
    BY <2>1, <2>3, ScriptType
  <2>5. Handle(run[w].breaker, Script[Len(run[w].log) + 1]).role \in Roles
    BY <2>1, HandleType
  <2>6. receipts' \subseteq Row
    <3> DEFINE role == Handle(run[w].breaker, Script[Len(run[w].log) + 1]).role
    <3>1. receipts' = receipts \union {ReceiptRow(run[w], role)}
      BY <1>6 DEF HandleRequest
    <3>. HIDE DEF role
    <3>2. ReceiptRow(run[w], role) \in Row
      BY <2>1, <2>5 DEF ReceiptRow, Row, role
    <3>. QED
      BY <3>1, <3>2 DEF DrillType
  <2>7. /\ pc' = [pc EXCEPT ![w] = "count"]
        /\ UNCHANGED <<counts, timeline, retrylog, summary, ops, faults>>
    BY <1>6 DEF HandleRequest, Goto, redis
  <2>8. run' \in [Workers -> Run] /\ \A v \in Workers : InScript(v)'
    BY <2>2, <2>3, <2>4, <2>7 DEF DrillType, InScript, Saving
  <2>. QED
    BY <2>6, <2>7, <2>8 DEF DrillType, Places
<1>7. ASSUME NEW w \in Workers, CircuitIncr(w) PROVE DrillType'
  <2>1. LastRole(w) \in Roles
    <3>1. run[w].log \in Seq(LogEntry) /\ Len(run[w].log) \in 1..Len(Script)
      BY <1>7 DEF DrillType, CircuitIncr, InScript, Run
    <3>2. run[w].log[Len(run[w].log)] \in LogEntry
      BY <3>1
    <3>. QED
      BY <3>2 DEF LastRole, LogEntry
  <2>2. /\ counts' = [counts EXCEPT ![LastRole(w)] = @ + 1]
        /\ pc' = [pc EXCEPT ![w] = IF Len(run[w].log) < Len(Script) THEN "insert"
                                   ELSE "state"]
        /\ UNCHANGED <<timeline, retrylog, summary, receipts, run, ops, faults>>
    BY <1>7 DEF CircuitIncr, Goto
  <2>3. counts' \in [Roles -> Nat]
    BY <2>1, <2>2 DEF DrillType
  <2>4. \A v \in Workers : InScript(v)'
    BY <1>7, <2>2, ScriptType DEF DrillType, CircuitIncr, InScript, Saving, Run
  <2>. QED
    BY <2>2, <2>3, <2>4 DEF DrillType, Places, Saving
<1>8. ASSUME NEW w \in Workers, SetState(w) PROVE DrillType'
  BY <1>8 DEF DrillType, SetState, Goto, Places, Saving, InScript
<1>9. ASSUME NEW w \in Workers, SetTimeline(w) PROVE DrillType'
  BY <1>9 DEF DrillType, SetTimeline, Goto, Places, Saving, InScript, Run
<1>10. ASSUME NEW w \in Workers, SetRetrylog(w) PROVE DrillType'
  BY <1>10 DEF DrillType, SetRetrylog, Goto, Places, Saving, InScript, Run
<1>11. ASSUME NEW w \in Workers, SetSummary(w) PROVE DrillType'
  <2>1. summary' \in Summary
    BY <1>11 DEF DrillType, SetSummary, Summary, Run, BreakerState
  <2>. QED
    BY <1>11, <2>1 DEF DrillType, SetSummary, Goto, Places, Saving, InScript
<1>12. ASSUME NEW w \in Workers, Fail(w) PROVE DrillType'
  BY <1>12 DEF DrillType, Fail, Goto, redis, Places, Saving, InScript
<1>13. CASE Restart
  <2>1. run' \in [Workers -> Run] /\ pc' \in [Workers -> Places]
    BY <1>13, FreshRunType DEF Restart, Places
  <2>2. /\ counts' \in [Roles -> Nat] /\ summary' \in {Absent} \union Summary
        /\ timeline' \in Seq(LogEntry) /\ retrylog' \in Seq(LogEntry)
    <3>1. CASE ResetCircuit
      BY <3>1 DEF ResetCircuit
    <3>2. CASE UNCHANGED redis
      BY <3>2 DEF DrillType, redis
    <3>. QED
      BY <1>13, <3>1, <3>2 DEF Restart
  <2>3. receipts' \subseteq Row /\ ops' \in Nat /\ faults' \in Nat
    BY <1>13 DEF DrillType, Restart
  <2>4. \A w \in Workers : InScript(w)'
    BY <1>13 DEF Restart, InScript, Saving
  <2>. QED
    BY <2>1, <2>2, <2>3, <2>4 DEF DrillType
<1>14. CASE UNCHANGED vars
  BY <1>14 DEF DrillType, vars, redis, InScript
<1>. QED
  BY <1>1, <1>2, <1>3, <1>4, <1>5, <1>6, <1>7, <1>8, <1>9, <1>10, <1>11, <1>12,
     <1>13, <1>14
  DEF Next, Step

(***************************************************************************)
(* Every thread runs the breaker.                                          *)
(***************************************************************************)
LEMMA LocalBreaker ==
    ASSUME NEW w, NEW b, NEW c
    PROVE  /\ Local(w)!Fresh = Fresh /\ Local(w)!Roles = Roles
           /\ Local(w)!Handling(b) = Handling(b)
           /\ Local(w)!UnguardedAttempts(c) = UnguardedAttempts(c)
           /\ Local(w)!Handle(b, c) = Handle(b, c)
<1>1. Local(w)!Fresh = Fresh /\ Local(w)!Roles = Roles
  BY DEF Local!Fresh, Fresh, Local!Roles, Roles
<1>2. Local(w)!Handling(b) = Handling(b)
  BY DEF Local!Handling, Handling
<1>3. Local(w)!UnguardedAttempts(c) = UnguardedAttempts(c)
  BY DEF Local!UnguardedAttempts, UnguardedAttempts
<1>4. Local(w)!Handle(b, c) = Handle(b, c)
  BY Zenon
  DEF Local!Handle, Local!Handling, Local!Shed, Local!ProbeSucceeds,
      Local!ProbeFails, Local!Serve, Local!FailOver, Local!Outcome, Local!Fresh,
      Handle, Handling, Shed, ProbeSucceeds, ProbeFails, Serve, FailOver,
      Outcome, Fresh
<1>. QED
  BY <1>1, <1>2, <1>3, <1>4

LEMMA ThreadStep ==
    ASSUME DrillType, [Next]_vars, NEW w \in Workers
    PROVE  Local(w)!Next \/ Local(w)!Init' \/ UNCHANGED Local(w)!vars
<1>1. CASE UNCHANGED run
  BY <1>1 DEF Local!vars
<1>2. ASSUME NEW v \in Workers, StartLoop(v)
      PROVE  Local(w)!Init' \/ UNCHANGED Local(w)!vars
  <2>1. CASE v # w
    BY <1>2, <2>1 DEF DrillType, StartLoop, Local!vars
  <2>2. CASE v = w
    <3>1. run'[w] = [FreshRun EXCEPT !.drill = ops]
      BY <1>2, <2>2 DEF DrillType, StartLoop
    <3>. QED
      BY <3>1 DEF FreshRun, Fresh, Roles, Local!Init, Local!Fresh, Local!Roles
  <2>. QED
    BY <2>1, <2>2
<1>3. ASSUME NEW v \in Workers, HandleRequest(v)
      PROVE  Local(w)!Next \/ UNCHANGED Local(w)!vars
  <2>1. CASE v # w
    BY <1>3, <2>1 DEF DrillType, HandleRequest, Local!vars
  <2>2. CASE v = w
    <3>1. /\ run' = [run EXCEPT ![w] = NextRun(run[w])]
          /\ Len(run[w].log) < Len(Script)
      BY <1>3, <2>2, RequestRun DEF DrillType, HandleRequest, InScript
    <3>2. run'[w] = NextRun(run[w])
      BY <3>1 DEF DrillType
    <3> DEFINE c == Script[Len(run[w].log) + 1]
               out == Handle(run[w].breaker, c)
    <3>3. /\ Local(w)!Handle(run[w].breaker, c) = out
          /\ Local(w)!Handling(run[w].breaker) = Handling(run[w].breaker)
          /\ Local(w)!UnguardedAttempts(c) = UnguardedAttempts(c)
      BY LocalBreaker
    <3> HIDE DEF out, c
    <3>4. /\ run'[w].breaker = out.breaker
          /\ run'[w].log = Append(run[w].log,
               [primary_condition |-> c, circuit |-> Handling(run[w].breaker),
                transition |-> out.transition, role |-> out.role,
                primary_attempts |-> out.attempts])
          /\ run'[w].served = [run[w].served EXCEPT ![out.role] = @ + 1]
          /\ run'[w].attempts = run[w].attempts + out.attempts
          /\ run'[w].unguarded = run[w].unguarded + UnguardedAttempts(c)
          /\ run'[w].spent = Append(run[w].spent, run[w].attempts)
      <4>1. run'[w] = [drill |-> run[w].drill, breaker |-> out.breaker,
               log |-> Append(run[w].log,
                 [primary_condition |-> c, circuit |-> Handling(run[w].breaker),
                  transition |-> out.transition, role |-> out.role,
                  primary_attempts |-> out.attempts]),
               served |-> [run[w].served EXCEPT ![out.role] = @ + 1],
               attempts |-> run[w].attempts + out.attempts,
               unguarded |-> run[w].unguarded + UnguardedAttempts(c),
               spent |-> Append(run[w].spent, run[w].attempts),
               recovered |-> run[w].recovered \/ out.transition = "recovered"]
        BY <3>2 DEF NextRun, c, out
      <4>. QED
        BY <4>1
    <3>. QED
      BY <3>1, <3>3, <3>4 DEF Local!Next, Local!Request, c
  <2>. QED
    BY <2>1, <2>2
<1>4. CASE Restart
  BY <1>4 DEF Restart, FreshRun, Fresh, Roles, Local!Init, Local!Fresh, Local!Roles
<1>5. \/ UNCHANGED run \/ Restart
      \/ \E v \in Workers : StartLoop(v) \/ HandleRequest(v)
  BY DEF Next, Step, Drill, AdminReset, Begin, Reset, ClearReceipts, CircuitIncr,
         SetState, SetTimeline, SetRetrylog, SetSummary, Fail, vars
<1>. QED
  BY <1>1, <1>2, <1>3, <1>4, <1>5

\* Whatever the threads, resets, failures and restarts do, the locals of each
\* drill move as CircuitBreaker says, from its initial state: what is proved of
\* the breaker for every script holds in every thread of the service.
THEOREM ThreadsRefineBreaker == Spec => ThreadsRunBreaker
<1>1. DrillType /\ [Next]_vars =>
        [\A w \in Workers : \/ Local(w)!Next
                            \/ Local(w)!Init'
                            \/ UNCHANGED Local(w)!vars]_vars
  BY ThreadStep
<1>. QED
  BY <1>1, InitDrill, NextDrill, PTL DEF Spec, ThreadsRunBreaker

(***************************************************************************)
(* Callers that wait for one drill or reset before the next: the ledger    *)
(* holds one run, and the stores agree about it.                           *)
(***************************************************************************)
OneAtATime == \A v, w \in Workers : Idle(v) \/ Idle(w) \/ v = w

Looping == {"insert", "count"} \union Saving

\* The ledger a drill with this log leaves
RowAt(d, log, i) == [drill |-> d, seq |-> i, role |-> log[i].role]

RowsAt(d, log, I) == {RowAt(d, log, i) : i \in I}

RowsOf(d, log) == RowsAt(d, log, 1..Len(log))

OneRun(rows) == \E d \in Nat, log \in Seq(LogEntry) : rows = RowsOf(d, log)

\* The ledger is the log of the drill in the loop, or else of some drill, or
\* empty: no row of a dead drill is left when the loop begins.
LedgerInv ==
    /\ OneRun(receipts)
    /\ \A w \in Workers :
         /\ pc[w] = "start" => receipts = {}
         /\ pc[w] \in Looping => receipts = RowsOf(run[w].drill, run[w].log)

\* A run's role counts count its log.
Tallied(log, served) ==
    /\ \A r \in Roles : LogCountOf(log, r) = served[r]
    /\ served["primary"] + served["fallback"] = Len(log)

\* A run's attempts are those of its log.
Paid(log, attempts) == IsFiniteSet(Tries(log)) /\ Attempts(log) = attempts

\* What a drill has written so far: its keys are gone until the loop ends,
\* the tally is one behind while a receipt waits to be counted.
DrillEvidence(w) ==
    /\ Tallied(run[w].log, run[w].served) /\ Paid(run[w].log, run[w].attempts)
    /\ pc[w] \in {"clear", "start"} \union Looping => ~summary.set
    /\ pc[w] \in {"clear", "start"} => counts = [r \in Roles |-> 0]
    /\ pc[w] \in {"insert"} \union Saving => counts = run[w].served
    /\ pc[w] = "count" => run[w].served = [counts EXCEPT ![LastRole(w)] = @ + 1]
    /\ pc[w] \in {"retrylog", "summary"} => timeline = run[w].log
    /\ pc[w] = "summary" => retrylog = run[w].log

\* A summary comes with the tally, the logs and the ledger of its run; only the
\* ledger may have been emptied since.
WholeRun ==
    /\ Tallied(timeline, summary.served) /\ Tallied(retrylog, summary.served)
    /\ Paid(retrylog, summary.attempts)
    /\ Len(timeline) = Len(Script)
    /\ counts = summary.served
    /\ \/ receipts = {}
       \/ /\ Cardinality(receipts) = Len(Script)
          /\ \A r \in Roles : CountOf(receipts, r) = summary.served[r]

EvidenceInv ==
    /\ \A w \in Workers : DrillEvidence(w)
    /\ summary.set => WholeRun

\* The images of a set of positions of a log under its rows are as many.
LEMMA RowsCounted ==
    ASSUME NEW d, NEW log \in Seq(LogEntry), NEW I \in SUBSET (1..Len(log))
    PROVE  Cardinality(RowsAt(d, log, I)) = Cardinality(I)
<1> DEFINE rows == RowsAt(d, log, I)
           f == [i \in I |-> RowAt(d, log, i)]
<1>1. IsFiniteSet(I)
  <2>1. Len(log) \in Nat
    OBVIOUS
  <2>2. IsFiniteSet(1..Len(log))
    BY <2>1, FS_Interval
  <2>. QED
    BY <2>2, FS_Subset
<1>2. f \in Bijection(I, rows)
  <2>1. f \in [I -> rows]
    BY DEF RowsAt
  <2>2. \A i, j \in I : f[i] = f[j] => i = j
    <3>1. \A i \in I : f[i].seq = i
      BY DEF RowAt
    <3>. QED
      BY <3>1
  <2>3. \A x \in rows : \E i \in I : f[i] = x
    BY DEF RowsAt
  <2>. QED
    BY <2>1, <2>2, <2>3
    DEF Bijection, Injection, Surjection, IsInjective
<1>3. ExistsBijection(I, rows)
  BY <1>2 DEF ExistsBijection
<1>. QED
  BY <1>1, <1>3, FS_Bijection

\* The ledger of a log has a row for each of its requests, and as many of a
\* role as the log.
LEMMA RowsOfLog ==
    ASSUME NEW d \in Nat, NEW log \in Seq(LogEntry)
    PROVE  /\ Cardinality(RowsOf(d, log)) = Len(log)
           /\ \A r \in Roles : CountOf(RowsOf(d, log), r) = LogCountOf(log, r)
<1>1. Cardinality(RowsOf(d, log)) = Len(log)
  <2>. Len(log) \in Nat
    OBVIOUS
  <2>1. Cardinality(1..Len(log)) = Len(log)
    <3>1. Cardinality(1..Len(log)) = IF 1 > Len(log) THEN 0 ELSE Len(log) - 1 + 1
      BY FS_Interval
    <3>. QED
      BY <3>1
  <2>2. Cardinality(RowsOf(d, log)) = Cardinality(1..Len(log))
    BY RowsCounted DEF RowsOf
  <2>. QED
    BY <2>1, <2>2
<1>2. ASSUME NEW r \in Roles
      PROVE  CountOf(RowsOf(d, log), r) = LogCountOf(log, r)
  <2> DEFINE I == {i \in 1..Len(log) : log[i].role = r}
             rows == RowsAt(d, log, I)
  <2>1. {x \in RowsOf(d, log) : x.role = r} = rows
    BY DEF RowsOf, RowsAt, RowAt
  <2>2. Cardinality(rows) = Cardinality(I)
    BY RowsCounted
  <2>. QED
    BY <2>1, <2>2 DEF CountOf, LogCountOf
<1>. QED
  BY <1>1, <1>2

LEMMA OneRunIsWhole ==
    ASSUME NEW rows, OneRun(rows)
    PROVE  /\ \A x, y \in rows : x.drill = y.drill
           /\ {x.seq : x \in rows} = 1..Cardinality(rows)
           /\ Cardinality(rows) \in Nat
<1>1. PICK d \in Nat, log \in Seq(LogEntry) : rows = RowsOf(d, log)
  BY DEF OneRun
<1>2. Cardinality(rows) = Len(log)
  BY <1>1, RowsOfLog
<1>3. {x.seq : x \in rows} = 1..Len(log)
  <2>1. \A i \in 1..Len(log) : RowAt(d, log, i).seq = i
    BY DEF RowAt
  <2>. QED
    BY <1>1, <2>1 DEF RowsOf, RowsAt
<1>4. \A x \in rows : x.drill = d
  BY <1>1 DEF RowsOf, RowsAt, RowAt
<1>. QED
  BY <1>2, <1>3, <1>4

LEMMA EmptyIsOneRun == OneRun({})
<1>1. <<>> \in Seq(LogEntry) /\ RowsOf(0, <<>>) = {}
  BY DEF RowsOf, RowsAt
<1>. QED
  BY <1>1 DEF OneRun

\* One more entry is one more row, and one more of its role.
LEMMA OneMoreRow ==
    ASSUME NEW d, NEW log \in Seq(LogEntry), NEW longer \in Seq(LogEntry),
           Len(longer) = Len(log) + 1,
           \A i \in 1..Len(log) : longer[i] = log[i]
    PROVE  RowsOf(d, longer) = RowsOf(d, log) \union
             {RowAt(d, longer, Len(log) + 1)}
<1>1. Len(log) \in Nat /\ 1..Len(longer) = (1..Len(log)) \union {Len(log) + 1}
  OBVIOUS
<1>. QED
  BY <1>1 DEF RowsOf, RowsAt, RowAt

LEMMA TallyOneMore ==
    ASSUME NEW log \in Seq(LogEntry), NEW longer \in Seq(LogEntry),
           NEW served \in [Roles -> Nat], NEW role \in Roles,
           Len(longer) = Len(log) + 1,
           \A i \in 1..Len(log) : longer[i] = log[i],
           longer[Len(log) + 1].role = role,
           Tallied(log, served)
    PROVE  Tallied(longer, [served EXCEPT ![role] = @ + 1])
<1> DEFINE n == Len(log)
           more == [served EXCEPT ![role] = @ + 1]
           of(r) == {i \in 1..n : log[i].role = r}
<1>1. n \in Nat /\ Len(longer) = n + 1
  OBVIOUS
<1>2. ASSUME NEW r \in Roles
      PROVE  LogCountOf(longer, r) = more[r]
  <2>1. IsFiniteSet(of(r)) /\ Cardinality(of(r)) = served[r] /\ n + 1 \notin of(r)
    <3>1. IsFiniteSet(1..n)
      BY <1>1, FS_Interval
    <3>2. IsFiniteSet(of(r))
      BY <3>1, FS_Subset
    <3>. QED
      BY <1>1, <3>2 DEF Tallied, LogCountOf
  <2>2. CASE r = role
    <3>1. {i \in 1..Len(longer) : longer[i].role = r} = of(r) \union {n + 1}
      BY <1>1, <2>2
    <3>2. Cardinality(of(r) \union {n + 1}) = served[r] + 1
      BY <2>1, FS_AddElement
    <3>. QED
      BY <2>2, <3>1, <3>2 DEF LogCountOf
  <2>3. CASE r # role
    <3>1. {i \in 1..Len(longer) : longer[i].role = r} = of(r)
      BY <1>1, <2>3
    <3>. QED
      BY <2>1, <2>3, <3>1 DEF LogCountOf
  <2>. QED
    BY <2>2, <2>3
<1>3. more["primary"] + more["fallback"] = n + 1
  <2>1. /\ served["primary"] \in Nat /\ served["fallback"] \in Nat
        /\ served["primary"] + served["fallback"] = n
    BY DEF Tallied, Roles
  <2>2. \/ more["primary"] = served["primary"] + 1 /\ more["fallback"] = served["fallback"]
        \/ more["fallback"] = served["fallback"] + 1 /\ more["primary"] = served["primary"]
    BY DEF Roles
  <2> HIDE DEF more, n
  <2>. QED
    BY <2>1, <2>2
<1>. QED
  BY <1>1, <1>2, <1>3 DEF Tallied

LEMMA PaidOneMore ==
    ASSUME NEW log \in Seq(LogEntry), NEW longer \in Seq(LogEntry),
           NEW attempts \in Nat, NEW k \in Nat,
           Len(longer) = Len(log) + 1,
           \A i \in 1..Len(log) : longer[i] = log[i],
           longer[Len(log) + 1].primary_attempts = k,
           Paid(log, attempts)
    PROVE  Paid(longer, attempts + k)
<1> DEFINE n == Len(log)
           new == {n + 1} \X (1..k)
<1>1. n \in Nat /\ 1..Len(longer) = (1..n) \union {n + 1}
  OBVIOUS
<1>2. Tries(longer) = Tries(log) \union new
  BY <1>1 DEF Tries
<1>3. Tries(log) \cap new = {}
  BY <1>1 DEF Tries
<1>4. IsFiniteSet(new) /\ Cardinality(new) = k
  <2>1. IsFiniteSet(1..k) /\ Cardinality(1..k) = k
    <3>1. k \in Int /\ 1 \in Int
      OBVIOUS
    <3>2. /\ IsFiniteSet(1..k)
          /\ Cardinality(1..k) = IF 1 > k THEN 0 ELSE k - 1 + 1
      BY ONLY <3>1, FS_Interval
    <3>. QED
      BY <3>2
  <2>2. IsFiniteSet({n + 1}) /\ Cardinality({n + 1}) = 1
    BY FS_Singleton
  <2>3. IsFiniteSet(new) /\ Cardinality(new) = Cardinality({n + 1}) * Cardinality(1..k)
    BY <2>1, <2>2, FS_Product
  <2>. QED
    BY <2>1, <2>2, <2>3
<1>5. IsFiniteSet(Tries(log)) /\ Cardinality(Tries(log)) = attempts
  BY DEF Paid, Attempts
<1> HIDE DEF new
<1>6. /\ IsFiniteSet(Tries(log) \cup new)
      /\ Cardinality(Tries(log) \cup new)
           = Cardinality(Tries(log)) + Cardinality(new)
                 - Cardinality(Tries(log) \cap new)
  BY ONLY <1>4, <1>5, FS_Union
<1>7. Cardinality(Tries(log) \cap new) = 0
  BY <1>3, FS_EmptySet
<1>. QED
  BY <1>2, <1>4, <1>5, <1>6, <1>7 DEF Paid, Attempts

LEMMA NextOneAtATime ==
    Serial /\ DrillType /\ OneAtATime /\ [Next]_vars => OneAtATime'
<1> SUFFICES ASSUME Serial, DrillType, OneAtATime, [Next]_vars
             PROVE  OneAtATime'
  OBVIOUS
<1>1. CASE \E w \in Workers : \E at : Begin(w, at)
  BY <1>1 DEF DrillType, OneAtATime, Begin, Goto, Idle
<1>2. CASE \E w \in Workers : ~Idle(w) /\ \E at : Goto(w, at)
  BY <1>2 DEF DrillType, OneAtATime, Goto, Idle
<1>3. CASE Restart
  BY <1>3 DEF OneAtATime, Restart, Idle
<1>4. CASE UNCHANGED vars
  BY <1>4 DEF OneAtATime, vars, Idle
<1>5. ASSUME NEW w \in Workers, Step(w) \/ Fail(w)
      PROVE  ~Idle(w) /\ \E at : Goto(w, at)
  BY <1>5
  DEF Step, Reset, ClearReceipts, StartLoop, HandleRequest, CircuitIncr, SetState,
      SetTimeline, SetRetrylog, SetSummary, Fail, Idle
<1>6. ASSUME NEW w \in Workers, Drill(w) \/ AdminReset(w)
      PROVE  \E at : Begin(w, at)
  BY <1>6 DEF Drill, AdminReset
<1>. QED
  BY <1>1, <1>2, <1>3, <1>4, <1>5, <1>6 DEF Next

\* What a step of the loop leaves of the other threads: they are idle.
LEMMA OthersIdle ==
    ASSUME OneAtATime, NEW w \in Workers, ~Idle(w), NEW v \in Workers, v # w
    PROVE  pc[v] = "idle"
BY DEF OneAtATime, Idle

LEMMA RequestRow ==
    ASSUME DrillType, NEW w \in Workers, HandleRequest(w)
    PROVE  receipts' = receipts \union
             {RowAt(run[w].drill, run'[w].log, Len(run[w].log) + 1)}
<1> DEFINE out == Handle(run[w].breaker, Script[Len(run[w].log) + 1])
<1>1. run[w] \in Run /\ Len(run[w].log) < Len(Script)
  BY DEF DrillType, HandleRequest, InScript
<1>2. run'[w] = NextRun(run[w])
  BY RequestRun DEF DrillType
<1>3. run'[w].log[Len(run[w].log) + 1].role = out.role
  BY <1>1, <1>2, NextRunType
<1>4. receipts' = receipts \union {ReceiptRow(run[w], out.role)}
  BY DEF HandleRequest
<1> HIDE DEF out
<1>. QED
  BY <1>3, <1>4 DEF ReceiptRow, RowAt

LEMMA InitLedger == Init => OneAtATime /\ LedgerInv
BY EmptyIsOneRun DEF Init, OneAtATime, Idle, LedgerInv, Looping, Saving

LEMMA NextLedger ==
    DrillType /\ OneAtATime /\ LedgerInv /\ [Next]_vars => LedgerInv'
<1> SUFFICES ASSUME DrillType, OneAtATime, LedgerInv, [Next]_vars
             PROVE  LedgerInv'
  OBVIOUS
<1>1. CASE UNCHANGED <<receipts, run, pc>>
  BY <1>1 DEF LedgerInv
<1>2. ASSUME NEW w \in Workers, UNCHANGED <<receipts, run>>, NEW at, Goto(w, at),
             at \notin Looping \union {"start"}
                \/ (pc[w] \in Looping /\ at \in Looping)
      PROVE  LedgerInv'
  BY <1>2 DEF DrillType, LedgerInv, Goto, Looping, Saving
<1>3. ASSUME NEW w \in Workers, ClearReceipts(w) PROVE LedgerInv'
  <2>1. \A v \in Workers : v # w => pc[v] = "idle"
    BY <1>3, OthersIdle DEF ClearReceipts, Idle
  <2>. QED
    BY <1>3, <2>1, EmptyIsOneRun
    DEF DrillType, LedgerInv, ClearReceipts, Goto, Looping, Saving
<1>4. ASSUME NEW w \in Workers, StartLoop(w) PROVE LedgerInv'
  <2>1. \A v \in Workers : v # w => pc[v] = "idle"
    BY <1>4, OthersIdle DEF StartLoop, Idle
  <2>2. /\ run'[w].log = <<>> /\ run' = [run EXCEPT ![w] = run'[w]]
        /\ pc' = [pc EXCEPT ![w] = "insert"] /\ receipts = {} /\ receipts' = {}
    BY <1>4 DEF DrillType, StartLoop, FreshRun, Goto, LedgerInv
  <2>3. RowsOf(run'[w].drill, <<>>) = {}
    BY DEF RowsOf, RowsAt
  <2>. QED
    BY <2>1, <2>2, <2>3, EmptyIsOneRun DEF DrillType, LedgerInv, Looping, Saving
<1>5. ASSUME NEW w \in Workers, HandleRequest(w) PROVE LedgerInv'
  <2>1. \A v \in Workers : v # w => pc[v] = "idle"
    BY <1>5, OthersIdle DEF HandleRequest, Idle
  <2>2. /\ run[w] \in Run /\ run[w].log \in Seq(LogEntry)
        /\ run[w].drill \in Nat /\ Len(run[w].log) < Len(Script)
        /\ receipts = RowsOf(run[w].drill, run[w].log)
        /\ pc' = [pc EXCEPT ![w] = "count"]
    BY <1>5 DEF DrillType, HandleRequest, InScript, Run, LedgerInv, Looping, Goto
  <2>3. run'[w] = NextRun(run[w])
    BY <1>5, RequestRun DEF DrillType
  <2>4. /\ run'[w].log \in Seq(LogEntry) /\ run'[w].drill = run[w].drill
        /\ Len(run'[w].log) = Len(run[w].log) + 1
        /\ \A i \in 1..Len(run[w].log) : run'[w].log[i] = run[w].log[i]
    <3>1. /\ NextRun(run[w]) \in Run
          /\ Len(NextRun(run[w]).log) = Len(run[w].log) + 1
          /\ \A i \in 1..Len(run[w].log) : NextRun(run[w]).log[i] = run[w].log[i]
      BY <2>2, NextRunType
    <3>2. NextRun(run[w]).drill = run[w].drill
      BY DEF NextRun
    <3>. QED
      BY <2>3, <3>1, <3>2 DEF Run
  <2>5. receipts' = RowsOf(run'[w].drill, run'[w].log)
    <3> DEFINE d == run[w].drill
               log == run[w].log
               longer == run'[w].log
    <3>1. receipts' = RowsOf(d, log) \union {RowAt(d, longer, Len(log) + 1)}
      BY <1>5, <2>2, RequestRow
    <3>2. /\ log \in Seq(LogEntry) /\ longer \in Seq(LogEntry)
          /\ Len(longer) = Len(log) + 1
          /\ \A i \in 1..Len(log) : longer[i] = log[i]
      BY <2>2, <2>4
    <3> HIDE DEF d, log, longer
    <3>3. RowsOf(d, longer)
            = RowsOf(d, log) \union {RowAt(d, longer, Len(log) + 1)}
      BY <3>2, OneMoreRow
    <3>. QED
      BY <2>4, <3>1, <3>3 DEF d, longer
  <2>6. OneRun(receipts')
    <3>1. run'[w].drill \in Nat
      BY <2>2, <2>4
    <3>. QED
      BY <2>4, <2>5, <3>1 DEF OneRun
  <2>. QED
    BY <2>1, <2>2, <2>5, <2>6 DEF DrillType, LedgerInv, Looping, Saving
<1>6. CASE Restart
  BY <1>6 DEF LedgerInv, Restart, Looping, Saving
<1>7. ASSUME NEW w \in Workers,
             \/ Drill(w) \/ AdminReset(w) \/ Reset(w) \/ CircuitIncr(w)
             \/ SetState(w) \/ SetTimeline(w) \/ SetRetrylog(w) \/ SetSummary(w)
             \/ Fail(w)
      PROVE  LedgerInv'
  BY <1>2, <1>7
  DEF Drill, AdminReset, Begin, Reset, CircuitIncr, SetState, SetTimeline,
      SetRetrylog, SetSummary, Fail, Looping, Saving
<1>. QED
  BY <1>1, <1>3, <1>4, <1>5, <1>6, <1>7 DEF Next, Step, vars

\* If callers wait for one drill or reset before the next, the ledger never
\* mixes the rows of two drills and has no gap, however many of them fail or are
\* killed by a restart on the way (run_drill, clear_circuit_receipts).
THEOREM LedgerNeverMixes == Serial => (Spec => []LedgerIsOneRun)
<1> SUFFICES ASSUME Serial PROVE Spec => []LedgerIsOneRun
  OBVIOUS
<1>1. LedgerInv => LedgerIsOneRun
  BY OneRunIsWhole DEF LedgerInv, LedgerIsOneRun
<1>2. DrillType /\ OneAtATime /\ [Next]_vars => OneAtATime'
  BY NextOneAtATime
<1>. QED
  BY <1>1, <1>2, InitDrill, NextDrill, InitLedger, NextLedger, PTL DEF Spec

LEMMA FreshTally == Tallied(<<>>, [r \in Roles |-> 0]) /\ Paid(<<>>, 0)
<1>1. \A r \in Roles : {i \in 1..Len(<<>>) : <<>>[i].role = r} = {}
  OBVIOUS
<1>2. \A r \in Roles : LogCountOf(<<>>, r) = 0
  BY <1>1, FS_EmptySet DEF LogCountOf
<1>3. Tries(<<>>) = {}
  BY DEF Tries
<1>. QED
  BY <1>2, <1>3, FS_EmptySet DEF Tallied, Roles, Paid, Attempts

LEMMA InitEvidence == Init => EvidenceInv
BY FreshTally
DEF Init, EvidenceInv, DrillEvidence, FreshRun, Absent, Looping, Saving

LEMMA NextEvidence ==
    /\ DrillType /\ OneAtATime /\ LedgerInv /\ EvidenceInv
    /\ [Next]_vars
    => EvidenceInv'
<1> SUFFICES ASSUME DrillType, OneAtATime, LedgerInv, EvidenceInv, [Next]_vars
             PROVE  EvidenceInv'
  OBVIOUS
<1>1. CASE UNCHANGED vars
  BY <1>1
  DEF vars, redis, EvidenceInv, DrillEvidence, WholeRun, LastRole, Tallied, CountOf
<1>2. ASSUME NEW w \in Workers, UNCHANGED <<redis, receipts, run>>,
             NEW at \in {"idle", "reset", "truncate"}, Goto(w, at)
      PROVE  EvidenceInv'
  <2>1. ASSUME NEW v \in Workers PROVE DrillEvidence(v)'
    BY <1>2, <2>1
    DEF DrillType, redis, Goto, EvidenceInv, DrillEvidence, LastRole, Looping,
        Saving
  <2>2. UNCHANGED <<timeline, retrylog, counts, summary, receipts>>
    BY <1>2 DEF redis
  <2>. QED
    BY <2>1, <2>2 DEF EvidenceInv, WholeRun, Tallied, Paid, CountOf
<1>3. ASSUME NEW w \in Workers, Reset(w) PROVE EvidenceInv'
  <2>1. /\ counts' = [r \in Roles |-> 0] /\ ~summary'.set /\ UNCHANGED run
        /\ \E at \in {"clear", "idle"} : pc' = [pc EXCEPT ![w] = at]
    BY <1>3 DEF Reset, ResetCircuit, Absent, Goto
  <2>2. \A v \in Workers : v # w => pc[v] = "idle"
    BY <1>3, OthersIdle DEF Reset, Idle
  <2>. QED
    BY <2>1, <2>2 DEF DrillType, EvidenceInv, DrillEvidence, Looping, Saving
<1>4. ASSUME NEW w \in Workers, ClearReceipts(w) PROVE EvidenceInv'
  <2>1. /\ UNCHANGED <<redis, run>> /\ receipts' = {}
        /\ \/ pc[w] = "clear" /\ pc' = [pc EXCEPT ![w] = "start"]
           \/ pc[w] = "truncate" /\ pc' = [pc EXCEPT ![w] = "wipe"]
    BY <1>4 DEF ClearReceipts, Goto
  <2>2. UNCHANGED <<timeline, retrylog, counts, summary>>
    BY <2>1 DEF redis
  <2>3. ASSUME NEW v \in Workers PROVE DrillEvidence(v)'
    <3>1. DrillEvidence(v) /\ LastRole(v)' = LastRole(v) /\ run'[v] = run[v]
      BY <2>1 DEF EvidenceInv, LastRole
    <3>2. \/ pc'[v] = pc[v] \/ pc'[v] = "wipe"
          \/ pc[v] = "clear" /\ pc'[v] = "start"
      BY <2>1 DEF DrillType
    <3>. QED
      BY <2>2, <3>1, <3>2 DEF DrillEvidence, Looping, Saving, Tallied, Paid
  <2>. QED
    BY <2>1, <2>2, <2>3 DEF EvidenceInv, WholeRun, Tallied, Paid
<1>5. ASSUME NEW w \in Workers, StartLoop(w) PROVE EvidenceInv'
  <2>1. /\ UNCHANGED redis /\ pc[w] = "start" /\ pc' = [pc EXCEPT ![w] = "insert"]
        /\ run' = [run EXCEPT ![w] = [FreshRun EXCEPT !.drill = ops]]
    BY <1>5 DEF StartLoop, Goto
  <2>2. /\ UNCHANGED <<timeline, retrylog, counts, summary>>
        /\ ~summary.set /\ counts = [r \in Roles |-> 0]
    BY <2>1 DEF redis, EvidenceInv, DrillEvidence, Looping
  <2>3. /\ run'[w].log = <<>> /\ run'[w].served = [r \in Roles |-> 0]
        /\ run'[w].attempts = 0
    BY <2>1 DEF DrillType, FreshRun
  <2>4. \A v \in Workers : v # w => pc[v] = "idle" /\ run'[v] = run[v]
    BY <2>1, OthersIdle DEF Idle, DrillType
  <2>5. DrillEvidence(w)'
    BY <2>1, <2>2, <2>3, FreshTally DEF DrillType, DrillEvidence, Saving, Looping
  <2>6. \A v \in Workers : v # w => DrillEvidence(v)'
    BY <2>1, <2>2, <2>4
    DEF DrillType, EvidenceInv, DrillEvidence, Looping, Saving
  <2>. QED
    BY <2>2, <2>5, <2>6 DEF EvidenceInv
<1>6. ASSUME NEW w \in Workers, HandleRequest(w) PROVE EvidenceInv'
  <2> DEFINE role == Handle(run[w].breaker, Script[Len(run[w].log) + 1]).role
             paid == Handle(run[w].breaker, Script[Len(run[w].log) + 1]).attempts
             longer == NextRun(run[w]).log
  <2>1. /\ run[w] \in Run /\ pc[w] = "insert" /\ Len(run[w].log) < Len(Script)
        /\ run[w].log \in Seq(LogEntry) /\ run[w].served \in [Roles -> Nat]
        /\ run[w].attempts \in Nat /\ role \in Roles /\ paid \in Nat
        /\ pc' = [pc EXCEPT ![w] = "count"] /\ UNCHANGED redis
    BY <1>6, HandleType DEF DrillType, HandleRequest, InScript, Run, Goto
  <2>2. /\ longer \in Seq(LogEntry) /\ Len(longer) = Len(run[w].log) + 1
        /\ longer[Len(run[w].log) + 1].role = role
        /\ longer[Len(run[w].log) + 1].primary_attempts = paid
        /\ \A i \in 1..Len(run[w].log) : longer[i] = run[w].log[i]
    BY <2>1, NextRunType DEF Run
  <2>3. /\ run'[w] = NextRun(run[w])
        /\ \A v \in Workers : v # w => run'[v] = run[v] /\ pc[v] = "idle"
    BY <1>6, <2>1, RequestRun, OthersIdle DEF DrillType, Idle
  <2>4. /\ NextRun(run[w]).served = [run[w].served EXCEPT ![role] = @ + 1]
        /\ NextRun(run[w]).attempts = run[w].attempts + paid
    BY DEF NextRun
  <2>5. /\ Tallied(run[w].log, run[w].served) /\ Paid(run[w].log, run[w].attempts)
        /\ ~summary.set
        /\ counts = run[w].served
    BY <2>1 DEF EvidenceInv, DrillEvidence, Looping
  <2>6. UNCHANGED <<timeline, retrylog, counts, summary>>
    BY <2>1 DEF redis
  <2> HIDE DEF role, paid, longer
  <2>7. /\ Tallied(longer, [run[w].served EXCEPT ![role] = @ + 1])
        /\ Paid(longer, run[w].attempts + paid)
    BY <2>1, <2>2, <2>5, TallyOneMore, PaidOneMore
  <2>8. LastRole(w)' = role
    <3>1. run'[w].log = longer /\ Len(longer) = Len(run[w].log) + 1
      BY <2>2, <2>3 DEF longer
    <3>. QED
      BY <2>2, <3>1 DEF LastRole
  <2>9. DrillEvidence(w)'
    <3>1. /\ run'[w].log = longer
          /\ run'[w].served = [run[w].served EXCEPT ![role] = @ + 1]
          /\ run'[w].attempts = run[w].attempts + paid
      BY <2>3, <2>4 DEF longer
    <3>2. pc'[w] = "count"
      BY <2>1 DEF DrillType
    <3>. QED
      BY <2>5, <2>6, <2>7, <2>8, <3>1, <3>2 DEF DrillEvidence, Looping, Saving
  <2>10. ASSUME NEW v \in Workers, v # w PROVE DrillEvidence(v)'
    BY <2>1, <2>3, <2>6, <2>10
    DEF DrillType, EvidenceInv, DrillEvidence, Looping, Saving
  <2>. QED
    BY <2>5, <2>6, <2>9, <2>10 DEF EvidenceInv
<1>7. ASSUME NEW w \in Workers, CircuitIncr(w) PROVE EvidenceInv'
  <2>1. /\ pc[w] = "count" /\ counts' = [counts EXCEPT ![LastRole(w)] = @ + 1]
        /\ UNCHANGED <<timeline, retrylog, summary, receipts, run>>
        /\ \E at \in {"insert", "state"} : pc' = [pc EXCEPT ![w] = at]
    BY <1>7 DEF CircuitIncr, Goto
  <2>2. ~summary.set /\ counts' = run[w].served
    BY <2>1 DEF EvidenceInv, DrillEvidence, Looping
  <2>3. \A v \in Workers : v # w => pc[v] = "idle"
    BY <2>1, OthersIdle DEF Idle
  <2>4. ASSUME NEW v \in Workers PROVE DrillEvidence(v)'
    BY <2>1, <2>2, <2>3, <2>4
    DEF DrillType, EvidenceInv, DrillEvidence, Looping, Saving
  <2>. QED
    BY <2>1, <2>2, <2>4 DEF EvidenceInv
<1>8. ASSUME NEW w \in Workers, SetState(w) \/ SetTimeline(w) \/ SetRetrylog(w)
      PROVE  EvidenceInv'
  <2>1. /\ UNCHANGED <<counts, summary, receipts, run>>
        /\ \/ /\ pc[w] = "state" /\ pc' = [pc EXCEPT ![w] = "timeline"]
              /\ UNCHANGED <<timeline, retrylog>>
           \/ /\ pc[w] = "timeline" /\ pc' = [pc EXCEPT ![w] = "retrylog"]
              /\ timeline' = run[w].log /\ UNCHANGED retrylog
           \/ /\ pc[w] = "retrylog" /\ pc' = [pc EXCEPT ![w] = "summary"]
              /\ retrylog' = run[w].log /\ UNCHANGED timeline
    BY <1>8 DEF SetState, SetTimeline, SetRetrylog, Goto
  <2>2. ~summary.set
    BY <2>1 DEF EvidenceInv, DrillEvidence, Looping, Saving
  <2>3. \A v \in Workers : v # w => pc[v] = "idle"
    BY <2>1, OthersIdle DEF Idle
  <2>4. ASSUME NEW v \in Workers PROVE DrillEvidence(v)'
    BY <2>1, <2>2, <2>3, <2>4
    DEF DrillType, EvidenceInv, DrillEvidence, Looping, Saving
  <2>. QED
    BY <2>1, <2>2, <2>4 DEF EvidenceInv
<1>9. ASSUME NEW w \in Workers, SetSummary(w) PROVE EvidenceInv'
  <2>1. /\ pc[w] = "summary" /\ pc' = [pc EXCEPT ![w] = "idle"]
        /\ summary'.served = run[w].served /\ summary'.attempts = run[w].attempts
        /\ UNCHANGED <<counts, timeline, retrylog, receipts, run>>
    BY <1>9 DEF SetSummary, Goto
  <2>2. /\ timeline = run[w].log /\ retrylog = run[w].log
        /\ counts = run[w].served /\ Tallied(run[w].log, run[w].served)
        /\ Paid(run[w].log, run[w].attempts)
    BY <2>1 DEF EvidenceInv, DrillEvidence, Saving
  <2>3. /\ run[w].drill \in Nat /\ run[w].log \in Seq(LogEntry)
        /\ Len(run[w].log) = Len(Script)
    BY <2>1 DEF DrillType, Run, InScript, Saving
  <2>4. receipts = RowsOf(run[w].drill, run[w].log)
    BY <2>1 DEF LedgerInv, Looping, Saving
  <2>5. /\ Cardinality(receipts) = Len(Script)
        /\ \A r \in Roles : CountOf(receipts, r) = run[w].served[r]
    BY <2>2, <2>3, <2>4, RowsOfLog DEF Tallied
  <2>6. WholeRun'
    BY <2>1, <2>2, <2>3, <2>5 DEF WholeRun, Tallied, Paid, CountOf
  <2>7. \A v \in Workers : v # w => pc[v] = "idle"
    BY <2>1, OthersIdle DEF Idle
  <2>8. ASSUME NEW v \in Workers PROVE DrillEvidence(v)'
    BY <2>1, <2>7, <2>8
    DEF DrillType, EvidenceInv, DrillEvidence, Looping, Saving
  <2>. QED
    BY <2>6, <2>8 DEF EvidenceInv
<1>10. CASE Restart
  <2>1. \A w \in Workers : pc'[w] = "idle" /\ run'[w] = FreshRun
    BY <1>10 DEF Restart
  <2>2. \A w \in Workers : DrillEvidence(w)'
    BY <2>1, FreshTally DEF DrillEvidence, FreshRun, Looping, Saving
  <2>3. CASE ResetCircuit
    BY <2>2, <2>3 DEF ResetCircuit, Absent, EvidenceInv
  <2>4. CASE UNCHANGED redis
    <3>1. UNCHANGED <<timeline, retrylog, counts, summary, receipts>>
      BY <1>10, <2>4 DEF Restart, redis
    <3>. QED
      BY <2>2, <3>1 DEF EvidenceInv, WholeRun, Tallied, Paid, CountOf
  <2>. QED
    BY <1>10, <2>3, <2>4 DEF Restart
<1>11. ASSUME NEW w \in Workers, Drill(w) \/ AdminReset(w) \/ Fail(w)
       PROVE  EvidenceInv'
  BY <1>2, <1>11 DEF Drill, AdminReset, Begin, Fail
<1>. QED
  BY <1>1, <1>3, <1>4, <1>5, <1>6, <1>7, <1>8, <1>9, <1>10, <1>11 DEF Next, Step

(***************************************************************************)
(* The views over those stores.                                            *)
(***************************************************************************)
\* A summary that was ever read is of a whole run.
WholeSummary(s) ==
    /\ s \in {Absent} \union Summary
    /\ s.set => s.served["primary"] + s.served["fallback"] = Len(Script)

\* A view between two reads: what it has read is still there while it is quiet.
Reading ==
    /\ WholeSummary(view.summary)
    /\ view.ops \in Nat /\ view.faults \in Nat
    /\ view.ops <= ops /\ view.faults <= faults
    /\ Quiet => AllIdle /\ view.summary = summary
    /\ view.at = "verdict" => /\ OneRun(view.rows)
                              /\ Quiet => view.rows = receipts

ViewInv ==
    /\ ~Answered => view = NoView \/ Reading
    /\ ConfirmedIsOneDrill /\ QuietViewsAgree

LEMMA SummaryIsWhole == DrillType /\ EvidenceInv => WholeSummary(summary)
BY DEF DrillType, EvidenceInv, WholeRun, Tallied, Paid, WholeSummary

\* CONFIRMED takes a ledger with as many rows as the summary says were served.
LEMMA ConfirmedHasAllRows ==
    ASSUME NEW caller, WholeSummary(caller), NEW rows, OneRun(rows), NEW log,
           Verdict(caller, rows, log) = "CONFIRMED"
    PROVE  /\ {x.seq : x \in rows} = 1..Len(Script)
           /\ Cardinality({x.drill : x \in rows}) = 1
<1>1. caller.set /\ Cardinality(rows)
          = CallerCount(caller, "primary") + CallerCount(caller, "fallback")
  BY Zenon DEF Verdict
<1>2. Cardinality(rows) = Len(Script)
  BY <1>1 DEF WholeSummary, CallerCount
<1>3. /\ \A x, y \in rows : x.drill = y.drill
      /\ {x.seq : x \in rows} = 1..Cardinality(rows)
  BY OneRunIsWhole
<1>4. PICK x \in rows : TRUE
  <2>1. 1 \in 1..Len(Script)
    BY ScriptType
  <2>. QED
    BY <1>2, <1>3, <2>1
<1>5. {y.drill : y \in rows} = {x.drill}
  BY <1>3, <1>4
<1>. QED
  BY <1>2, <1>3, <1>5, FS_Singleton

\* With the ledger of the summary's run, or an emptied one, the verdict tells
\* whether the run recovered and has its ledger.
LEMMA QuietVerdict ==
    ASSUME DrillType, EvidenceInv, summary.set
    PROVE  Verdict(summary, receipts, retrylog) = "CONFIRMED"
             <=> summary.recovered /\ receipts # {}
<1> DEFINE total == CallerCount(summary, "primary") + CallerCount(summary, "fallback")
<1>1. /\ \A r \in Roles : CallerCount(summary, r) = summary.served[r]
      /\ \A r \in Roles : LogCountOf(retrylog, r) = summary.served[r]
      /\ total = Len(Script) /\ total > 0
  BY ScriptType, SummaryIsWhole
  DEF CallerCount, EvidenceInv, WholeRun, Tallied, Paid, WholeSummary, Roles
<1>2. CASE receipts = {}
  <2>1. Cardinality(receipts) = 0
    BY <1>2, FS_EmptySet
  <2>2. ~(Cardinality(receipts) = total)
    BY <1>1, <2>1
  <2>. HIDE DEF total
  <2>. QED
    BY <1>2, <2>2, Zenon DEF Verdict, total
<1>3. CASE receipts # {}
  <2>1. /\ Cardinality(receipts) = total
        /\ \A r \in Roles : CountOf(receipts, r) = summary.served[r]
    BY <1>1, <1>3 DEF EvidenceInv, WholeRun
  <2>2. summary.recovered \in BOOLEAN
    <3>1. summary \in Summary
      BY DEF DrillType, Absent
    <3>. QED
      BY <3>1 DEF Summary
  <2>. HIDE DEF total
  <2>. QED
    BY <1>1, <1>3, <2>1, <2>2 DEF Verdict, total
<1>. QED
  BY <1>2, <1>3

\* Every step is a start or a failure that is counted, or a thread goes on.
LEMMA NextClock ==
    ASSUME Next
    PROVE  \/ ops' = ops + 1 /\ faults' = faults
           \/ ops' = ops /\ faults' = faults + 1
           \/ ops' = ops /\ faults' = faults /\ ~AllIdle
<1>1. ASSUME NEW w \in Workers, Drill(w) \/ AdminReset(w)
      PROVE  ops' = ops + 1 /\ faults' = faults
  BY <1>1 DEF Drill, AdminReset, Begin
<1>2. ASSUME NEW w \in Workers, Fail(w)
      PROVE  ops' = ops /\ faults' = faults + 1
  BY <1>2 DEF Fail
<1>3. ASSUME NEW w \in Workers, Step(w)
      PROVE  ops' = ops /\ faults' = faults /\ ~AllIdle
  BY <1>3
  DEF AllIdle, Idle, Step, Reset, ClearReceipts, StartLoop, HandleRequest,
      CircuitIncr, SetState, SetTimeline, SetRetrylog, SetSummary
<1>4. ASSUME Restart
      PROVE  ops' = ops /\ faults' = faults + 1
  BY <1>4 DEF Restart
<1>. QED
  BY <1>1, <1>2, <1>3, <1>4 DEF Next

LEMMA InitView == ViewInit => ViewInv
BY DEF ViewInit, ViewInv, NoView, Answered, ConfirmedIsOneDrill, QuietViewsAgree

LEMMA NextView ==
    /\ DrillType /\ DrillType' /\ OneAtATime /\ LedgerInv /\ EvidenceInv /\ ViewInv
    /\ [ViewNext]_viewVars
    => ViewInv'
<1> SUFFICES ASSUME DrillType, DrillType', OneAtATime, LedgerInv, EvidenceInv,
                    ViewInv, [ViewNext]_viewVars
             PROVE  ViewInv'
  OBVIOUS
<1>1. CASE UNCHANGED viewVars
  BY <1>1
  DEF viewVars, vars, redis, ViewInv, Answered, Reading, Quiet, AllIdle, Idle,
      ConfirmedIsOneDrill, QuietViewsAgree
<1>2. CASE Next /\ ~Answered /\ UNCHANGED view
  <2>. ops \in Nat /\ faults \in Nat
    BY DEF DrillType
  <2>1. \/ ops' = ops + 1 /\ faults' = faults
        \/ ops' = ops /\ faults' = faults + 1
        \/ ops' = ops /\ faults' = faults /\ ~AllIdle
    BY <1>2, NextClock
  <2>3. CASE view = NoView
    BY <1>2, <2>3
    DEF ViewInv, NoView, Answered, ConfirmedIsOneDrill, QuietViewsAgree
  <2>4. CASE Reading
    <3>1. view.ops <= ops' /\ view.faults <= faults' /\ ~Quiet'
      <4>1. Quiet' => view.ops = ops' /\ view.faults = faults' /\ view.quiet
        BY <1>2 DEF Quiet
      <4>2. /\ view.ops <= ops /\ view.faults <= faults
            /\ view.ops \in Nat /\ view.faults \in Nat
            /\ ops \in Nat /\ faults \in Nat /\ ops' \in Nat /\ faults' \in Nat
        BY <2>4 DEF Reading, DrillType
      <4>3. view.ops <= ops' /\ view.faults <= faults'
        BY <2>1, <4>2
      <4>4. CASE Quiet
        <5>1. AllIdle /\ view.ops = ops /\ view.faults = faults
          BY <2>4, <4>4 DEF Reading, Quiet
        <5>. QED
          BY <2>1, <4>1, <5>1
      <4>5. CASE ~Quiet
        <5>1. ~view.quiet \/ view.ops # ops \/ view.faults # faults
          BY <4>5 DEF Quiet
        <5>. QED
          BY <2>1, <4>1, <4>2, <4>3, <5>1
      <4>. QED
        BY <4>4, <4>5
    <3>2. Reading'
      BY <1>2, <2>4, <3>1 DEF Reading
    <3>. QED
      BY <1>2, <3>2 DEF ViewInv, Answered, ConfirmedIsOneDrill, QuietViewsAgree
  <2>. QED
    BY <1>2, <2>3, <2>4 DEF ViewInv
<1>3. ASSUME NEW second \in SecondReads, ReadSummary(second) PROVE ViewInv'
  <2>1. /\ view' = [at |-> second, summary |-> summary, quiet |-> AllIdle,
                    ops |-> ops, faults |-> faults]
        /\ UNCHANGED vars
    BY <1>3 DEF ReadSummary
  <2>2. WholeSummary(summary) /\ ops \in Nat /\ faults \in Nat
    BY SummaryIsWhole DEF DrillType
  <2>3. Reading'
    <3>1. AllIdle' = AllIdle /\ UNCHANGED <<ops, faults, summary>>
      BY <2>1 DEF vars, redis, AllIdle, Idle
    <3>. QED
      BY <2>1, <2>2, <3>1 DEF Reading, Quiet, SecondReads
  <2>. QED
    BY <2>1, <2>3
    DEF ViewInv, SecondReads, Answered, ConfirmedIsOneDrill, QuietViewsAgree
<1>4. ASSUME view.at \in SecondReads \union {"verdict"}
      PROVE  /\ Reading
             /\ Quiet /\ view.summary.set =>
                  view.summary = summary /\ WholeRun
  BY <1>4
  DEF SecondReads, ViewInv, Answered, NoView, Reading, EvidenceInv
<1>5. CASE ReadTimeline
  <2>1. view.at = "timeline" /\ Answer("circuit", timeline)
    BY <1>5 DEF ReadTimeline
  <2>2. Quiet /\ view.summary.set =>
          \A r \in Roles : LogCountOf(timeline, r) = view.summary.served[r]
    BY <1>4, <2>1 DEF SecondReads, WholeRun, Tallied, Paid
  <2>. QED
    BY <2>1, <2>2
    DEF Answer, ViewInv, Answered, ConfirmedIsOneDrill, QuietViewsAgree
<1>6. CASE ReadCounts
  <2>1. view.at = "counts" /\ Answer("fallback", counts)
    BY <1>6 DEF ReadCounts
  <2>2. Quiet /\ view.summary.set => counts = view.summary.served
    BY <1>4, <2>1 DEF SecondReads, WholeRun
  <2>. QED
    BY <2>1, <2>2
    DEF Answer, ViewInv, Answered, ConfirmedIsOneDrill, QuietViewsAgree
<1>7. CASE ReadRetrylog
  <2>1. view.at = "retrylog" /\ Answer("retry-log", retrylog)
    BY <1>7 DEF ReadRetrylog
  <2>2. Quiet /\ view.summary.set =>
          /\ \A r \in Roles : LogCountOf(retrylog, r) = view.summary.served[r]
          /\ Attempts(retrylog) = view.summary.attempts
    BY <1>4, <2>1 DEF SecondReads, WholeRun, Tallied, Paid
  <2>. QED
    BY <2>1, <2>2
    DEF Answer, ViewInv, Answered, ConfirmedIsOneDrill, QuietViewsAgree
<1>8. CASE ReadLedger
  <2>1. /\ view.at = "ledger" /\ UNCHANGED vars
        /\ view' = [at |-> "verdict", summary |-> view.summary,
                    quiet |-> view.quiet, ops |-> view.ops,
                    faults |-> view.faults, rows |-> receipts]
    BY <1>8 DEF ReadLedger
  <2>2. Reading /\ OneRun(receipts)
    BY <1>4, <2>1 DEF SecondReads, LedgerInv
  <2>3. Reading'
    <3>1. /\ AllIdle' = AllIdle /\ UNCHANGED <<ops, faults, summary, receipts>>
          /\ Quiet' = Quiet
      BY <2>1 DEF vars, redis, AllIdle, Idle, Quiet
    <3>. QED
      BY <2>1, <2>2, <3>1 DEF Reading
  <2>. QED
    BY <2>1, <2>3
    DEF ViewInv, Answered, ConfirmedIsOneDrill, QuietViewsAgree
<1>9. CASE Judge
  <2> DEFINE verdict == Verdict(view.summary, view.rows, retrylog)
  <2>1. /\ view.at = "verdict"
        /\ Answer("reconcile", [verdict |-> verdict, rows |-> view.rows])
    BY <1>9 DEF Judge
  <2>2. Reading
    BY <1>4, <2>1
  <2>3. WholeSummary(view.summary) /\ OneRun(view.rows)
        /\ (Quiet => view.rows = receipts)
    BY <2>1, <2>2 DEF Reading
  <2>4. verdict = "CONFIRMED" =>
          /\ {x.seq : x \in view.rows} = 1..Len(Script)
          /\ Cardinality({x.drill : x \in view.rows}) = 1
    BY <2>3, ConfirmedHasAllRows
  <2>5. Quiet /\ view.summary.set =>
          (verdict = "CONFIRMED" <=> view.summary.recovered /\ view.rows # {})
    <3>1. Quiet /\ view.summary.set =>
            view.summary = summary /\ view.rows = receipts
      BY <1>4, <2>1, <2>3
    <3>. QED
      BY <3>1, QuietVerdict
  <2>6. view' = [at |-> "reconcile", summary |-> view.summary, quiet |-> Quiet,
                 evidence |-> [verdict |-> verdict, rows |-> view.rows]]
    BY <2>1 DEF Answer
  <2> HIDE DEF verdict
  <2>7. ConfirmedIsOneDrill'
    BY <2>4, <2>6 DEF ConfirmedIsOneDrill
  <2>8. QuietViewsAgree'
    BY <2>5, <2>6 DEF QuietViewsAgree
  <2>. QED
    BY <2>6, <2>7, <2>8 DEF ViewInv, Answered
<1>. QED
  BY <1>1, <1>2, <1>3, <1>5, <1>6, <1>7, <1>8, <1>9 DEF ViewNext, View

LEMMA ViewsRunService == ViewNext => [Next]_vars
BY DEF ViewNext, View, ReadSummary, ReadTimeline, ReadCounts, ReadRetrylog,
       ReadLedger, Judge, Answer

LEMMA ViewInvariant == Serial => (ViewSpec => []ViewInv)
<1> SUFFICES ASSUME Serial PROVE ViewSpec => []ViewInv
  OBVIOUS
<1>1. ViewInit => Init
  BY DEF ViewInit
<1>2. [ViewNext]_viewVars => [Next]_vars
  BY ViewsRunService DEF viewVars
<1>3. DrillType /\ OneAtATime /\ [Next]_vars => OneAtATime'
  BY NextOneAtATime
<1>. QED
  BY <1>1, <1>2, <1>3, InitDrill, NextDrill, InitLedger, NextLedger, InitEvidence,
     NextEvidence, InitView, NextView, PTL DEF ViewSpec

\* If callers wait for one drill or reset before the next, CONFIRMED is only
\* said of a ledger that held every request of one drill, though summary, ledger
\* and retry log are read one after the other while drills and resets go on
\* (resilience_failover_reconcile).
THEOREM ConfirmedIsOneRun == Serial => (ViewSpec => []ConfirmedIsOneDrill)
<1>1. ViewInv => ConfirmedIsOneDrill
  BY DEF ViewInv
<1>. QED
  BY <1>1, ViewInvariant, PTL

\* If callers wait for one drill or reset before the next, a view that nothing
\* disturbs and that finds a summary shows tally, timeline, retry log and ledger
\* of that one run, for every script and whatever died before.
THEOREM QuietViewsShowOneRun == Serial => (ViewSpec => []QuietViewsAgree)
<1>1. ViewInv => QuietViewsAgree
  BY DEF ViewInv
<1>. QED
  BY <1>1, ViewInvariant, PTL
============================================================================
