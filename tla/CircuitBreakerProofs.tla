----------------------- MODULE CircuitBreakerProofs ------------------------
(***************************************************************************)
(* Proofs about CircuitBreaker, for every script and every threshold,      *)
(* cooldown and retry cap.                                                 *)
(***************************************************************************)
EXTENDS CircuitBreaker, TLAPS

(***************************************************************************)
(* What one request does, arm by arm.                                      *)
(***************************************************************************)
IsShed(b, out) ==
    /\ b.state = "open" /\ b.probes < CooldownProbes
    /\ Handling(b) = "open"
    /\ out = [breaker |-> [state |-> "open", failures |-> b.failures,
                           probes |-> b.probes + 1],
              role |-> "fallback", attempts |-> 0, transition |-> "shed"]

IsProbe(b, c, out) ==
    /\ b.state = "open" /\ b.probes >= CooldownProbes
    /\ Handling(b) = "half_open"
    /\ out = IF c = "healthy"
             THEN [breaker |-> Fresh, role |-> "primary", attempts |-> 1,
                   transition |-> "recovered"]
             ELSE [breaker |-> [state |-> "open", failures |-> b.failures,
                                probes |-> 0],
                   role |-> "fallback", attempts |-> 1,
                   transition |-> "probe_failed"]

IsServe(b, c, out) ==
    /\ b.state = "closed" /\ c = "healthy"
    /\ Handling(b) = "closed"
    /\ out = [breaker |-> [state |-> "closed", failures |-> 0,
                           probes |-> b.probes],
              role |-> "primary", attempts |-> 1, transition |-> "healthy"]

IsFailOver(b, c, out) ==
    /\ b.state = "closed" /\ c # "healthy"
    /\ Handling(b) = "closed"
    /\ b.failures + 1 < FailureThreshold
    /\ out = [breaker |-> [state |-> "closed", failures |-> b.failures + 1,
                           probes |-> b.probes],
              role |-> "fallback", attempts |-> MaxAttempts,
              transition |-> "failover"]

IsTrip(b, c, out) ==
    /\ b.state = "closed" /\ c # "healthy"
    /\ Handling(b) = "closed"
    /\ b.failures + 1 >= FailureThreshold
    /\ out = [breaker |-> [state |-> "open", failures |-> b.failures + 1,
                           probes |-> 0],
              role |-> "fallback", attempts |-> MaxAttempts,
              transition |-> "trip"]

LEMMA HandleArms ==
    ASSUME NEW b \in BreakerState, NEW c
    PROVE  \/ IsShed(b, Handle(b, c))
           \/ IsProbe(b, c, Handle(b, c))
           \/ IsServe(b, c, Handle(b, c))
           \/ IsFailOver(b, c, Handle(b, c))
           \/ IsTrip(b, c, Handle(b, c))
<1> USE BreakerConstants DEF BreakerState, Outcome
<1>1. CASE b.state = "open" /\ b.probes < CooldownProbes
  <2>1. Handling(b) = "open"
    BY <1>1 DEF Handling
  <2>2. Handle(b, c) = Shed(b)
    BY <2>1 DEF Handle
  <2>. QED
    BY <1>1, <2>1, <2>2 DEF IsShed, Shed
<1>2. CASE b.state = "open" /\ b.probes >= CooldownProbes
  <2>1. Handling(b) = "half_open"
    BY <1>2 DEF Handling
  <2>2. Handle(b, c) = IF c = "healthy" THEN ProbeSucceeds(b) ELSE ProbeFails(b)
    BY <2>1 DEF Handle
  <2>. QED
    BY <1>2, <2>1, <2>2 DEF IsProbe, ProbeSucceeds, ProbeFails
<1>3. CASE b.state = "closed"
  <2>1. Handling(b) = "closed"
    BY <1>3 DEF Handling
  <2>2. Handle(b, c) = IF c = "healthy" THEN Serve(b) ELSE FailOver(b)
    BY <2>1 DEF Handle
  <2>. QED
    BY <1>3, <2>1, <2>2 DEF IsServe, IsFailOver, IsTrip, Serve, FailOver
<1>. QED
  BY <1>1, <1>2, <1>3

(***************************************************************************)
(* The inductive invariant: besides the properties themselves, the breaker *)
(* counters have witnesses in the timeline.                                *)
(***************************************************************************)

\* The consecutive failures of a closed circuit are its last requests.
FailuresWitnessed == breaker.state = "closed" =>
    /\ breaker.failures <= Len(timeline)
    /\ \A j \in Len(timeline) - breaker.failures + 1 .. Len(timeline) :
         Unhealthy(j) /\ timeline[j].circuit = "closed"

\* Of the requests since an open circuit was opened, the first one failed.
OutageWitnessed == breaker.state = "open" =>
    /\ breaker.probes < Len(timeline)
    /\ Unhealthy(Len(timeline) - breaker.probes)

CircuitInv ==
    /\ TypeOK
    /\ StateAgrees
    /\ StormBound
    /\ EveryCallerServed
    /\ FailuresWitnessed
    /\ OutageWitnessed
    /\ TripNeedsRunOfFailures

LEMMA InitCircuit == Init => CircuitInv
BY BreakerConstants, ScriptsAssumption
   DEF Init, CircuitInv, TypeOK, StateAgrees, StormBound, EveryCallerServed,
       FailuresWitnessed, OutageWitnessed, TripNeedsRunOfFailures, Fresh,
       BreakerState, Roles

LEMMA RequestCircuit ==
    ASSUME CircuitInv, Request
    PROVE  CircuitInv'
<1> DEFINE n == Len(timeline)
           c == script[n + 1]
           out == Handle(breaker, c)
           entry == [primary_condition |-> c, circuit |-> Handling(breaker),
                     transition |-> out.transition, role |-> out.role,
                     primary_attempts |-> out.attempts]
<1> USE BreakerConstants DEF Unhealthy
<1>1. /\ TypeOK /\ n \in Nat /\ n < Len(script)
      /\ c \in Conditions /\ breaker \in BreakerState
      /\ breaker.failures \in Nat /\ breaker.probes \in Nat
  BY DEF CircuitInv, TypeOK, Request, BreakerState
<1>2. /\ breaker' = out.breaker
      /\ timeline' = Append(timeline, entry)
      /\ served' = [served EXCEPT ![out.role] = @ + 1]
      /\ attempts' = attempts + out.attempts
      /\ unguarded' = unguarded + UnguardedAttempts(c)
      /\ script' = script /\ spent' = Append(spent, attempts)
  BY DEF Request
<1>3. \/ IsShed(breaker, out) \/ IsProbe(breaker, c, out)
      \/ IsServe(breaker, c, out) \/ IsFailOver(breaker, c, out)
      \/ IsTrip(breaker, c, out)
  BY <1>1, HandleArms
<1> HIDE DEF c, out
<1>4. /\ out.breaker \in BreakerState /\ out.role \in Roles
      /\ out.attempts \in Nat /\ entry \in Entry
      /\ out.attempts <= UnguardedAttempts(c)
      /\ UnguardedAttempts(c) \in Nat /\ UnguardedAttempts(c) <= MaxAttempts
  BY <1>1, <1>3
  DEF IsShed, IsProbe, IsServe, IsFailOver, IsTrip, BreakerState, Fresh, Roles,
      Entry, UnguardedAttempts
<1> HIDE DEF entry
<1>5. /\ Len(timeline') = n + 1
      /\ timeline'[n + 1] = entry
      /\ \A i \in 1..n : timeline'[i] = timeline[i]
  BY <1>1, <1>2, <1>4 DEF TypeOK
<1>6. TypeOK'
  <2>1. timeline' \in Seq(Entry) /\ breaker' \in BreakerState
    BY <1>1, <1>2, <1>4 DEF TypeOK
  <2>2. served' \in [Roles -> Nat]
    <3>1. served \in [Roles -> Nat] /\ out.role \in Roles
      BY <1>1, <1>4 DEF TypeOK
    <3>2. served' = [served EXCEPT ![out.role] = served[out.role] + 1]
      BY <1>2
    <3>. HIDE BreakerConstants
    <3>. QED
      BY <3>1, <3>2
  <2>3. attempts' \in Nat /\ unguarded' \in Nat
    <3>1. attempts \in Nat /\ unguarded \in Nat
      BY <1>1 DEF TypeOK
    <3>2. out.attempts \in Nat /\ UnguardedAttempts(c) \in Nat
      BY <1>4
    <3>3. /\ attempts' = attempts + out.attempts
          /\ unguarded' = unguarded + UnguardedAttempts(c)
      BY <1>2
    <3>. HIDE BreakerConstants
    <3>. QED
      BY <3>1, <3>2, <3>3
  <2>4. spent' \in Seq(Nat)
    BY <1>1, <1>2 DEF TypeOK
  <2>. QED
    BY <2>1, <2>2, <2>3, <2>4, <1>1, <1>2 DEF TypeOK
<1>7. StateAgrees'
  <2>1. StateAgrees
    BY DEF CircuitInv
  <2>2. CASE IsShed(breaker, out)
    BY <1>1, <1>2, <2>1, <2>2 DEF StateAgrees, IsShed
  <2>3. CASE IsProbe(breaker, c, out)
    BY <1>1, <1>2, <2>1, <2>3 DEF StateAgrees, IsProbe, Fresh
  <2>4. CASE IsServe(breaker, c, out)
    BY <1>1, <1>2, <2>1, <2>4 DEF StateAgrees, IsServe, Fresh
  <2>5. CASE IsFailOver(breaker, c, out)
    BY <1>1, <1>2, <2>1, <2>5 DEF StateAgrees, IsFailOver
  <2>6. CASE IsTrip(breaker, c, out)
    BY <1>1, <1>2, <2>1, <2>6 DEF StateAgrees, IsTrip
  <2>. QED
    BY <1>3, <2>2, <2>3, <2>4, <2>5, <2>6
<1>8. StormBound'
  <2>1. attempts' <= unguarded'
    BY <1>1, <1>2, <1>4 DEF CircuitInv, StormBound, TypeOK
  <2>2. /\ unguarded' <= MaxAttempts * n + MaxAttempts
        /\ MaxAttempts * n + MaxAttempts = MaxAttempts * (n + 1)
    <3>1. unguarded <= MaxAttempts * n /\ unguarded \in Nat
      BY <1>1 DEF CircuitInv, StormBound, TypeOK
    <3>2. MaxAttempts * n \in Nat
      BY <1>1
    <3>3. MaxAttempts * (n + 1) = MaxAttempts * n + MaxAttempts
      BY <1>1
    <3>4. /\ unguarded' = unguarded + UnguardedAttempts(c)
          /\ UnguardedAttempts(c) <= MaxAttempts
          /\ UnguardedAttempts(c) \in Nat /\ MaxAttempts \in Nat
      BY <1>1, <1>2, <1>4
    <3>. DEFINE ceiling == MaxAttempts * n
    <3>. HIDE DEF ceiling
    <3>5. unguarded' <= ceiling + MaxAttempts
      <4>1. unguarded <= ceiling /\ ceiling \in Nat /\ unguarded \in Nat
        BY <3>1, <3>2 DEF ceiling
      <4>. QED
        BY <4>1, <3>4
    <3>. QED
      BY <3>3, <3>5 DEF ceiling
  <2>3. unguarded' <= MaxAttempts * Len(timeline')
    BY <2>2, <1>5
  <2>. QED
    BY <2>1, <2>3 DEF StormBound
<1>9. EveryCallerServed'
  <2>1. served'["primary"] + served'["fallback"] = Len(timeline')
    <3>1. /\ served["primary"] \in Nat /\ served["fallback"] \in Nat
          /\ served["primary"] + served["fallback"] = n
      BY <1>1 DEF CircuitInv, EveryCallerServed, TypeOK, Roles
    <3>2. \/ /\ served'["primary"] = served["primary"] + 1
             /\ served'["fallback"] = served["fallback"]
          \/ /\ served'["fallback"] = served["fallback"] + 1
             /\ served'["primary"] = served["primary"]
      BY <1>1, <1>2, <1>4 DEF TypeOK, Roles
    <3>3. n \in Nat /\ Len(timeline') = n + 1
      BY <1>1, <1>5
    <3>. HIDE BreakerConstants
    <3>. HIDE DEF n
    <3>4. served'["primary"] + served'["fallback"] = n + 1
      BY <3>1, <3>2, <3>3
    <3>. QED
      BY <3>3, <3>4
  <2>2. entry.role = "primary" =>
          entry.primary_condition = "healthy" /\ entry.circuit # "open"
    BY <1>3 DEF entry, IsShed, IsProbe, IsServe, IsFailOver, IsTrip
  <2>. QED
    BY <2>1, <2>2, <1>1, <1>5 DEF CircuitInv, EveryCallerServed
<1>10. FailuresWitnessed'
  <2>1. CASE IsShed(breaker, out)
    BY <2>1, <1>2 DEF IsShed, FailuresWitnessed
  <2>2. CASE IsProbe(breaker, c, out)
    BY <2>2, <1>1, <1>2, <1>5 DEF IsProbe, FailuresWitnessed, Fresh
  <2>3. CASE IsServe(breaker, c, out)
    BY <2>3, <1>1, <1>2, <1>5 DEF IsServe, FailuresWitnessed
  <2>4. CASE IsFailOver(breaker, c, out)
    <3>1. breaker'.failures = breaker.failures + 1
      BY <2>4, <1>2 DEF IsFailOver
    <3>2. entry.primary_condition # "healthy" /\ entry.circuit = "closed"
      BY <2>4 DEF IsFailOver, entry
    <3>3. /\ breaker.failures <= n
          /\ \A j \in n - breaker.failures + 1 .. n :
               Unhealthy(j) /\ timeline[j].circuit = "closed"
      BY <2>4 DEF IsFailOver, CircuitInv, FailuresWitnessed
    <3>4. \A j \in (n + 1) - (breaker.failures + 1) + 1 .. n + 1 :
            j = n + 1 \/ j \in (n - breaker.failures + 1 .. n) \intersect (1..n)
      BY <3>3, <1>1
    <3>5. \A j \in (n + 1) - (breaker.failures + 1) + 1 .. n + 1 :
            /\ timeline'[j].primary_condition # "healthy"
            /\ timeline'[j].circuit = "closed"
      BY <3>2, <3>3, <3>4, <1>5
    <3>. QED
      BY <3>1, <3>3, <3>5, <1>1, <1>5 DEF FailuresWitnessed
  <2>5. CASE IsTrip(breaker, c, out)
    BY <2>5, <1>2 DEF IsTrip, FailuresWitnessed
  <2>. QED
    BY <1>3, <2>1, <2>2, <2>3, <2>4, <2>5
<1>11. OutageWitnessed'
  <2>1. CASE IsShed(breaker, out)
    <3>1. breaker'.probes = breaker.probes + 1
      BY <2>1, <1>2 DEF IsShed
    <3>2. /\ breaker.probes < n /\ n - breaker.probes \in 1..n
          /\ Unhealthy(n - breaker.probes)
      BY <2>1, <1>1 DEF IsShed, CircuitInv, OutageWitnessed
    <3>. QED
      BY <3>1, <3>2, <1>1, <1>5 DEF OutageWitnessed
  <2>2. CASE IsProbe(breaker, c, out)
    <3>1. CASE c = "healthy"
      BY <2>2, <3>1, <1>2 DEF IsProbe, OutageWitnessed, Fresh
    <3>2. CASE c # "healthy"
      <4>1. breaker'.probes = 0 /\ entry.primary_condition # "healthy"
        BY <2>2, <3>2, <1>2 DEF IsProbe, entry
      <4>. QED
        BY <4>1, <1>1, <1>5 DEF OutageWitnessed
    <3>. QED
      BY <3>1, <3>2
  <2>3. CASE IsServe(breaker, c, out) \/ IsFailOver(breaker, c, out)
    BY <2>3, <1>2 DEF IsServe, IsFailOver, OutageWitnessed
  <2>4. CASE IsTrip(breaker, c, out)
    <3>1. breaker'.probes = 0 /\ entry.primary_condition # "healthy"
      BY <2>4, <1>2 DEF IsTrip, entry
    <3>. QED
      BY <3>1, <1>1, <1>5 DEF OutageWitnessed
  <2>. QED
    BY <1>3, <2>1, <2>2, <2>3, <2>4
<1>12. TripNeedsRunOfFailures'
  <2>1. SUFFICES ASSUME NEW i \in 1..(n + 1), timeline'[i].transition = "trip"
                 PROVE  /\ i >= FailureThreshold
                        /\ \A j \in i - FailureThreshold + 1 .. i :
                             /\ timeline'[j].primary_condition # "healthy"
                             /\ timeline'[j].circuit = "closed"
    BY <1>5 DEF TripNeedsRunOfFailures
  <2>2. CASE i \in 1..n
    <3>1. timeline[i].transition = "trip"
      BY <2>1, <2>2, <1>5
    <3>2. /\ i >= FailureThreshold
          /\ \A j \in i - FailureThreshold + 1 .. i :
               Unhealthy(j) /\ timeline[j].circuit = "closed"
      BY <3>1, <2>2 DEF CircuitInv, TripNeedsRunOfFailures
    <3>3. \A j \in i - FailureThreshold + 1 .. i : j \in 1..n
      BY <3>2, <2>2, <1>1
    <3>. QED
      BY <3>2, <3>3, <1>5
  <2>3. CASE i = n + 1
    <3>1. out.transition = "trip"
      <4>1. entry.transition = "trip"
        BY <2>1, <2>3, <1>5
      <4>. QED
        BY <4>1 DEF entry
    <3>2. IsTrip(breaker, c, out)
      BY <3>1, <1>3 DEF IsShed, IsProbe, IsServe, IsFailOver
    <3>3. breaker.failures = FailureThreshold - 1
      BY <3>2, <1>1 DEF IsTrip, CircuitInv, StateAgrees
    <3>4. entry.primary_condition # "healthy" /\ entry.circuit = "closed"
      BY <3>2 DEF IsTrip, entry
    <3>5. /\ breaker.failures <= n
          /\ \A j \in n - breaker.failures + 1 .. n :
               Unhealthy(j) /\ timeline[j].circuit = "closed"
      BY <3>2 DEF IsTrip, CircuitInv, FailuresWitnessed
    <3>6. \A j \in i - FailureThreshold + 1 .. i :
            j = n + 1 \/ j \in (n - breaker.failures + 1 .. n) \intersect (1..n)
      BY <2>3, <3>3, <3>5, <1>1
    <3>. QED
      BY <2>3, <3>3, <3>4, <3>5, <3>6, <1>1, <1>5
  <2>. QED
    BY <2>2, <2>3, <1>1
<1>. QED
  BY <1>6, <1>7, <1>8, <1>9, <1>10, <1>11, <1>12 DEF CircuitInv

LEMMA CircuitInvariant == Spec => []CircuitInv
<1>1. CircuitInv /\ [Next]_vars => CircuitInv'
  <2> SUFFICES ASSUME CircuitInv, [Next]_vars PROVE CircuitInv'
    OBVIOUS
  <2>1. CASE UNCHANGED vars
    BY <2>1
    DEF vars, CircuitInv, TypeOK, StateAgrees, StormBound, EveryCallerServed,
        FailuresWitnessed, OutageWitnessed, TripNeedsRunOfFailures, Unhealthy
  <2>. QED
    BY <2>1, RequestCircuit DEF Next
<1>. QED
  BY InitCircuit, <1>1, PTL DEF Spec

\* The locals of run_drill keep their types, whatever the script.
THEOREM TypeCorrect == Spec => []TypeOK
BY CircuitInvariant, PTL DEF CircuitInv

\* State, failure count and cooldown of the breaker agree between any two
\* requests of run_drill, whatever the script.
THEOREM BreakerAgrees == Spec => []StateAgrees
BY CircuitInvariant, PTL DEF CircuitInv

\* The breaker never makes the primary pay more attempts than callers without
\* one, nor more than the retry budget ceiling of the summary.
THEOREM NoRetryStorm == Spec => []StormBound
BY CircuitInvariant, PTL DEF CircuitInv

\* Every request is answered once, and by the primary only when it is healthy.
THEOREM CallersServed == Spec => []EveryCallerServed
BY CircuitInvariant, PTL DEF CircuitInv

\* A trip is always the last of FAILURE_THRESHOLD failing requests in a row.
THEOREM TripsJustified == Spec => []TripNeedsRunOfFailures
BY CircuitInvariant, PTL DEF CircuitInv

\* A primary that stays healthy is back in service within one cooldown and
\* one probe, however the outage went.
THEOREM RecoveryBounded == Spec => []RecoversWithinCooldown
<1>1. CircuitInv => RecoversWithinCooldown
  <2> SUFFICES ASSUME CircuitInv, Len(timeline) > CooldownProbes,
                      \A j \in Len(timeline) - CooldownProbes .. Len(timeline) :
                        ~Unhealthy(j)
               PROVE  breaker.state = "closed"
    BY DEF RecoversWithinCooldown
  <2>1. /\ breaker.state \in {"closed", "open"}
        /\ breaker.probes \in Nat /\ Len(timeline) \in Nat
    BY DEF CircuitInv, TypeOK, BreakerState
  <2>2. breaker.state = "open" =>
          /\ breaker.probes <= CooldownProbes
          /\ Unhealthy(Len(timeline) - breaker.probes)
    BY DEF CircuitInv, StateAgrees, OutageWitnessed
  <2>. QED
    BY <2>1, <2>2, BreakerConstants
<1>. QED
  BY <1>1, CircuitInvariant, PTL

(***************************************************************************)
(* The budget of an outage.  Multiplication and division by a constant,    *)
(* for every value of it.                                                  *)
(***************************************************************************)
LEMMA TimesOneMore ==
    ASSUME NEW a \in Nat, NEW b \in Nat
    PROVE  a * b \in Nat /\ a * (b + 1) = a * b + a
OBVIOUS

LEMMA TimesMonotone ==
    ASSUME NEW a \in Nat, NEW b \in Nat, NEW c \in Nat, b <= c
    PROVE  a * b <= a * c
<1>1. PICK k \in Nat : c = b + k
  <2>1. c - b \in Nat /\ c = b + (c - b)
    OBVIOUS
  <2>. QED
    BY <2>1
<1>2. a * c = a * b + a * k /\ a * k \in Nat /\ a * b \in Nat
  BY <1>1
<1>. QED
  BY <1>2

LEMMA FloorDivision ==
    ASSUME NEW a \in Nat, NEW b \in Nat \ {0}, NEW p \in Nat, b * p <= a
    PROVE  p <= a \div b
<1> DEFINE q == a \div b
<1>1. q \in Nat /\ a < b * (q + 1)
  OBVIOUS
<1> HIDE DEF q
<1>2. SUFFICES ASSUME q + 1 <= p PROVE FALSE
  BY <1>1 DEF q
<1>3. b * (q + 1) <= b * p
  BY <1>1, <1>2, TimesMonotone
<1>4. b * (q + 1) \in Nat /\ b * p \in Nat
  BY <1>1
<1>. QED
  BY <1>1, <1>3, <1>4

\* What the primary was asked since request i began, also if i is the next one.
Bill(i) == IF i <= Len(timeline) THEN attempts - spent[i] ELSE 0

Length(i) == Len(timeline) - i + 1

\* Of an outage that began with request i: a closed circuit has retried every
\* request of it, an open one at most FAILURE_THRESHOLD of them, and each probe
\* since then took a cooldown, the first one perhaps a cooldown it found begun.
Budgeted(i) ==
    /\ breaker.state = "closed" => /\ Length(i) <= breaker.failures
                                  /\ Bill(i) <= MaxAttempts * Length(i)
    /\ breaker.state = "open" => \E retried, probed \in Nat :
         /\ retried <= FailureThreshold /\ retried <= Length(i)
         /\ Bill(i) <= MaxAttempts * retried + probed
         /\ retried + (CooldownProbes + 1) * probed + breaker.probes
              <= Length(i) + CooldownProbes

BudgetInv ==
    /\ Len(spent) = Len(timeline)
    /\ \A i \in 1..Len(timeline) + 1 :
         (\A j \in i..Len(timeline) : Unhealthy(j)) => Budgeted(i)

LEMMA InitBudget == Init => BudgetInv
<1> SUFFICES ASSUME Init PROVE BudgetInv
  OBVIOUS
<1>1. Len(timeline) = 0 /\ Len(spent) = 0 /\ attempts = 0 /\ breaker.failures = 0
      /\ breaker.state = "closed"
  BY DEF Init, Fresh
<1>2. MaxAttempts * 0 = 0
  BY BreakerConstants
<1>3. ASSUME NEW i \in 1..1 PROVE Budgeted(i)
  <2>1. Length(i) = 0 /\ Bill(i) = 0
    BY <1>1 DEF Length, Bill
  <2>. QED
    BY <1>1, <1>2, <2>1 DEF Budgeted
<1>. QED
  BY <1>1, <1>3 DEF BudgetInv

LEMMA RequestBudget ==
    ASSUME CircuitInv, CircuitInv', BudgetInv, Request
    PROVE  BudgetInv'
<1> DEFINE n == Len(timeline)
           c == script[n + 1]
           out == Handle(breaker, c)
<1>1. /\ n \in Nat /\ attempts \in Nat /\ spent \in Seq(Nat) /\ Len(spent) = n
      /\ breaker \in BreakerState /\ breaker.failures \in Nat
      /\ breaker.probes \in Nat
      /\ MaxAttempts \in Nat /\ CooldownProbes \in Nat
      /\ FailureThreshold \in Nat \ {0}
  BY BreakerConstants DEF CircuitInv, TypeOK, BreakerState, BudgetInv
<1>2. /\ breaker' = out.breaker
      /\ attempts' = attempts + out.attempts
      /\ spent' = Append(spent, attempts)
      /\ timeline' = Append(timeline,
             [primary_condition |-> c, circuit |-> Handling(breaker),
              transition |-> out.transition, role |-> out.role,
              primary_attempts |-> out.attempts])
  BY DEF Request
<1>3. \/ IsShed(breaker, out) \/ IsProbe(breaker, c, out)
      \/ IsServe(breaker, c, out) \/ IsFailOver(breaker, c, out)
      \/ IsTrip(breaker, c, out)
  BY <1>1, HandleArms
<1>4. /\ Len(timeline') = n + 1 /\ timeline'[n + 1].primary_condition = c
      /\ \A j \in 1..n : timeline'[j] = timeline[j]
      /\ Len(spent') = n + 1 /\ spent'[n + 1] = attempts
      /\ \A j \in 1..n : spent'[j] = spent[j]
  BY <1>1, <1>2 DEF CircuitInv, TypeOK
<1>5. /\ breaker.state = "closed" => breaker.failures < FailureThreshold
      /\ breaker'.state = "open" => breaker'.probes <= CooldownProbes
      /\ breaker.state = "open" => breaker.probes <= CooldownProbes
      /\ breaker' \in BreakerState /\ attempts' \in Nat
  BY DEF CircuitInv, StateAgrees, TypeOK
<1> HIDE DEF c, out
<1>6. ASSUME NEW i \in Nat, i = n + 2 PROVE Budgeted(i)'
  <2>1. Length(i)' = 0 /\ Bill(i)' = 0
    <3>1. ~(i <= Len(timeline'))
      BY <1>1, <1>4, <1>6
    <3>2. Bill(i)' = 0
      BY <3>1 DEF Bill
    <3>3. Length(i)' = 0
      BY <1>1, <1>4, <1>6 DEF Length
    <3>. QED
      BY <3>2, <3>3
  <2>2. MaxAttempts * 0 = 0 /\ (CooldownProbes + 1) * 0 = 0
    BY <1>1
  <2>3. breaker'.failures \in Nat /\ breaker'.probes \in Nat
    BY <1>5 DEF BreakerState
  <2>4. breaker'.state = "open" => \E retried, probed \in Nat :
         /\ retried <= FailureThreshold /\ retried <= Length(i)'
         /\ Bill(i)' <= MaxAttempts * retried + probed
         /\ retried + (CooldownProbes + 1) * probed + breaker'.probes
              <= Length(i)' + CooldownProbes
    <3> SUFFICES ASSUME breaker'.state = "open"
                 PROVE  /\ 0 <= FailureThreshold /\ 0 <= Length(i)'
                        /\ Bill(i)' <= MaxAttempts * 0 + 0
                        /\ 0 + (CooldownProbes + 1) * 0 + breaker'.probes
                              <= Length(i)' + CooldownProbes
      OBVIOUS
    <3>. QED
      BY <1>1, <1>5, <2>1, <2>2, <2>3
  <2>. QED
    BY <2>1, <2>2, <2>3, <2>4 DEF Budgeted
<1>7. ASSUME NEW i \in 1..n + 1, \A j \in i..n + 1 : Unhealthy(j)'
      PROVE  Budgeted(i)'
  <2> DEFINE length == n - i + 1
             bill == Bill(i)
  <2>1. c # "healthy" /\ \A j \in i..n : Unhealthy(j)
    BY <1>1, <1>4, <1>7 DEF Unhealthy
  <2>2. /\ length \in Nat /\ Length(i) = length /\ Length(i)' = length + 1
        /\ bill \in Int /\ Bill(i)' = bill + out.attempts /\ out.attempts \in Int
    <3>1. out.attempts \in Nat
      BY <1>3, BreakerConstants DEF IsShed, IsProbe, IsServe, IsFailOver, IsTrip
    <3>2. length \in Nat /\ Length(i) = length /\ Length(i)' = length + 1
      BY <1>1, <1>4 DEF Length
    <3>3. CASE i \in 1..n
      <4>1. spent[i] \in Nat /\ spent'[i] = spent[i]
        BY <1>1, <1>4, <3>3
      <4>. i <= Len(timeline) /\ i <= Len(timeline')
        BY <1>1, <1>4, <3>3
      <4>2. Bill(i) = attempts - spent[i] /\ Bill(i)' = attempts' - spent[i]
        BY <4>1 DEF Bill
      <4>3. attempts' = attempts + out.attempts
        BY <1>2
      <4>. HIDE DEF n
      <4>4. bill = attempts - spent[i]
        BY <4>2
      <4>5. Bill(i)' = (attempts + out.attempts) - spent[i]
        BY <4>2, <4>3
      <4>6. attempts \in Int /\ spent[i] \in Int /\ out.attempts \in Int
        BY <1>1, <3>1, <4>1
      <4>7. /\ (attempts + out.attempts) - spent[i] = (attempts - spent[i]) + out.attempts
            /\ attempts - spent[i] \in Int
        BY <4>6
      <4>8. bill \in Int /\ Bill(i)' = bill + out.attempts
        BY <4>4, <4>5, <4>7
      <4>. QED
        BY <3>1, <3>2, <4>8
    <3>4. CASE i = n + 1
      <4>1. Bill(i) = 0 /\ Bill(i)' = attempts' - attempts
        BY <1>1, <1>4, <3>4 DEF Bill
      <4>. QED
        BY <1>1, <1>2, <3>1, <3>2, <4>1
    <3>. QED
      BY <3>3, <3>4, <1>1
  <2>3. Budgeted(i)
    BY <2>1, <1>1 DEF BudgetInv
  <2>4. MaxAttempts * (length + 1) = MaxAttempts * length + MaxAttempts
    BY <2>2, <1>1, TimesOneMore
  <2>5. MaxAttempts * length \in Nat
    BY <2>2, <1>1, TimesOneMore
  <2> HIDE DEF length, bill, n
  <2>6. CASE IsFailOver(breaker, c, out)
    <3>1. /\ breaker'.state = "closed" /\ breaker'.failures = breaker.failures + 1
          /\ out.attempts = MaxAttempts
          /\ length <= breaker.failures /\ bill <= MaxAttempts * length
      BY <2>6, <2>2, <2>3, <1>2 DEF IsFailOver, Budgeted, bill
    <3>. QED
      BY <3>1, <2>2, <2>4, <2>5, <1>1 DEF Budgeted
  <2>7. CASE IsTrip(breaker, c, out)
    <3>1. /\ breaker'.state = "open" /\ breaker'.probes = 0
          /\ out.attempts = MaxAttempts /\ breaker.state = "closed"
          /\ length <= breaker.failures /\ bill <= MaxAttempts * length
      BY <2>7, <2>2, <2>3, <1>2 DEF IsTrip, Budgeted, bill
    <3>2. /\ length + 1 \in Nat /\ length + 1 <= FailureThreshold
          /\ bill + MaxAttempts <= MaxAttempts * (length + 1) + 0
          /\ (length + 1) + (CooldownProbes + 1) * 0 + 0
                <= (length + 1) + CooldownProbes
      BY <3>1, <2>2, <2>4, <2>5, <1>1, <1>5
    <3>3. \E retried, probed \in Nat :
         /\ retried <= FailureThreshold /\ retried <= length + 1
         /\ bill + MaxAttempts <= MaxAttempts * retried + probed
         /\ retried + (CooldownProbes + 1) * probed + 0
              <= (length + 1) + CooldownProbes
      BY <3>2, <2>2
    <3>. QED
      BY <3>1, <3>3, <2>2 DEF Budgeted
  <2>8. CASE IsShed(breaker, out) \/ IsProbe(breaker, c, out)
    <3>1. breaker.state = "open" /\ breaker'.state = "open"
      BY <2>1, <2>8, <1>2 DEF IsShed, IsProbe
    <3>2. PICK retried, probed \in Nat :
         /\ retried <= FailureThreshold /\ retried <= length
         /\ bill <= MaxAttempts * retried + probed
         /\ retried + (CooldownProbes + 1) * probed + breaker.probes
              <= length + CooldownProbes
      BY <3>1, <2>2, <2>3 DEF Budgeted, bill
    <3>3. /\ (CooldownProbes + 1) * probed \in Nat
          /\ (CooldownProbes + 1) * (probed + 1) =
                (CooldownProbes + 1) * probed + (CooldownProbes + 1)
          /\ MaxAttempts * retried \in Nat
      BY <1>1, TimesOneMore
    <3>4. \E more \in {0, 1} :
            /\ bill + out.attempts <= MaxAttempts * retried + (probed + more)
            /\ retried + (CooldownProbes + 1) * (probed + more) + breaker'.probes
                 <= (length + 1) + CooldownProbes
      <4>1. CASE IsShed(breaker, out)
        <5>1. breaker'.probes = breaker.probes + 1 /\ out.attempts = 0
          BY <4>1, <1>2 DEF IsShed
        <5>2. probed + 0 = probed
          OBVIOUS
        <5>. QED
          BY <5>1, <5>2, <3>2, <3>3, <2>2, <1>1
      <4>2. CASE IsProbe(breaker, c, out)
        <5>1. /\ breaker'.probes = 0 /\ out.attempts = 1
              /\ breaker.probes = CooldownProbes
          BY <4>2, <2>1, <1>1, <1>2, <1>5 DEF IsProbe
        <5>. QED
          BY <5>1, <3>2, <3>3, <2>2, <1>1
      <4>. QED
        BY <2>8, <4>1, <4>2
    <3>5. \E more \in Nat :
            /\ bill + out.attempts <= MaxAttempts * retried + more
            /\ retried + (CooldownProbes + 1) * more + breaker'.probes
                 <= (length + 1) + CooldownProbes
      BY <3>4
    <3>6. retried <= length + 1
      BY <3>2, <2>2
    <3>. QED
      BY <3>1, <3>2, <3>5, <3>6, <2>2 DEF Budgeted
  <2>. QED
    BY <1>3, <2>1, <2>6, <2>7, <2>8 DEF IsServe
<1>8. ASSUME NEW i \in 1..n + 2, \A j \in i..n + 1 : Unhealthy(j)'
      PROVE  Budgeted(i)'
  <2>1. i \in 1..n + 1 \/ (i \in Nat /\ i = n + 2)
    BY <1>1
  <2>2. CASE i \in 1..n + 1
    BY <2>2, <1>7, <1>8
  <2>3. CASE i \in Nat /\ i = n + 2
    BY <2>3, <1>6
  <2>. QED
    BY <2>1, <2>2, <2>3, Zenon
<1>9. Len(timeline') + 1 = n + 2 /\ Len(spent') = Len(timeline')
  BY <1>1, <1>4
<1>10. ASSUME NEW i \in 1..Len(timeline') + 1,
              \A j \in i..Len(timeline') : Unhealthy(j)'
       PROVE  Budgeted(i)'
  BY <1>4, <1>8, <1>9, <1>10
<1>. QED
  BY <1>9, <1>10 DEF BudgetInv

\* However long the primary fails without a break, it sees the attempts of
\* FAILURE_THRESHOLD requests and then one probe per cooldown, for every
\* script, threshold, cooldown and retry cap (run_drill's loop).
THEOREM OutageBounded == Spec => []OutageBudget
<1>1. CircuitInv /\ CircuitInv' /\ BudgetInv /\ [Next]_vars => BudgetInv'
  <2>1. ASSUME BudgetInv, UNCHANGED vars PROVE BudgetInv'
    BY <2>1 DEF vars, BudgetInv, Budgeted, Bill, Length, Unhealthy
  <2>. QED
    BY <2>1, RequestBudget DEF Next
<1>2. CircuitInv /\ BudgetInv => OutageBudget
  <2> SUFFICES ASSUME CircuitInv, BudgetInv, NEW i \in 1..Len(timeline),
                      \A j \in i..Len(timeline) : Unhealthy(j)
               PROVE  LET length == Len(timeline) - i + 1
                          retried == IF length < FailureThreshold THEN length
                                     ELSE FailureThreshold
                      IN  AttemptsFrom(i) <= MaxAttempts * retried
                            + (length + CooldownProbes) \div (CooldownProbes + 1)
    BY DEF OutageBudget
  <2> DEFINE length == Len(timeline) - i + 1
             most == IF length < FailureThreshold THEN length ELSE FailureThreshold
             probes == (length + CooldownProbes) \div (CooldownProbes + 1)
  <2>1. /\ Len(timeline) \in Nat /\ length \in Nat /\ most \in Nat
        /\ FailureThreshold \in Nat /\ MaxAttempts \in Nat /\ CooldownProbes \in Nat
        /\ CooldownProbes + 1 \in Nat \ {0}
        /\ breaker.state \in {"closed", "open"} /\ breaker.probes \in Nat
        /\ breaker.state = "closed" => breaker.failures < FailureThreshold
        /\ breaker.failures \in Nat
    BY BreakerConstants DEF CircuitInv, TypeOK, BreakerState, StateAgrees
  <2>2. Bill(i) = AttemptsFrom(i) /\ Length(i) = length
    BY DEF Bill, AttemptsFrom, Length
  <2>3. Bill(i) \in Int
    BY <2>1 DEF Bill, CircuitInv, TypeOK, BudgetInv
  <2>4. Budgeted(i)
    BY <2>1 DEF BudgetInv
  <2> HIDE DEF length, most, probes
  <2>5. probes \in Nat /\ MaxAttempts * most \in Nat
    BY <2>1 DEF probes
  <2>6. CASE breaker.state = "closed"
    <3>1. length <= breaker.failures /\ Bill(i) <= MaxAttempts * length
      BY <2>2, <2>4, <2>6 DEF Budgeted
    <3>2. most = length
      BY <2>1, <2>6, <3>1 DEF most
    <3>. QED
      BY <2>2, <2>3, <2>5, <3>1, <3>2 DEF length, most, probes
  <2>7. CASE breaker.state = "open"
    <3>1. PICK retried, probed \in Nat :
         /\ retried <= FailureThreshold /\ retried <= length
         /\ Bill(i) <= MaxAttempts * retried + probed
         /\ retried + (CooldownProbes + 1) * probed + breaker.probes
              <= length + CooldownProbes
      BY <2>2, <2>4, <2>7 DEF Budgeted
    <3>2. retried <= most
      BY <2>1, <3>1 DEF most
    <3>3. MaxAttempts * retried <= MaxAttempts * most /\ MaxAttempts * retried \in Nat
      BY <2>1, <3>2, TimesMonotone
    <3>4. (CooldownProbes + 1) * probed <= length + CooldownProbes
      <4>1. (CooldownProbes + 1) * probed \in Nat
        BY <2>1
      <4>. QED
        BY <2>1, <3>1, <4>1
    <3>5. probed <= probes
      BY <2>1, <3>4, FloorDivision DEF probes
    <3>6. AttemptsFrom(i) <= MaxAttempts * most + probes
      BY <2>2, <2>3, <2>5, <3>1, <3>3, <3>5
    <3>. QED
      BY <3>6 DEF length, most, probes
  <2>. QED
    BY <2>1, <2>6, <2>7
<1>. QED
  BY <1>1, <1>2, InitBudget, CircuitInvariant, PTL DEF Spec
============================================================================
