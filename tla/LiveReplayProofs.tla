-------------------------- MODULE LiveReplayProofs --------------------------
(***************************************************************************)
(* Proofs about LiveReplay, for every unit of time, scrape interval, hold  *)
(* time, number of threads and pattern of lost or late scrapes.            *)
(***************************************************************************)
EXTENDS LiveReplay, FiniteSetTheorems, TLAPS

Places == {"idle", "clock", "load", "store", "export", "answer"}

Clients == {"none", "prometheus", "visitor", "gone"}

Held == [e : 0..MaxTime, total : 0..MaxTotal]

(***************************************************************************)
(* The fixed numbers of the incident.                                      *)
(***************************************************************************)
LEMMA Ranks ==
    /\ Rank("latency") = 1 /\ Rank("quota") = 2
    /\ Rank("cost") = 3 /\ Rank("quality") = 4
<1>1. /\ FireOrder[1] = "latency" /\ FireOrder[2] = "quota"
      /\ FireOrder[3] = "cost" /\ FireOrder[4] = "quality"
      /\ Len(FireOrder) = 4 /\ 1..4 = {1, 2, 3, 4}
  BY DEF FireOrder
<1>2. Rank("latency") = 1
  BY <1>1 DEF Rank
<1>3. Rank("quota") = 2
  BY <1>1 DEF Rank
<1>4. Rank("cost") = 3
  BY <1>1 DEF Rank
<1>5. Rank("quality") = 4
  BY <1>1 DEF Rank
<1>. QED
  BY <1>2, <1>3, <1>4, <1>5

\* The alert times and the annotation window are those of the timeline,
\* whatever the length of a tick.
LEMMA FireTimes ==
    /\ Fire["latency"] = 3 * TicksPer10s /\ Fire["quota"] = 7 * TicksPer10s
    /\ Fire["cost"] = 12 * TicksPer10s /\ Fire["quality"] = 16 * TicksPer10s
    /\ MarkerWindow = TicksPer10s
<1>1. TicksPer10s \in Nat \ {0}
  BY ReplayConstants
<1>2. /\ (30 * TicksPer10s) \div 10 = 3 * TicksPer10s
      /\ (70 * TicksPer10s) \div 10 = 7 * TicksPer10s
      /\ (120 * TicksPer10s) \div 10 = 12 * TicksPer10s
      /\ (160 * TicksPer10s) \div 10 = 16 * TicksPer10s
      /\ (10 * TicksPer10s) \div 10 = TicksPer10s
  BY <1>1
<1>. QED
  BY <1>2 DEF Fire, MarkerWindow, Ticks

LEMMA FireOrdered ==
    ASSUME NEW a \in Dimensions, NEW d \in Dimensions
    PROVE  /\ Fire[a] \in Nat /\ Fire[a] > 0
           /\ Rank(a) < Rank(d) => Fire[a] + MarkerWindow < Fire[d]
           /\ Rank(a) = Rank(d) => a = d
           /\ Rank(a) \in 1..4
BY Ranks, FireTimes, ReplayConstants DEF Dimensions

\* child_total of the incident's trace.
LEMMA IncidentTotal == ChildTotal(IncidentStages) = 3750
<1> DEFINE upTo[i \in 0..7] ==
             IF i = 0 THEN 0 ELSE upTo[i - 1] + IncidentStages[i].cost
           Def(f) == f = [i \in 0..7 |->
             IF i = 0 THEN 0 ELSE f[i - 1] + IncidentStages[i].cost]
           sums == [i \in 0..7 |->
             IF i = 0 THEN 0 ELSE <<2, 42, 45, 3145, 3345, 3745, 3750>>[i]]
<1>1. /\ Len(IncidentStages) = 7
      /\ IncidentStages[1].cost = 2 /\ IncidentStages[2].cost = 40
      /\ IncidentStages[3].cost = 3 /\ IncidentStages[4].cost = 3100
      /\ IncidentStages[5].cost = 200 /\ IncidentStages[6].cost = 400
      /\ IncidentStages[7].cost = 5
  BY DEF IncidentStages, Stage
<1>2. 0..7 = {0, 1, 2, 3, 4, 5, 6, 7}
  OBVIOUS
<1>3. Def(sums)
  <2>1. /\ sums[0] = 0 /\ sums[1] = 2 /\ sums[2] = 42 /\ sums[3] = 45
        /\ sums[4] = 3145 /\ sums[5] = 3345 /\ sums[6] = 3745 /\ sums[7] = 3750
    BY <1>2
  <2>2. \A i \in 1..7 : sums[i] = sums[i - 1] + IncidentStages[i].cost
    <3>1. 1..7 = {1, 2, 3, 4, 5, 6, 7}
      OBVIOUS
    <3>. HIDE DEF sums
    <3>. QED
      BY <1>1, <2>1, <3>1
  <2>3. \A i \in 0..7 :
          sums[i] = IF i = 0 THEN 0 ELSE sums[i - 1] + IncidentStages[i].cost
    <3>1. \A i \in 0..7 : i = 0 \/ i \in 1..7
      OBVIOUS
    <3>2. sums[0] = 0
      BY <2>1
    <3>. HIDE DEF sums
    <3>. QED
      BY <2>2, <3>1, <3>2
  <2>4. sums = [i \in 0..7 |-> sums[i]]
    OBVIOUS
  <2>. HIDE DEF sums
  <2>. QED
    BY <2>3, <2>4
<1>4. Def(upTo)
  <2>1. upTo = CHOOSE f : Def(f)
    BY DEF upTo
  <2>. HIDE DEF upTo, sums, Def
  <2>. QED
    BY <1>3, <2>1
<1>5. upTo[7] = 3750
  <2>. HIDE DEF upTo, sums
  <2>1. upTo[0] = 0 /\ \A i \in 1..7 : upTo[i] = upTo[i - 1] + IncidentStages[i].cost
    BY <1>4
  <2>2. upTo[1] = 2 /\ upTo[2] = 42 /\ upTo[3] = 45 /\ upTo[4] = 3145
    BY <1>1, <2>1
  <2>3. upTo[5] = 3345 /\ upTo[6] = 3745 /\ upTo[7] = 3750
    BY <1>1, <2>1, <2>2
  <2>. QED
    BY <2>3
<1>6. ChildTotal(IncidentStages) = upTo[7]
  BY <1>1 DEF ChildTotal
<1>. QED
  BY <1>5, <1>6

(***************************************************************************)
(* The service, its threads and the rules keep their types.                *)
(***************************************************************************)
LEMMA InitType == Init => TypeOK
BY ReplayConstants
DEF Init, TypeOK, NothingHeld, Idle, Inactive, Dimensions

\* A handler begins on an idle thread.
LEMMA BeginType ==
    ASSUME TypeOK, NEW t \in Threads, NEW who \in {"prometheus", "visitor"},
           Begin(t, who)
    PROVE  /\ pc' \in [Threads -> Places] /\ client' \in [Threads -> Clients]
           /\ \A u \in Threads : Idle(u)' <=> client'[u] = "none"
           /\ calls' \in 0..MaxTotal
           /\ UNCHANGED <<elapsed, total, held>>
<1>1. calls' \in 0..MaxTotal
  BY ReplayConstants DEF TypeOK, Begin, Least
<1>. QED
  BY <1>1 DEF TypeOK, Begin, Idle, Places, Clients

LEMMA NextType == TypeOK /\ [Next]_vars => TypeOK'
<1> SUFFICES ASSUME TypeOK, [Next]_vars PROVE TypeOK'
  OBVIOUS
<1>1. CASE UNCHANGED vars
  BY <1>1 DEF TypeOK, vars, service, prometheus, history, Idle
<1>2. ASSUME NEW t \in Threads, Visit(t) PROVE TypeOK'
  <2>1. Begin(t, "visitor")
    BY <1>2 DEF Visit
  <2>. QED
    BY <1>2, <2>1, BeginType
    DEF TypeOK, Visit, prometheus, Places, Clients
<1>3. ASSUME NEW t \in Threads, StartScrape(t) PROVE TypeOK'
  <2>1. Begin(t, "prometheus")
    BY <1>3 DEF StartScrape
  <2>2. due' \in 0..ScrapeInterval
    BY <1>3, ReplayConstants DEF StartScrape
  <2>. QED
    BY <1>3, <2>1, <2>2, BeginType DEF TypeOK, StartScrape, Places, Clients
<1>4. ASSUME NEW t \in Threads, ReadClock(t) PROVE TypeOK'
  BY <1>4 DEF TypeOK, ReadClock, prometheus, history, Idle
<1>5. ASSUME NEW t \in Threads, LoadTotal(t) PROVE TypeOK'
  BY <1>5 DEF TypeOK, LoadTotal, prometheus, history, Idle
<1>6. ASSUME NEW t \in Threads, StoreTotal(t) PROVE TypeOK'
  <2>1. held[t].total \in 0..MaxTotal
    BY DEF TypeOK
  <2>2. total' \in 0..MaxTotal
    BY <1>6, <2>1, ReplayConstants DEF StoreTotal, Least
  <2>. QED
    BY <1>6, <2>2 DEF TypeOK, StoreTotal, prometheus, history, Idle
<1>7. ASSUME NEW t \in Threads, Answer(t) PROVE TypeOK'
  <2>1. /\ pc' = [pc EXCEPT ![t] = "idle"] /\ client' = [client EXCEPT ![t] = "none"]
        /\ held' = [held EXCEPT ![t] = NothingHeld]
        /\ seen' = seen \union Marker(held[t].e) \/ seen' = seen
        /\ last' = held[t].e \/ last' = last
        /\ UNCHANGED <<elapsed, total, due, evalDue, age, firing, calls>>
    BY <1>7 DEF Answer
  <2>2. held[t].e \in 0..MaxTime /\ Marker(held[t].e) \subseteq Dimensions
    BY DEF TypeOK, Marker, Marked
  <2>3. NothingHeld \in Held
    BY ReplayConstants DEF NothingHeld, Held
  <2>4. held' \in [Threads -> Held]
    BY <2>1, <2>3 DEF TypeOK, Held
  <2>5. last' \in 0..MaxTime /\ seen' \subseteq Dimensions
    BY <2>1, <2>2 DEF TypeOK
  <2>6. \A u \in Threads : Idle(u)' <=> client'[u] = "none"
    BY <2>1 DEF TypeOK, Idle
  <2>. QED
    BY <2>1, <2>4, <2>5, <2>6 DEF TypeOK, Held
<1>8. CASE ScrapeFails
  BY <1>8, ReplayConstants DEF TypeOK, ScrapeFails, service, Idle
<1>9. CASE ScrapeTimesOut
  BY <1>9 DEF TypeOK, ScrapeTimesOut, Scraping, history, Idle
<1>10. CASE Evaluate
  <2>1. age' \in [Dimensions -> Inactive..HoldFor]
    BY <1>10, ReplayConstants DEF TypeOK, Evaluate, Inactive
  <2>. QED
    BY <1>10, <2>1, ReplayConstants DEF TypeOK, Evaluate, service, history, Idle
<1>11. CASE Tick
  <2>1. age' \in [Dimensions -> Inactive..HoldFor]
    BY <1>11, ReplayConstants DEF TypeOK, Tick, Inactive, Least
  <2>2. elapsed' \in 0..MaxTime
    BY <1>11, ReplayConstants DEF TypeOK, Tick, Least
  <2>3. due' \in 0..ScrapeInterval /\ evalDue' \in 0..ScrapeInterval
    BY <1>11, ReplayConstants DEF TypeOK, Tick
  <2>. QED
    BY <1>11, <2>1, <2>2, <2>3 DEF TypeOK, Tick, Idle
<1>12. CASE Restart
  BY <1>12, ReplayConstants DEF TypeOK, Restart, NothingHeld, Idle
<1>13. ASSUME NEW t \in Threads, ExportTotal(t) PROVE TypeOK'
  BY <1>13 DEF TypeOK, ExportTotal, prometheus, history, Idle
<1>. QED
  BY <1>1, <1>2, <1>3, <1>4, <1>5, <1>6, <1>7, <1>8, <1>9, <1>10, <1>11, <1>12,
     <1>13
  DEF Next, Handle

\* Clock, total, handlers, timers, rules and their ages keep their types
\* through every interleaving of scrapes, visits, failures and restarts.
THEOREM TypeCorrect == Spec => []TypeOK
BY InitType, NextType, PTL DEF Spec

(***************************************************************************)
(* What Prometheus has scraped is the exposition of one moment, and the    *)
(* rules grow old in the order of the timeline.                            *)
(***************************************************************************)
SampleInv == sample = NoSample \/ \E e \in 0..MaxTime : sample = Exposition(e)

\* A rule that is true is true no longer than every earlier one.
AgesInv == \A a, d \in Dimensions : Rank(a) < Rank(d) /\ age[d] # Inactive =>
               age[a] # Inactive /\ age[a] >= age[d]

RulesInv == SampleInv /\ AgesInv /\ AlertsFireInOrder

\* A gauge is on the wrong side of its objective exactly once it has fired.
LEMMA GaugeBreaches ==
    ASSUME NEW d \in Dimensions, NEW e \in Nat
    PROVE  Breaches(d, Gauges(e)[d]) <=> e >= Fire[d]
BY DEF Breaches, Gauges, HasFired, Cur, Base, Dashboard, Panel, Dimensions

LEMMA ExpositionIsSample ==
    ASSUME NEW e \in Nat
    PROVE  /\ Exposition(e) # NoSample /\ Exposition(e).e = e
           /\ Exposition(e).gauges = Gauges(e)
<1>1. Exposition(e).e = e /\ NoSample.e = -1
  BY DEF Exposition, NoSample
<1>. QED
  BY <1>1 DEF Exposition

LEMMA HoldsInOrder ==
    ASSUME TypeOK, SampleInv, NEW a \in Dimensions, NEW d \in Dimensions,
           Rank(a) < Rank(d), Holds(d)
    PROVE  Holds(a)
<1>1. PICK e \in 0..MaxTime : sample = Exposition(e)
  BY DEF SampleInv, Holds
<1>2. e \in Nat /\ sample.gauges = Gauges(e)
  BY <1>1, ReplayConstants, ExpositionIsSample
<1>3. e >= Fire[d]
  BY <1>2, GaugeBreaches DEF Holds
<1>4. e >= Fire[a]
  <2>1. /\ Fire[a] \in Nat /\ Fire[d] \in Nat /\ MarkerWindow \in Nat
        /\ Fire[a] + MarkerWindow < Fire[d]
    BY FireOrdered, FireTimes, ReplayConstants
  <2>. QED
    BY <1>2, <1>3, <2>1
<1>. QED
  BY <1>2, <1>4, GaugeBreaches DEF Holds

LEMMA InitRules == Init => RulesInv
BY DEF Init, RulesInv, SampleInv, AgesInv, AlertsFireInOrder

LEMMA NextSample == TypeOK /\ SampleInv /\ [Next]_vars => SampleInv'
<1> SUFFICES ASSUME TypeOK, SampleInv, [Next]_vars PROVE SampleInv'
  OBVIOUS
<1>1. ASSUME NEW t \in Threads, Answer(t)
      PROVE  sample' = sample \/ \E e \in 0..MaxTime : sample' = Exposition(e)
  BY <1>1 DEF Answer, TypeOK
<1>2. \/ sample' = sample \/ sample' = NoSample
      \/ \E t \in Threads : Answer(t)
  BY DEF Next, Visit, Begin, Handle, ReadClock, LoadTotal, StoreTotal, ExportTotal,
         StartScrape,
         ScrapeFails, ScrapeTimesOut, Evaluate, Tick, Restart, vars, prometheus
<1>. QED
  BY <1>1, <1>2 DEF SampleInv

LEMMA NextRules == TypeOK /\ TypeOK' /\ RulesInv /\ [Next]_vars => RulesInv'
<1> SUFFICES ASSUME TypeOK, TypeOK', RulesInv, [Next]_vars
             PROVE  AgesInv' /\ AlertsFireInOrder'
  BY NextSample DEF RulesInv
<1>1. CASE UNCHANGED <<age, firing>>
  BY <1>1 DEF RulesInv, AgesInv, AlertsFireInOrder
<1>2. CASE Evaluate
  <2>1. ASSUME NEW a \in Dimensions, NEW d \in Dimensions, Rank(a) < Rank(d),
               Holds(d)
        PROVE  /\ Holds(a)
               /\ age'[a] # Inactive /\ age'[a] >= age'[d]
               /\ age[d] >= HoldFor => age[a] >= HoldFor
    <3>1. Holds(a)
      BY <2>1, HoldsInOrder DEF RulesInv
    <3>2. /\ age[a] \in Int /\ age[d] \in Int
          /\ age[d] # Inactive => age[a] # Inactive /\ age[a] >= age[d]
          /\ age[a] # Inactive => age[a] >= 0
          /\ HoldFor \in Nat \ {0}
      BY <2>1, ReplayConstants DEF TypeOK, RulesInv, AgesInv, Inactive
    <3>3. /\ age'[a] = IF age[a] = Inactive THEN 0 ELSE age[a]
          /\ age'[d] = IF age[d] = Inactive THEN 0 ELSE age[d]
      BY <1>2, <2>1, <3>1 DEF Evaluate
    <3>4. age'[a] # Inactive /\ age'[a] >= age'[d]
      BY <3>2, <3>3 DEF Inactive
    <3>5. age[d] >= HoldFor => age[a] >= HoldFor
      BY <3>2 DEF Inactive
    <3>. QED
      BY <3>1, <3>4, <3>5
  <2>2. \A d \in Dimensions : age'[d] # Inactive => Holds(d)
    BY <1>2 DEF Evaluate
  <2>3. firing' = {d \in Dimensions : Holds(d) /\ age[d] >= HoldFor}
    BY <1>2 DEF Evaluate
  <2>4. AgesInv'
    BY <2>1, <2>2 DEF AgesInv
  <2>5. AlertsFireInOrder'
    BY <2>1, <2>3 DEF AlertsFireInOrder
  <2>. QED
    BY <2>4, <2>5
<1>3. CASE Tick
  <2>1. ASSUME NEW a \in Dimensions, NEW d \in Dimensions, Rank(a) < Rank(d),
               age'[d] # Inactive
        PROVE  age'[a] # Inactive /\ age'[a] >= age'[d]
    <3>1. /\ age'[a] = IF age[a] = Inactive THEN Inactive
                       ELSE Least(age[a] + 1, HoldFor)
          /\ age'[d] = IF age[d] = Inactive THEN Inactive
                       ELSE Least(age[d] + 1, HoldFor)
      BY <1>3 DEF Tick
    <3>2. age[d] # Inactive /\ age[a] # Inactive /\ age[a] >= age[d]
      BY <2>1, <3>1 DEF RulesInv, AgesInv
    <3>3. /\ age[a] \in -1..HoldFor /\ age[d] \in -1..HoldFor
          /\ HoldFor \in Nat \ {0}
      BY ReplayConstants DEF TypeOK, Inactive
    <3>. QED
      BY <3>1, <3>2, <3>3 DEF Least, Inactive
  <2>2. UNCHANGED firing
    BY <1>3 DEF Tick
  <2>. QED
    BY <2>1, <2>2 DEF AgesInv, AlertsFireInOrder, RulesInv
<1>4. UNCHANGED <<age, firing>> \/ Evaluate \/ Tick
  BY DEF Next, Visit, Begin, Handle, ReadClock, LoadTotal, StoreTotal, ExportTotal, Answer,
         StartScrape, ScrapeFails, ScrapeTimesOut, Restart, vars, prometheus
<1>. QED
  BY <1>1, <1>2, <1>3, <1>4

LEMMA RulesInvariant == Spec => []RulesInv
BY InitType, NextType, InitRules, NextRules, PTL DEF Spec

\* Whatever scrapes are lost, late or served across a restart, an alert fires
\* only while every earlier one of the incident timeline fires too (alerts.yml
\* over live_metrics_exposition).
THEOREM AlertsInOrder == Spec => []AlertsFireInOrder
<1>1. RulesInv => AlertsFireInOrder
  BY DEF RulesInv
<1>. QED
  BY <1>1, RulesInvariant, PTL

\* Every gauge that was ever scraped is the dashboard's baseline before the
\* alert timeline's moment and its current value from then on, for every length
\* of a tick: Grafana and the terminal never disagree.
THEOREM GrafanaAgrees == Spec => []GrafanaMatchesTerminal
<1>1. RulesInv => GrafanaMatchesTerminal
  <2> SUFFICES ASSUME RulesInv, sample # NoSample, NEW d \in Dimensions
               PROVE  LET v == sample.gauges[d]
                          fired == sample.e >= Ticks(AlertAt[d])
                      IN  /\ v = IF fired THEN Dashboard[d].current
                                 ELSE Dashboard[d].baseline
                          /\ Breaches(d, v) <=> fired
    BY DEF GrafanaMatchesTerminal
  <2>1. PICK e \in 0..MaxTime : sample = Exposition(e)
    BY DEF RulesInv, SampleInv
  <2>2. e \in Nat /\ sample.e = e /\ sample.gauges = Gauges(e)
    BY <2>1, ReplayConstants, ExpositionIsSample
  <2>3. Fire[d] = Ticks(AlertAt[d])
    BY DEF Fire, AlertAt, Dimensions
  <2>4. Cur[d] = Dashboard[d].current /\ Base[d] = Dashboard[d].baseline
    BY IncidentTotal DEF Cur, Base, Dashboard, Panel, Dimensions
  <2>5. Gauges(e)[d] = IF e >= Fire[d] THEN Cur[d] ELSE Base[d]
    BY DEF Gauges, HasFired
  <2>6. Breaches(d, Gauges(e)[d]) <=> e >= Fire[d]
    BY <2>2, GaugeBreaches
  <2>. QED
    BY <2>2, <2>3, <2>4, <2>5, <2>6
<1>. QED
  BY <1>1, RulesInvariant, PTL

(***************************************************************************)
(* Markers.                                                                *)
(***************************************************************************)
\* While no two good scrapes were too far apart, every fire they have reached,
\* in the annotation window or past it, left its marker.
MarkersInv == ~late => \A d \in Dimensions : last >= Fire[d] => d \in seen

\* The annotation windows do not overlap, so a dimension in its window is the
\* one that is marked.
LEMMA MarkedInWindow ==
    ASSUME NEW e \in Nat, NEW d \in Dimensions, Fire[d] <= e,
           e < Fire[d] + MarkerWindow
    PROVE  d \in Marker(e)
<1>1. MarkerWindow \in Nat
  BY FireTimes, ReplayConstants
<1>2. ASSUME NEW a \in Dimensions, a \in Marked(e) PROVE Rank(d) <= Rank(a)
  <2>1. /\ Fire[a] \in Nat /\ Fire[d] \in Nat
        /\ Rank(a) < Rank(d) => Fire[a] + MarkerWindow < Fire[d]
        /\ Rank(a) \in 1..4 /\ Rank(d) \in 1..4
    BY FireOrdered
  <2>2. e < Fire[a] + MarkerWindow
    BY <1>2 DEF Marked
  <2>. QED
    BY <1>1, <2>1, <2>2
<1>. QED
  BY <1>2 DEF Marker, Marked

LEMMA InitMarkers == Init => MarkersInv
<1>1. \A d \in Dimensions : Fire[d] \in Nat /\ Fire[d] > 0
  BY FireOrdered
<1>. QED
  BY <1>1 DEF Init, MarkersInv

LEMMA NextMarkers == TypeOK /\ MarkersInv /\ [Next]_vars => MarkersInv'
<1> SUFFICES ASSUME TypeOK, MarkersInv, [Next]_vars PROVE MarkersInv'
  OBVIOUS
<1>1. CASE UNCHANGED <<late, last, seen>>
  BY <1>1 DEF MarkersInv
<1>2. ASSUME NEW t \in Threads, Answer(t), ~UNCHANGED <<late, last, seen>>
      PROVE  MarkersInv'
  <2> DEFINE e == held[t].e
  <2>1. /\ seen' = seen \union Marker(e) /\ last' = e
        /\ late' = (late \/ e - last > MarkerWindow)
    BY <1>2 DEF Answer
  <2>2. e \in Nat /\ last \in Nat /\ MarkerWindow \in Nat \ {0}
    BY FireTimes, ReplayConstants DEF TypeOK
  <2> HIDE DEF e
  <2> SUFFICES ASSUME ~late', NEW d \in Dimensions, e >= Fire[d]
               PROVE  d \in seen'
    BY <2>1 DEF MarkersInv
  <2>3. ~late /\ e - last <= MarkerWindow /\ Fire[d] \in Nat
    <3>1. ~late /\ ~(e - last > MarkerWindow)
      BY <2>1
    <3>2. Fire[d] \in Nat
      BY FireOrdered
    <3>. QED
      BY <2>2, <3>1, <3>2
  <2>4. CASE last >= Fire[d]
    BY <2>1, <2>3, <2>4 DEF MarkersInv
  <2>5. CASE last < Fire[d]
    <3>1. e < Fire[d] + MarkerWindow
      BY <2>2, <2>3, <2>5
    <3>. QED
      BY <2>1, <2>2, <3>1, MarkedInWindow
  <2>. QED
    BY <2>2, <2>3, <2>4, <2>5
<1>3. CASE Restart
  <2>1. \A d \in Dimensions : Fire[d] \in Nat /\ Fire[d] > 0
    BY FireOrdered
  <2>. QED
    BY <1>3, <2>1 DEF Restart, MarkersInv
<1>4. UNCHANGED <<late, last, seen>> \/ Restart \/ \E t \in Threads : Answer(t)
  BY DEF Next, Visit, Begin, Handle, ReadClock, LoadTotal, StoreTotal, ExportTotal,
         StartScrape,
         ScrapeFails, ScrapeTimesOut, Evaluate, Tick, vars, history
<1>. QED
  BY <1>1, <1>2, <1>3, <1>4

\* As long as no two good scrapes are more than the ten-second window apart,
\* every fire they have passed left its marker, whatever the scrape interval,
\* and with any number of other scrapes lost between them
\* (live_metrics_exposition).
THEOREM MarkersComplete == Spec => []EveryFireMarked
<1>1. TypeOK /\ MarkersInv => EveryFireMarked
  <2> SUFFICES ASSUME TypeOK, MarkersInv, ~late, NEW d \in Dimensions,
                      last >= Fire[d] + MarkerWindow
               PROVE  d \in seen
    BY DEF EveryFireMarked
  <2>1. last \in Nat /\ Fire[d] \in Nat /\ MarkerWindow \in Nat
    BY FireOrdered, FireTimes, ReplayConstants DEF TypeOK
  <2>2. last >= Fire[d]
    BY <2>1
  <2>. QED
    BY <2>2 DEF MarkersInv
<1>. QED
  BY <1>1, InitType, NextType, InitMarkers, NextMarkers, PTL DEF Spec

(***************************************************************************)
(* The running total.                                                      *)
(***************************************************************************)
\* The handlers that have yet to count their scrape
Uncounted == {t \in Threads : pc[t] \in {"clock", "load", "store"}}

\* What is counted, or about to be from a total loaded earlier, never exceeds
\* the calls made, each uncounted handler being one of them.
NeverTooMany == calls < MaxTotal =>
    /\ total + Cardinality(Uncounted) <= calls
    /\ \A t \in Threads : pc[t] = "store" =>
         held[t].total + Cardinality(Uncounted) <= calls

\* Without overlap one handler runs at a time, and the total is behind by it.
NeverTooFew == ~overlap =>
    /\ \A t, u \in Threads : Idle(t) \/ Idle(u) \/ t = u
    /\ \A t \in Threads : pc[t] \in {"clock", "load", "store"} =>
         calls = Least(total + 1, MaxTotal)
    /\ \A t \in Threads : pc[t] = "store" => held[t].total = total
    /\ Uncounted = {} => calls = total
    /\ \A t \in Threads : pc[t] = "answer" => held[t].total = calls

\* What a handler shows was counted when it looked.
ShownInv == \A t \in Threads : pc[t] = "answer" => held[t].total <= calls

TotalInv == NeverTooMany /\ NeverTooFew /\ ShownInv

LEMMA UncountedFinite ==
    IsFiniteSet(Uncounted) /\ Cardinality(Uncounted) \in Nat
<1>1. IsFiniteSet(Uncounted)
  BY FinitePool, FS_Subset DEF Uncounted
<1>. QED
  BY <1>1, FS_CardinalityType

LEMMA InitTotal == Init => TotalInv
<1> SUFFICES ASSUME Init PROVE TotalInv
  OBVIOUS
<1>1. Uncounted = {} /\ Cardinality({}) = 0
  BY FS_EmptySet DEF Init, Uncounted
<1>. QED
  BY <1>1 DEF Init, TotalInv, NeverTooMany, NeverTooFew, ShownInv, Idle

LEMMA BeginTotal ==
    ASSUME TypeOK, TotalInv, NEW t \in Threads, NEW who, Begin(t, who)
    PROVE  TotalInv'
<1> DEFINE n == Cardinality(Uncounted)
<1>1. /\ pc[t] = "idle" /\ pc' = [pc EXCEPT ![t] = "clock"]
      /\ calls' = Least(calls + 1, MaxTotal)
      /\ overlap' = (overlap \/ \E u \in Threads : ~Idle(u))
      /\ UNCHANGED <<total, held>>
  BY DEF Begin, Idle
<1>2. /\ n \in Nat /\ calls \in Nat /\ total \in Nat /\ MaxTotal \in Nat
      /\ calls <= MaxTotal
  BY UncountedFinite, ReplayConstants DEF TypeOK
<1>3. Uncounted' = Uncounted \union {t} /\ t \notin Uncounted
  BY <1>1 DEF TypeOK, Uncounted
<1>4. Cardinality(Uncounted') = n + 1
  BY <1>3, UncountedFinite, FS_AddElement
<1> HIDE DEF n
<1>5. NeverTooMany'
  <2> SUFFICES ASSUME calls' < MaxTotal
               PROVE  /\ total + (n + 1) <= calls'
                      /\ \A u \in Threads : pc'[u] = "store" =>
                           held[u].total + (n + 1) <= calls'
    BY <1>1, <1>4 DEF NeverTooMany
  <2>1. calls' = calls + 1 /\ calls < MaxTotal
    BY <1>1, <1>2 DEF Least
  <2>2. total + n <= calls
    BY <2>1 DEF TotalInv, NeverTooMany, n
  <2>3. ASSUME NEW u \in Threads, pc'[u] = "store"
        PROVE  held[u].total + (n + 1) <= calls'
    <3>1. pc[u] = "store"
      BY <1>1, <2>3 DEF TypeOK
    <3>2. held[u].total \in Nat /\ held[u].total + n <= calls
      BY <2>1, <3>1 DEF TypeOK, TotalInv, NeverTooMany, n
    <3>. QED
      BY <1>2, <2>1, <3>2
  <2>. QED
    BY <1>2, <2>1, <2>2, <2>3
<1>6. NeverTooFew'
  <2> SUFFICES ASSUME ~overlap' PROVE NeverTooFew'
    BY DEF NeverTooFew
  <2>1. ~overlap /\ \A u \in Threads : pc[u] = "idle"
    BY <1>1 DEF Idle
  <2>2. Uncounted = {}
    BY <2>1 DEF Uncounted
  <2>3. calls = total
    BY <2>1, <2>2 DEF TotalInv, NeverTooFew
  <2>4. \A u \in Threads : u # t => pc'[u] = "idle"
    BY <1>1, <2>1 DEF TypeOK
  <2>5. pc'[t] = "clock" /\ Uncounted' # {}
    BY <1>1, <1>3 DEF TypeOK
  <2>. QED
    BY <1>1, <2>3, <2>4, <2>5 DEF NeverTooFew, Idle
<1>7. ShownInv'
  <2>1. ASSUME NEW u \in Threads, pc'[u] = "answer" PROVE held[u].total <= calls'
    <3>1. pc[u] = "answer"
      BY <1>1, <2>1 DEF TypeOK
    <3>2. held[u].total \in 0..MaxTotal /\ held[u].total <= calls
      BY <3>1 DEF TypeOK, TotalInv, ShownInv
    <3>. QED
      BY <1>1, <1>2, <3>2 DEF Least
  <2>. QED
    BY <1>1, <2>1 DEF ShownInv
<1>. QED
  BY <1>5, <1>6, <1>7 DEF TotalInv

LEMMA NextTotal == TypeOK /\ TypeOK' /\ TotalInv /\ [Next]_vars => TotalInv'
<1> SUFFICES ASSUME TypeOK, TypeOK', TotalInv, [Next]_vars PROVE TotalInv'
  OBVIOUS
<1> DEFINE n == Cardinality(Uncounted)
<1>1. /\ n \in Nat /\ calls \in Nat /\ total \in Nat /\ MaxTotal \in Nat
      /\ calls <= MaxTotal /\ total <= MaxTotal
      /\ IsFiniteSet(Uncounted)
  BY UncountedFinite, ReplayConstants DEF TypeOK
<1>2. CASE UNCHANGED <<pc, calls, overlap, total, held>>
  BY <1>2 DEF TotalInv, NeverTooMany, NeverTooFew, ShownInv, Uncounted, Idle
<1>3. ASSUME NEW t \in Threads, ReadClock(t) PROVE TotalInv'
  <2>1. /\ pc[t] = "clock" /\ pc' = [pc EXCEPT ![t] = "load"]
        /\ held' = [held EXCEPT ![t].e = elapsed]
        /\ UNCHANGED <<total, calls, overlap>>
    BY <1>3 DEF ReadClock, history
  <2>2. Uncounted' = Uncounted
    BY <2>1 DEF TypeOK, Uncounted
  <2>3. \A u \in Threads : pc'[u] \in {"store", "answer"} =>
          pc'[u] = pc[u] /\ held'[u].total = held[u].total
    BY <2>1 DEF TypeOK
  <2>4. NeverTooMany'
    BY <2>1, <2>2, <2>3 DEF TotalInv, NeverTooMany
  <2>5. NeverTooFew'
    BY <2>1, <2>2, <2>3 DEF TypeOK, TotalInv, NeverTooFew, Idle
  <2>6. ShownInv'
    BY <2>1, <2>3 DEF TotalInv, ShownInv
  <2>. QED
    BY <2>4, <2>5, <2>6 DEF TotalInv
<1>4. ASSUME NEW t \in Threads, LoadTotal(t) PROVE TotalInv'
  <2>1. /\ pc[t] = "load" /\ pc' = [pc EXCEPT ![t] = "store"]
        /\ held' = [held EXCEPT ![t].total = total]
        /\ UNCHANGED <<total, calls, overlap>>
    BY <1>4 DEF LoadTotal, history
  <2>2. Uncounted' = Uncounted
    BY <2>1 DEF TypeOK, Uncounted
  <2>3. \A u \in Threads : pc'[u] \in {"store", "answer"} =>
          \/ u = t /\ pc'[u] = "store" /\ held'[u].total = total
          \/ pc'[u] = pc[u] /\ held'[u].total = held[u].total
    BY <2>1 DEF TypeOK
  <2>4. NeverTooMany'
    BY <2>1, <2>2, <2>3 DEF TotalInv, NeverTooMany
  <2>5. NeverTooFew'
    BY <2>1, <2>2, <2>3 DEF TypeOK, TotalInv, NeverTooFew, Idle
  <2>6. ShownInv'
    BY <2>1, <2>3 DEF TotalInv, ShownInv
  <2>. QED
    BY <2>4, <2>5, <2>6 DEF TotalInv
<1>5. ASSUME NEW t \in Threads, StoreTotal(t) PROVE TotalInv'
  <2>1. /\ pc[t] = "store" /\ pc' = [pc EXCEPT ![t] = "export"]
        /\ total' = Least(held[t].total + 1, MaxTotal)
        /\ UNCHANGED <<held, calls, overlap>>
    BY <1>5 DEF StoreTotal, history
  <2>2. Uncounted' = Uncounted \ {t} /\ t \in Uncounted
    BY <2>1 DEF TypeOK, Uncounted
  <2>3. Cardinality(Uncounted') = n - 1
    BY <1>1, <2>2, FS_RemoveElement
  <2>4. held[t].total \in Nat
    BY DEF TypeOK
  <2> HIDE DEF n
  <2>5. NeverTooMany'
    <3> SUFFICES ASSUME calls < MaxTotal
                 PROVE  /\ total' + (n - 1) <= calls
                        /\ \A u \in Threads : pc'[u] = "store" =>
                             held[u].total + (n - 1) <= calls
      BY <2>1, <2>3 DEF NeverTooMany
    <3>1. held[t].total + n <= calls
      BY <2>1 DEF TotalInv, NeverTooMany, n
    <3>2. total' <= held[t].total + 1 /\ total' \in Nat
      BY <1>1, <2>1, <2>4 DEF Least
    <3>3. ASSUME NEW u \in Threads, pc'[u] = "store"
          PROVE  held[u].total + (n - 1) <= calls
      <4>1. held[u].total \in Nat /\ held[u].total + n <= calls
        BY <2>1, <3>3 DEF TypeOK, TotalInv, NeverTooMany, n
      <4>. QED
        BY <1>1, <4>1
    <3>. QED
      BY <1>1, <2>4, <3>1, <3>2, <3>3
  <2>6. NeverTooFew'
    <3> SUFFICES ASSUME ~overlap PROVE NeverTooFew'
      BY <2>1 DEF NeverTooFew
    <3>1. \A u \in Threads : u # t => pc[u] = "idle"
      BY <2>1 DEF TotalInv, NeverTooFew, Idle
    <3>2. \A u \in Threads : u # t => pc'[u] = "idle"
      BY <2>1, <3>1 DEF TypeOK
    <3>3. pc'[t] = "export"
      BY <2>1 DEF TypeOK
    <3>4. calls' = total'
      BY <2>1 DEF TotalInv, NeverTooFew
    <3>. QED
      BY <3>2, <3>3, <3>4 DEF NeverTooFew, Idle
  <2>7. ShownInv'
    BY <2>1 DEF TypeOK, TotalInv, ShownInv
  <2>. QED
    BY <2>5, <2>6, <2>7 DEF TotalInv
<1>10. ASSUME NEW t \in Threads, ExportTotal(t) PROVE TotalInv'
  <2>1. /\ pc[t] = "export" /\ pc' = [pc EXCEPT ![t] = "answer"]
        /\ held' = [held EXCEPT ![t].total = total]
        /\ UNCHANGED <<total, calls, overlap>>
    BY <1>10 DEF ExportTotal, history
  <2>2. Uncounted' = Uncounted
    BY <2>1 DEF TypeOK, Uncounted
  <2>3. \A u \in Threads : pc'[u] \in {"store", "answer"} =>
          \/ u = t /\ pc'[u] = "answer" /\ held'[u].total = total
          \/ pc'[u] = pc[u] /\ held'[u].total = held[u].total
    BY <2>1 DEF TypeOK
  <2>4. NeverTooMany'
    BY <2>1, <2>2, <2>3 DEF TotalInv, NeverTooMany
  <2>5. NeverTooFew'
    <3> SUFFICES ASSUME ~overlap PROVE NeverTooFew'
      BY <2>1 DEF NeverTooFew
    <3>1. \A u \in Threads : u # t => pc[u] = "idle"
      BY <2>1 DEF TotalInv, NeverTooFew, Idle
    <3>2. Uncounted = {}
      BY <2>1, <3>1 DEF Uncounted
    <3>3. calls = total
      BY <3>2 DEF TotalInv, NeverTooFew
    <3>4. \A u \in Threads : u # t => pc'[u] = "idle"
      BY <2>1, <3>1 DEF TypeOK
    <3>5. pc'[t] = "answer" /\ held'[t].total = total
      BY <2>1 DEF TypeOK
    <3>. QED
      BY <2>1, <3>3, <3>4, <3>5 DEF NeverTooFew, Idle
  <2>6. ShownInv'
    <3>1. total <= calls
      BY <1>1 DEF TotalInv, NeverTooMany
    <3>. QED
      BY <2>1, <2>3, <3>1 DEF TotalInv, ShownInv
  <2>. QED
    BY <2>4, <2>5, <2>6 DEF TotalInv
<1>6. ASSUME NEW t \in Threads, Answer(t) PROVE TotalInv'
  <2>1. /\ pc[t] = "answer" /\ pc' = [pc EXCEPT ![t] = "idle"]
        /\ held' = [held EXCEPT ![t] = NothingHeld]
        /\ UNCHANGED <<total, calls, overlap>>
    BY <1>6 DEF Answer
  <2>2. Uncounted' = Uncounted
    BY <2>1 DEF TypeOK, Uncounted
  <2>3. \A u \in Threads : pc'[u] \in {"store", "answer"} =>
          pc'[u] = pc[u] /\ held'[u].total = held[u].total
    BY <2>1 DEF TypeOK
  <2>4. NeverTooMany'
    BY <2>1, <2>2, <2>3 DEF TotalInv, NeverTooMany
  <2>5. NeverTooFew'
    BY <2>1, <2>2, <2>3 DEF TypeOK, TotalInv, NeverTooFew, Idle
  <2>6. ShownInv'
    BY <2>1, <2>3 DEF TotalInv, ShownInv
  <2>. QED
    BY <2>4, <2>5, <2>6 DEF TotalInv
<1>7. ASSUME NEW t \in Threads, NEW who, Begin(t, who) PROVE TotalInv'
  BY <1>7, BeginTotal
<1>8. CASE Restart
  <2>1. \A t \in Threads : pc'[t] = "idle"
    BY <1>8 DEF Restart
  <2>2. Uncounted' = {} /\ Cardinality({}) = 0
    BY <2>1, FS_EmptySet DEF Uncounted
  <2>3. calls' = 0 /\ total' = 0
    BY <1>8 DEF Restart
  <2>. QED
    BY <2>1, <2>2, <2>3 DEF TotalInv, NeverTooMany, NeverTooFew, ShownInv, Idle
<1>9. \/ UNCHANGED <<pc, calls, overlap, total, held>>
      \/ Restart
      \/ \E t \in Threads : \/ ReadClock(t) \/ LoadTotal(t) \/ StoreTotal(t)
                            \/ ExportTotal(t) \/ Answer(t) \/ \E who : Begin(t, who)
  BY DEF Next, Handle, Visit, StartScrape, ScrapeFails, ScrapeTimesOut, Evaluate,
         Tick, vars, service, history
<1>. QED
  BY <1>2, <1>3, <1>4, <1>5, <1>6, <1>7, <1>8, <1>9, <1>10

\* However the scrapes and visits interleave, neither the running total nor what
\* a scrape shows counts one that was not made; while none overlap every one is
\* counted, and each scrape shows how many there were, itself included
\* (live_metrics_exposition and _REQ_TOTAL).
THEOREM TotalHonest == Spec => []TotalCountsScrapes
<1>1. TypeOK /\ TotalInv => TotalCountsScrapes
  <2> SUFFICES ASSUME TypeOK, TotalInv PROVE TotalCountsScrapes
    OBVIOUS
  <2>1. total <= calls
    <3>1. /\ total \in Nat /\ calls \in Nat /\ total <= MaxTotal
          /\ calls <= MaxTotal /\ MaxTotal \in Nat
          /\ Cardinality(Uncounted) \in Nat
      BY UncountedFinite, ReplayConstants DEF TypeOK
    <3>. QED
      BY <3>1 DEF TotalInv, NeverTooMany
  <2>2. (\A t \in Threads : Idle(t)) => Uncounted = {}
    BY DEF Uncounted, Idle
  <2>. QED
    BY <2>1, <2>2 DEF TotalInv, NeverTooFew, ShownInv, TotalCountsScrapes
<1>. QED
  BY <1>1, InitType, NextType, InitTotal, NextTotal, PTL DEF Spec
============================================================================
