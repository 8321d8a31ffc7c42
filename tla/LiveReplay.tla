----------------------------- MODULE LiveReplay -----------------------------
(***************************************************************************)
(* The live incident replay: GET /live-metrics of app/main.py, served by   *)
(* live_metrics_exposition of app/observability/observe.py from the clock  *)
(* of the process, and the Prometheus that scrapes it and evaluates the    *)
(* rules of observability/alerts.yml.                                      *)
(*                                                                         *)
(* Time passes in ticks.  A handler runs on a thread of the pool; each     *)
(* read or write of the module's _REQ_TOTAL is a step.  Prometheus never   *)
(* lets a scrape or an evaluation slip past its interval.                  *)
(***************************************************************************)
EXTENDS Incident, FiniteSets

CONSTANTS
    Threads,        \* threads of the pool
    TicksPer10s,    \* the unit of time
    ScrapeInterval, \* scrape_interval = evaluation_interval, in ticks
    ScrapeOffset,   \* ticks from an evaluation to the next scrape
    HoldFor,        \* "for" of the alert rules, in ticks
    MaxTime,        \* bound: the clock stops there
    MaxTotal,       \* bound: scrapes counted
    MaxRestarts,    \* bound: restarts of the process
    MaxLost         \* bound: scrapes that fail, ticks that a scrape outlasts

ASSUME ReplayConstants ==
    /\ TicksPer10s \in Nat \ {0} /\ ScrapeInterval \in Nat \ {0}
    /\ ScrapeOffset \in 0..ScrapeInterval
    /\ HoldFor \in Nat \ {0}
    /\ MaxTime \in Nat /\ MaxTotal \in Nat
    /\ MaxRestarts \in Nat /\ MaxLost \in Nat

\* The pool has a fixed number of threads.
ASSUME FinitePool == IsFiniteSet(Threads)

VARIABLES
    elapsed,    \* incident_elapsed()
    total,      \* _REQ_TOTAL, in scrapes
    pc,         \* where each thread is in live_metrics_exposition
    held,       \* its locals: the clock and the total it read
    client,     \* who waits for its answer
    due,        \* ticks since Prometheus began its last scrape
    evalDue,    \* ticks since Prometheus last evaluated the rules
    sample,     \* the series of the last scrape
    age,        \* ticks since each rule became true, Inactive if it is not
    firing,     \* the alerts that fire
    seen,       \* history: the markers scraped since the process started
    last,       \* history: elapsed of the last good scrape since then
    late,       \* history: two good scrapes were too far apart for a marker
    calls,      \* history: exposition calls since the process started
    overlap,    \* history: two of them ran at once
    restarts,
    lost

service    == <<elapsed, total, pc, held, client>>
prometheus == <<due, evalDue, sample, age, firing>>
history    == <<seen, last, late, calls, overlap, restarts, lost>>
vars       == <<service, prometheus, history>>

----------------------------------------------------------------------------
Least(a, b) == IF a < b THEN a ELSE b

Ticks(seconds) == (seconds * TicksPer10s) \div 10

Fire == [latency |-> Ticks(30), quota |-> Ticks(70), cost |-> Ticks(120),
         quality |-> Ticks(160)]

MarkerWindow == Ticks(10)

\* _LAT_*, _QUOTA_*, _COST_* and _QUAL_*: baseline and breach value
Base == [latency |-> 950, quota |-> 55, cost |-> 120, quality |-> 92]
Cur  == [latency |-> 3750, quota |-> 98, cost |-> 185, quality |-> 68]

HasFired_QuotaLast(d, e) == e >= Fire[IF d = "quota" THEN "quality" ELSE d]

HasFired(d, e) == e >= Fire[d]

Gauges(e) == [d \in Dimensions |-> IF HasFired(d, e) THEN Cur[d] ELSE Base[d]]

Marked_Open(e) == {d \in Dimensions : Fire[d] < e /\ e < Fire[d] + MarkerWindow}

\* The dimensions whose annotation window is open; the code takes the first
Marked(e) == {d \in Dimensions : Fire[d] <= e /\ e < Fire[d] + MarkerWindow}

Marker(e) == {d \in Marked(e) : \A other \in Marked(e) : Rank(d) <= Rank(other)}

Exposition(e) == [e |-> e, gauges |-> Gauges(e), marker |-> Marker(e)]

NoSample == [e |-> -1]
Inactive == -1
NothingHeld == [e |-> 0, total |-> 0]

Idle(t) == pc[t] = "idle"

Init ==
    /\ elapsed = 0 /\ total = 0
    /\ pc = [t \in Threads |-> "idle"]
    /\ held = [t \in Threads |-> NothingHeld]
    /\ client = [t \in Threads |-> "none"]
    /\ due = ScrapeInterval - ScrapeOffset /\ evalDue = ScrapeInterval
    /\ sample = NoSample
    /\ age = [d \in Dimensions |-> Inactive]
    /\ firing = {}
    /\ seen = {} /\ last = 0 /\ late = FALSE
    /\ calls = 0 /\ overlap = FALSE
    /\ restarts = 0 /\ lost = 0

----------------------------------------------------------------------------
(***************************************************************************)
(* live_metrics_exposition on thread t.                                    *)
(***************************************************************************)
Begin_Anonymous(t, who) ==
    /\ Idle(t)
    /\ pc' = [pc EXCEPT ![t] = "clock"]
    /\ calls' = Least(calls + 1, MaxTotal)
    /\ overlap' = (overlap \/ \E u \in Threads : ~Idle(u))
    /\ UNCHANGED <<elapsed, total, held, client>>

Begin(t, who) ==
    /\ Idle(t)
    /\ pc' = [pc EXCEPT ![t] = "clock"]
    /\ client' = [client EXCEPT ![t] = who]
    /\ calls' = Least(calls + 1, MaxTotal)
    /\ overlap' = (overlap \/ \E u \in Threads : ~Idle(u))
    /\ UNCHANGED <<elapsed, total, held>>

\* Somebody else opens /live-metrics.
Visit(t) ==
    /\ calls < MaxTotal
    /\ Begin(t, "visitor")
    /\ UNCHANGED <<prometheus, seen, last, late, restarts, lost>>

ReadClock(t) ==
    /\ pc[t] = "clock"
    /\ pc' = [pc EXCEPT ![t] = "load"]
    /\ held' = [held EXCEPT ![t].e = elapsed]
    /\ UNCHANGED <<elapsed, total, client, prometheus, history>>

LoadTotal(t) ==
    /\ pc[t] = "load"
    /\ pc' = [pc EXCEPT ![t] = "store"]
    /\ held' = [held EXCEPT ![t].total = total]
    /\ UNCHANGED <<elapsed, total, client, prometheus, history>>

StoreTotal_Twice(t) ==
    /\ pc[t] = "store"
    /\ pc' = [pc EXCEPT ![t] = "export"]
    /\ total' = Least(held[t].total + 2, MaxTotal)
    /\ UNCHANGED <<elapsed, held, client, prometheus, history>>

StoreTotal(t) ==
    /\ pc[t] = "store"
    /\ pc' = [pc EXCEPT ![t] = "export"]
    /\ total' = Least(held[t].total + 1, MaxTotal)
    /\ UNCHANGED <<elapsed, held, client, prometheus, history>>

\* inc(_REQ_TOTAL): the counter shows what the total is by then.
ExportTotal(t) ==
    /\ pc[t] = "export"
    /\ pc' = [pc EXCEPT ![t] = "answer"]
    /\ held' = [held EXCEPT ![t].total = total]
    /\ UNCHANGED <<elapsed, total, client, prometheus, history>>

\* The text goes to whoever still waits for it.
Answer(t) ==
    LET e == held[t].e IN
    /\ pc[t] = "answer"
    /\ pc' = [pc EXCEPT ![t] = "idle"]
    /\ held' = [held EXCEPT ![t] = NothingHeld]
    /\ client' = [client EXCEPT ![t] = "none"]
    /\ \/ /\ client[t] = "prometheus"
          /\ sample' = Exposition(e)
          /\ seen' = seen \union Marker(e)
          /\ late' = (late \/ e - last > MarkerWindow)
          /\ last' = e
       \/ /\ client[t] # "prometheus"
          /\ UNCHANGED <<sample, seen, late, last>>
    /\ UNCHANGED <<elapsed, total, due, evalDue, age, firing, calls, overlap,
                   restarts, lost>>

Handle(t) ==
    \/ ReadClock(t) \/ LoadTotal(t) \/ StoreTotal(t) \/ ExportTotal(t)
    \/ Answer(t)

----------------------------------------------------------------------------
(***************************************************************************)
(* Prometheus.                                                             *)
(***************************************************************************)
Scraping == {t \in Threads : client[t] = "prometheus"}

StartScrape(t) ==
    /\ due = ScrapeInterval /\ Scraping = {}
    /\ Begin(t, "prometheus")
    /\ due' = 0
    /\ UNCHANGED <<evalDue, sample, age, firing, seen, last, late, restarts, lost>>

\* A scrape that cannot connect; its series are stale at once.
ScrapeFails ==
    /\ due = ScrapeInterval /\ Scraping = {}
    /\ lost < MaxLost
    /\ lost' = lost + 1
    /\ due' = 0 /\ sample' = NoSample
    /\ UNCHANGED <<service, evalDue, age, firing, seen, last, late, calls,
                   overlap, restarts>>

\* A scrape not answered within its interval; the handler runs on, unheard.
ScrapeTimesOut ==
    /\ due = ScrapeInterval
    /\ \E t \in Scraping : client' = [client EXCEPT ![t] = "gone"]
    /\ sample' = NoSample
    /\ UNCHANGED <<elapsed, total, pc, held, due, evalDue, age, firing, history>>

Holds(d) == sample # NoSample /\ Breaches(d, sample.gauges[d])

\* The rules of one group are evaluated together, at one time stamp.
Evaluate_Restamps ==
    /\ evalDue = ScrapeInterval
    /\ evalDue' = 0
    /\ age' = [d \in Dimensions |-> IF Holds(d) THEN 0 ELSE Inactive]
    /\ firing' = {d \in Dimensions : Holds(d) /\ age[d] >= HoldFor}
    /\ UNCHANGED <<service, due, sample, history>>

Evaluate ==
    /\ evalDue = ScrapeInterval
    /\ evalDue' = 0
    /\ age' = [d \in Dimensions |->
                 IF ~Holds(d) THEN Inactive
                 ELSE IF age[d] = Inactive THEN 0 ELSE age[d]]
    /\ firing' = {d \in Dimensions : Holds(d) /\ age[d] >= HoldFor}
    /\ UNCHANGED <<service, due, sample, history>>

----------------------------------------------------------------------------
\* A bound: only a scrape that Prometheus waits for is slow; a handler for
\* anybody else ends before the clock moves on.
Prompt == \A t \in Threads : client[t] \in {"none", "prometheus"}

Tick ==
    /\ Prompt
    /\ \/ Scraping = {} /\ UNCHANGED lost
       \/ Scraping # {} /\ lost < MaxLost /\ lost' = lost + 1
    /\ due < ScrapeInterval /\ evalDue < ScrapeInterval
    /\ elapsed' = Least(elapsed + 1, MaxTime)
    /\ due' = due + 1 /\ evalDue' = evalDue + 1
    /\ age' = [d \in Dimensions |->
                 IF age[d] = Inactive THEN Inactive ELSE Least(age[d] + 1, HoldFor)]
    /\ UNCHANGED <<total, pc, held, client, sample, firing, seen, last, late,
                   calls, overlap, restarts>>

\* The process restarts: clock and total begin again, handlers are gone, and
\* a scrape they were serving fails.  Prometheus keeps its rules.
Restart ==
    /\ restarts < MaxRestarts
    /\ restarts' = restarts + 1
    /\ elapsed' = 0 /\ total' = 0
    /\ pc' = [t \in Threads |-> "idle"]
    /\ held' = [t \in Threads |-> NothingHeld]
    /\ client' = [t \in Threads |-> "none"]
    /\ \/ Scraping = {} /\ UNCHANGED sample
       \/ Scraping # {} /\ sample' = NoSample
    /\ seen' = {} /\ last' = 0 /\ late' = FALSE
    /\ calls' = 0 /\ overlap' = FALSE
    /\ UNCHANGED <<due, evalDue, age, firing, lost>>

Next ==
    \/ \E t \in Threads : Visit(t) \/ Handle(t) \/ StartScrape(t)
    \/ ScrapeFails \/ ScrapeTimesOut \/ Evaluate
    \/ Tick \/ Restart

\* Time passes, started handlers run, and Prometheus keeps its timers.
\* Visits, restarts and lost scrapes are not fair: they may never happen.
Fairness ==
    /\ WF_vars(Tick) /\ WF_vars(Evaluate)
    /\ WF_vars(\E t \in Threads : StartScrape(t))
    /\ \A t \in Threads : WF_vars(Handle(t))

Spec == Init /\ [][Next]_vars /\ Fairness

----------------------------------------------------------------------------
\* The globals of the replay, its threads and the state of the rules.
TypeOK ==
    /\ elapsed \in 0..MaxTime
    /\ total \in 0..MaxTotal
    /\ pc \in [Threads -> {"idle", "clock", "load", "store", "export", "answer"}]
    /\ held \in [Threads -> [e : 0..MaxTime, total : 0..MaxTotal]]
    /\ client \in [Threads -> {"none", "prometheus", "visitor", "gone"}]
    /\ \A t \in Threads : Idle(t) <=> client[t] = "none"
    /\ due \in 0..ScrapeInterval /\ evalDue \in 0..ScrapeInterval
    /\ age \in [Dimensions -> Inactive..HoldFor]
    /\ firing \subseteq Dimensions /\ seen \subseteq Dimensions
    /\ last \in 0..MaxTime
    /\ calls \in 0..MaxTotal

\* The alerts "fire in the same order the incident timeline shows"
\* (alerts.yml): whatever scrapes are lost or late, and across restarts, an
\* alert fires only while every earlier one of the timeline fires too.
AlertsFireInOrder ==
    \A d \in firing, earlier \in Dimensions :
        Rank(earlier) < Rank(d) => earlier \in firing

\* "The Grafana annotation query drops a vertical marker exactly at each
\* fire": as long as no two good scrapes are more than the ten-second window
\* apart, one late or missing scrape included, every fire the scrapes have
\* passed left its marker.
EveryFireMarked == ~late =>
    \A d \in Dimensions : last >= Fire[d] + MarkerWindow => d \in seen

\* "Grafana and the terminal never disagree": a scraped gauge is the
\* dashboard's baseline before the alert timeline's moment and its current
\* value, on the wrong side of the objective, from then on.
GrafanaMatchesTerminal == sample # NoSample =>
    \A d \in Dimensions :
        LET v == sample.gauges[d]
            fired == sample.e >= Ticks(AlertAt[d])
        IN  /\ v = IF fired THEN Dashboard[d].current ELSE Dashboard[d].baseline
            /\ Breaches(d, v) <=> fired

\* The running total never counts a scrape that was not made, nor does a scrape
\* ever show more than were made.  As long as no two overlap, none is lost and
\* each shows exactly how many there were, itself included, so that the exported
\* counter only goes up; overlapping ones may be lost and may set it back.
TotalCountsScrapes ==
    /\ total <= calls
    /\ \A t \in Threads : pc[t] = "answer" => held[t].total <= calls
    /\ ~overlap =>
         /\ (\A t \in Threads : Idle(t)) => total = calls
         /\ \A t \in Threads : pc[t] = "answer" => held[t].total = calls

\* With finitely many restarts and lost scrapes the whole incident unfolds:
\* in the end all four alerts fire and stay.
AllFourFire == <>[](firing = Dimensions)
============================================================================
