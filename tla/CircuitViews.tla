----------------------------- MODULE CircuitViews -----------------------------
(***************************************************************************)
(* The GET handlers of app/main.py over the stores of the circuit drill,   *)
(* one read per step while drills, resets, failures and restarts go on:    *)
(* /resilience/circuit, /fallback, /retry-log and /failover-reconcile.     *)
(* One reader is enough: a view changes nothing that another one reads.    *)
(***************************************************************************)
EXTENDS CircuitDrill

VARIABLE view       \* the reader: what it has read, then what it answers

viewVars == <<vars, view>>

NoView == [at |-> "none"]

ViewInit == Init /\ view = NoView

\* Where the second read of each view happens
SecondReads == {"timeline", "counts", "retrylog", "ledger"}

\* Every view reads the summary first.  A view is quiet if no drill or reset
\* runs when it begins, none starts and nothing fails until it ends.
ReadSummary(second) ==
    /\ view = NoView
    /\ view' = [at |-> second, summary |-> summary,
                quiet |-> AllIdle, ops |-> ops, faults |-> faults]
    /\ UNCHANGED vars

Quiet == view.quiet /\ view.ops = ops /\ view.faults = faults

Answer(op, evidence) ==
    /\ view' = [at |-> op, summary |-> view.summary, quiet |-> Quiet,
                evidence |-> evidence]
    /\ UNCHANGED vars

\* GET /resilience/circuit, /resilience/fallback and /resilience/retry-log
ReadTimeline == view.at = "timeline" /\ Answer("circuit", timeline)
ReadCounts   == view.at = "counts"   /\ Answer("fallback", counts)
ReadRetrylog == view.at = "retrylog" /\ Answer("retry-log", retrylog)

\* GET /resilience/failover-reconcile: summary, ledger, retry log
ReadLedger ==
    /\ view.at = "ledger"
    /\ view' = [at |-> "verdict", summary |-> view.summary, quiet |-> view.quiet,
                ops |-> view.ops, faults |-> view.faults, rows |-> receipts]
    /\ UNCHANGED vars

Judge ==
    /\ view.at = "verdict"
    /\ Answer("reconcile",
              [verdict |-> Verdict(view.summary, view.rows, retrylog),
               rows |-> view.rows])

View ==
    \/ \E second \in SecondReads : ReadSummary(second)
    \/ ReadTimeline \/ ReadCounts \/ ReadRetrylog \/ ReadLedger \/ Judge

\* A bound: the view's answer ends the behaviour.  What the service does with
\* no view open, the behaviours without one show.
Answered == view.at \in {"circuit", "fallback", "retry-log", "reconcile"}

ViewNext == (Next /\ ~Answered /\ UNCHANGED view) \/ View

ViewSpec == ViewInit /\ [][ViewNext]_viewVars

----------------------------------------------------------------------------
\* "Confirmed only when the primary and fallback counts agree across all
\* three and the circuit recovered": though summary, ledger and retry log are
\* read one after the other while drills and resets run, CONFIRMED is only
\* said of a ledger that held, when it was read, every row of one drill.
ConfirmedIsOneDrill ==
    view.at = "reconcile" /\ view.evidence.verdict = "CONFIRMED" =>
        /\ {x.seq : x \in view.evidence.rows} = 1..Len(Script)
        /\ Cardinality({x.drill : x \in view.evidence.rows}) = 1

\* The attempts of a log, each with the position of its request
Tries(log) == UNION {{i} \X (1..log[i].primary_attempts) : i \in 1..Len(log)}

Attempts(log) == Cardinality(Tries(log))

\* A view that nothing disturbs and that finds a summary shows the evidence of
\* that run whole, whatever drills, resets and restarts died before: the tally
\* and the logs count what the summary says each role served, the attempts of
\* the retry log add up to the summary's, and the reconciliation confirms
\* exactly a run that recovered and has its ledger, which an admin reset that
\* died half-way has emptied.
QuietViewsAgree == Answered => (view.quiet /\ view.summary.set =>
    CASE view.at = "circuit" ->
            \A r \in Roles : LogCountOf(view.evidence, r) = view.summary.served[r]
      [] view.at = "fallback" -> view.evidence = view.summary.served
      [] view.at = "retry-log" ->
            /\ \A r \in Roles : LogCountOf(view.evidence, r) = view.summary.served[r]
            /\ Attempts(view.evidence) = view.summary.attempts
      [] view.at = "reconcile" ->
            view.evidence.verdict = "CONFIRMED" <=>
                view.summary.recovered /\ view.evidence.rows # {})
============================================================================
