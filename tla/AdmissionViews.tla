--------------------------- MODULE AdmissionViews ---------------------------
(***************************************************************************)
(* The GET handlers of app/main.py that read two stores of admission       *)
(* control one after the other: /resilience/queue, /resilience/dispositions*)
(* and /resilience/admission-logs.  Requests go on between the two reads.  *)
(* One reader is enough: a view changes nothing that another one reads.    *)
(***************************************************************************)
EXTENDS Admission

VARIABLE view       \* the reader: what it has read, then what it answers

viewVars == <<vars, view>>

NoView == [at |-> "none"]

ViewInit == Init /\ view = NoView

----------------------------------------------------------------------------
\* GET /resilience/queue: the depth, then the list of the queued ids
ReadQueueDepth(m) ==
    /\ view = NoView
    /\ view' = [at |-> "ids", model |-> m, depth |-> Len(queue[m])]
    /\ UNCHANGED vars

ReadQueueIds ==
    /\ view.at = "ids"
    /\ view' = LET capacity == QueueCapacity[view.model] IN
               [at |-> "queue", capacity |-> capacity,
                depth |-> view.depth, ids |-> queue[view.model],
                full |-> view.depth >= capacity /\ capacity > 0]
    /\ UNCHANGED vars

----------------------------------------------------------------------------
\* GET /resilience/dispositions: the counts, then at most two samples of each
\* fate.  The reader follows one fate and tells counts apart up to two.
UpToTwo(n) == IF n < 2 THEN n ELSE 2

ReadCounts(f) ==
    /\ view = NoView
    /\ view' = [at |-> "samples", fate |-> f, count |-> UpToTwo(Cardinality(Fated(f)))]
    /\ UNCHANGED vars

ReadSamples ==
    /\ view.at = "samples"
    /\ view' = [at |-> "dispositions", count |-> view.count,
                samples |-> UpToTwo(Cardinality(Fated(view.fate)))]
    /\ UNCHANGED vars

----------------------------------------------------------------------------
\* GET /resilience/admission-logs: the log, then the receipt of the id that is
\* given, else of the last rejected event, else of the last event
LastEvent(events) == events[Len(events)]

Target(given) ==
    LET rejected == SelectSeq(logs, LAMBDA e : e.disposition = "rejected") IN
    IF given # 0 THEN given
    ELSE IF rejected # <<>> THEN LastEvent(rejected).request_id
    ELSE IF logs # <<>> THEN LastEvent(logs).request_id
    ELSE 0

LogFates(id) == {logs[i].disposition : i \in {j \in 1..Len(logs) : logs[j].request_id = id}}

ReadLogs(given) ==
    LET id == Target(given) IN
    /\ view = NoView
    /\ view' = [at |-> IF id = 0 THEN "empty" ELSE "receipt", id |-> id,
                log |-> LogFates(id),
                told |-> {r.disposition : r \in {a \in replies : a.request_id = id}}]
    /\ UNCHANGED vars

ReadReceipt ==
    /\ view.at = "receipt"
    /\ view' = [at |-> "correlate", log |-> view.log, told |-> view.told,
                receipt |-> {r.disposition : r \in {x \in receipts : x.request_id = view.id}}]
    /\ UNCHANGED vars

----------------------------------------------------------------------------
View ==
    \/ \E m \in Models : ReadQueueDepth(m)
    \/ \E f \in Fates : ReadCounts(f)
    \/ \E given \in 0..nextId : ReadLogs(given)
    \/ ReadQueueIds \/ ReadSamples \/ ReadReceipt

\* A bound: the view's answer ends the behaviour.  What the service does with
\* no view open, the behaviours without one show.
Answered == view.at \in {"queue", "dispositions", "correlate", "empty"}

ViewNext == (Next /\ ~Answered /\ UNCHANGED view) \/ View

ViewSpec == ViewInit /\ [][ViewNext]_viewVars

----------------------------------------------------------------------------
\* A view read in two steps while requests race, handlers fail and the process
\* restarts never contradicts itself as long as nothing is reset.
\* The queue: no id twice, none missing that the depth counted, and "full" is
\* said only of a list at its capacity.  The dispositions: every fate that is
\* counted has its samples.  The correlation, "one request ID appears in the
\* caller response, the log, and the durable receipt": an event found in the
\* log has a receipt with its fate, and an id that a caller was answered with
\* is found, with the fate the caller was told.
ViewsConsistent == resets = 0 =>
    /\ view.at = "queue" =>
         /\ Len(view.ids) >= view.depth
         /\ \A i, j \in 1..Len(view.ids) : view.ids[i] = view.ids[j] => i = j
         /\ view.full => Len(view.ids) = view.capacity
    /\ view.at = "dispositions" => view.samples >= view.count
    /\ view.at = "correlate" =>
         /\ view.log # {} => view.receipt = view.log /\ Cardinality(view.log) = 1
         /\ view.told # {} => view.log = view.told
============================================================================
