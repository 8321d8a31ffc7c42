----------------------------- MODULE Migration -----------------------------
(***************************************************************************)
(* The deprecation route swap of app/lifecycle/migration.py.  The          *)
(* dictionary _MIG is shared by the threads of the pool with no lock:      *)
(* `deprecate` replaces its three entries in one update, which no other    *)
(* thread sees half done, while `complete` and `migration_receipt` read    *)
(* the entries one by one.                                                 *)
(*                                                                         *)
(* Each `deprecate` makes a new request list.  `lists` keeps all of them,  *)
(* numbered from 1 (the list of a fresh process), because a thread may     *)
(* still hold one that _MIG has dropped; the number of the latest list is  *)
(* therefore the number of swaps made, plus one.  A row's latency, cost,   *)
(* quality and contract are the same constants in every row, so an         *)
(* aggregate over a list only tells whether the list was empty.            *)
(***************************************************************************)
EXTENDS Naturals, Sequences

CONSTANTS
    Workers,    \* threads of the pool
    Models,     \* model names
    None,       \* Python's None
    Swaps,      \* the <<model, replacement>> pairs an operator may ask for
    MaxSwaps,   \* bound: deprecate calls
    MaxCalls    \* bound: completions and receipts

ASSUME MigrationConstants ==
    /\ None \notin Models
    /\ Swaps \subseteq Models \X Models
    /\ MaxSwaps \in Nat /\ MaxCalls \in Nat

VARIABLES
    mig,        \* _MIG
    lists,      \* every request list made, with the swap that made it
    pc,         \* where each worker is in its handler
    job,        \* the locals of a completion
    draft,      \* the locals of a receipt
    calls,      \* history: completions and receipts begun, which numbers them
    replies,    \* history: the answers of /v1/completions
    receipts    \* history: the answers of /receipts/migration

vars == <<mig, lists, pc, job, draft, calls, replies, receipts>>

Latest == Len(lists)

NoMigration == [deprecated |-> None, replacement |-> None, requests |-> 1]

NewList(model, replacement) ==
    [deprecated |-> model, replacement |-> replacement, rows |-> <<>>]

Row(j) == [call |-> j.call, since |-> j.since, requested |-> j.model, served |-> j.served]

WithRow(list, row) ==
    [deprecated |-> list.deprecated, replacement |-> list.replacement,
     rows |-> Append(list.rows, row)]

NoJob   == [call |-> 0, since |-> 0, model |-> None, served |-> None, list |-> 0]
NoDraft == [list |-> 0, before |-> 0, n |-> 0, contract |-> FALSE,
            quality |-> FALSE, migrated |-> FALSE, retiring |-> None]

\* What a fresh process holds
Fresh ==
    /\ mig = NoMigration
    /\ lists = << NewList(None, None) >>
    /\ pc = [w \in Workers |-> "idle"]
    /\ job = [w \in Workers |-> NoJob]
    /\ draft = [w \in Workers |-> NoDraft]
    /\ replies = {} /\ receipts = {}

Init == Fresh /\ calls = 0

----------------------------------------------------------------------------
(***************************************************************************)
(* deprecate                                                               *)
(***************************************************************************)
RouteSwap_KeepsReplacement(model, replacement) ==
    [deprecated |-> model, requests |-> Latest + 1,
     replacement |-> IF mig.replacement = None THEN replacement ELSE mig.replacement]

RouteSwap_KeepsRequests(model, replacement) ==
    [deprecated |-> model, replacement |-> replacement, requests |-> mig.requests]

\* The three entries of the update
RouteSwap(model, replacement) ==
    [deprecated |-> model, replacement |-> replacement, requests |-> Latest + 1]

Deprecate_Clears(model, replacement) ==
    /\ Latest <= MaxSwaps
    /\ lists' = [lists EXCEPT ![mig.requests] = NewList(model, replacement)]
    /\ mig' = RouteSwap_KeepsRequests(model, replacement)
    /\ UNCHANGED <<pc, job, draft, calls, replies, receipts>>

Deprecate(model, replacement) ==
    /\ Latest <= MaxSwaps
    /\ lists' = Append(lists, NewList(model, replacement))
    /\ mig' = RouteSwap(model, replacement)
    /\ UNCHANGED <<pc, job, draft, calls, replies, receipts>>

----------------------------------------------------------------------------
(***************************************************************************)
(* complete                                                                *)
(***************************************************************************)
Answer(w, migrated, served) ==
    /\ replies' = replies \union
           {[call |-> job[w].call, since |-> job[w].since, until |-> Latest,
             requested |-> job[w].model, served |-> served, migrated |-> migrated]}
    /\ pc' = [pc EXCEPT ![w] = "idle"]
    /\ job' = [job EXCEPT ![w] = NoJob]

Complete(w, model) ==
    /\ pc[w] = "idle" /\ calls < MaxCalls
    /\ calls' = calls + 1
    /\ job' = [job EXCEPT ![w] =
                  [call |-> calls + 1, since |-> Latest, model |-> model,
                   served |-> None, list |-> 0]]
    /\ pc' = [pc EXCEPT ![w] = "match"]
    /\ UNCHANGED <<mig, lists, draft, replies, receipts>>

\* model == _MIG["deprecated"]; a model that is not retired is served directly
Match(w) ==
    /\ pc[w] = "match"
    /\ \/ /\ job[w].model = mig.deprecated
          /\ pc' = [pc EXCEPT ![w] = "active"]
          /\ UNCHANGED <<job, replies>>
       \/ /\ job[w].model # mig.deprecated
          /\ Answer(w, FALSE, job[w].model)
    /\ UNCHANGED <<mig, lists, draft, calls, receipts>>

\* _MIG["replacement"] is not None
Active(w) ==
    /\ pc[w] = "active"
    /\ IF mig.replacement # None
       THEN /\ pc' = [pc EXCEPT ![w] = "serve"]
            /\ UNCHANGED <<job, replies>>
       ELSE Answer(w, FALSE, job[w].model)
    /\ UNCHANGED <<mig, lists, draft, calls, receipts>>

\* served = _MIG["replacement"], read again
Serve(w) ==
    /\ pc[w] = "serve"
    /\ job' = [job EXCEPT ![w].served = mig.replacement]
    /\ pc' = [pc EXCEPT ![w] = "load"]
    /\ UNCHANGED <<mig, lists, draft, calls, replies, receipts>>

\* _MIG["requests"], the list the row will be appended to
Load(w) ==
    /\ pc[w] = "load"
    /\ job' = [job EXCEPT ![w].list = mig.requests]
    /\ pc' = [pc EXCEPT ![w] = "append"]
    /\ UNCHANGED <<mig, lists, draft, calls, replies, receipts>>

AppendRow_OncePerModel(w) ==
    IF \E i \in 1..Len(lists[job[w].list].rows) :
          lists[job[w].list].rows[i].requested = job[w].model
    THEN UNCHANGED lists
    ELSE lists' = [lists EXCEPT ![job[w].list] = WithRow(@, Row(job[w]))]

\* _MIG["requests"].append of the list already loaded
AppendRow(w) ==
    lists' = [lists EXCEPT ![job[w].list] = WithRow(@, Row(job[w]))]

Record(w) ==
    /\ pc[w] = "append"
    /\ AppendRow(w)
    /\ Answer(w, TRUE, job[w].served)
    /\ UNCHANGED <<mig, draft, calls, receipts>>

----------------------------------------------------------------------------
(***************************************************************************)
(* migration_receipt                                                       *)
(***************************************************************************)
RowsOf(w) == lists[draft[w].list].rows

Receipt(w) ==
    /\ pc[w] = "idle" /\ calls < MaxCalls
    /\ calls' = calls + 1
    /\ draft' = [draft EXCEPT ![w] =
                    [list |-> mig.requests, before |-> Len(lists[mig.requests].rows),
                     n |-> 0, contract |-> FALSE, quality |-> FALSE,
                     migrated |-> FALSE, retiring |-> None]]
    /\ pc' = [pc EXCEPT ![w] = "count"]
    /\ UNCHANGED <<mig, lists, job, replies, receipts>>

\* n = len(reqs)
Count(w) ==
    /\ pc[w] = "count"
    /\ draft' = [draft EXCEPT ![w].n = Len(RowsOf(w))]
    /\ pc' = [pc EXCEPT ![w] = "contract"]
    /\ UNCHANGED <<mig, lists, job, calls, replies, receipts>>

\* contract = bool(reqs) and all(...)
Contract(w) ==
    /\ pc[w] = "contract"
    /\ draft' = [draft EXCEPT ![w].contract = RowsOf(w) # <<>>]
    /\ pc' = [pc EXCEPT ![w] = "measure"]
    /\ UNCHANGED <<mig, lists, job, calls, replies, receipts>>

\* p95, cost and quality: of an empty list the maxima are within their
\* ceilings and the minimum, 0, is below its floor
Measure(w) ==
    /\ pc[w] = "measure"
    /\ draft' = [draft EXCEPT ![w].quality = RowsOf(w) # <<>>]
    /\ pc' = [pc EXCEPT ![w] = "check"]
    /\ UNCHANGED <<mig, lists, job, calls, replies, receipts>>

\* MIGRATED when there are requests and every check passed
Check(w) ==
    /\ pc[w] = "check"
    /\ draft' = [draft EXCEPT ![w].migrated =
                    RowsOf(w) # <<>> /\ draft[w].contract /\ draft[w].quality]
    /\ pc' = [pc EXCEPT ![w] = "retiring"]
    /\ UNCHANGED <<mig, lists, job, calls, replies, receipts>>

Retiring(w) ==
    /\ pc[w] = "retiring"
    /\ draft' = [draft EXCEPT ![w].retiring = mig.deprecated]
    /\ pc' = [pc EXCEPT ![w] = "sign"]
    /\ UNCHANGED <<mig, lists, job, calls, replies, receipts>>

ReplacementNamed_Retired == mig.deprecated

\* The second half of the header
ReplacementNamed == mig.replacement

Sign(w) ==
    /\ pc[w] = "sign"
    /\ receipts' = receipts \union
           {[list |-> draft[w].list, before |-> draft[w].before, n |-> draft[w].n,
             migrated |-> draft[w].migrated, after |-> Len(RowsOf(w)),
             until |-> Latest, retiring |-> draft[w].retiring,
             replacing |-> ReplacementNamed]}
    /\ pc' = [pc EXCEPT ![w] = "idle"]
    /\ draft' = [draft EXCEPT ![w] = NoDraft]
    /\ UNCHANGED <<mig, lists, job, calls, replies>>

----------------------------------------------------------------------------
\* The process dies with everything it held; the calls made stay counted.
Restart ==
    /\ mig' = NoMigration
    /\ lists' = << NewList(None, None) >>
    /\ pc' = [w \in Workers |-> "idle"]
    /\ job' = [w \in Workers |-> NoJob]
    /\ draft' = [w \in Workers |-> NoDraft]
    /\ replies' = {} /\ receipts' = {}
    /\ UNCHANGED calls

CompleteStep(w) ==
    \/ \E m \in Models : Complete(w, m)
    \/ Match(w) \/ Active(w) \/ Serve(w) \/ Load(w) \/ Record(w)

ReceiptStep(w) ==
    \/ Receipt(w) \/ Count(w) \/ Contract(w) \/ Measure(w) \/ Check(w)
    \/ Retiring(w) \/ Sign(w)

Next ==
    \/ \E s \in Swaps : Deprecate(s[1], s[2])
    \/ \E w \in Workers : CompleteStep(w) \/ ReceiptStep(w)
    \/ Restart

\* A thread that has begun a handler runs it to its end.
Spec == Init /\ [][Next]_vars

----------------------------------------------------------------------------
(***************************************************************************)
(* Properties.                                                             *)
(***************************************************************************)
CompletePCs == {"match", "active", "serve", "load", "append"}
ReceiptPCs  == {"count", "contract", "measure", "check", "retiring", "sign"}

Names == Models \union {None}

RowType  == [call : Nat, since : Nat, requested : Models, served : Models]
ListType == [deprecated : Names, replacement : Names, rows : Seq(RowType)]

\* Every variable holds a value of its type.  Among them: the model served is
\* never None once the second read of _MIG["replacement"] is made, and _MIG
\* points at the latest list and at the swap that made it.
TypeOK ==
    /\ lists \in Seq(ListType) /\ lists # <<>>
    /\ mig = [deprecated |-> lists[Latest].deprecated,
              replacement |-> lists[Latest].replacement, requests |-> Latest]
    /\ pc \in [Workers -> {"idle"} \union CompletePCs \union ReceiptPCs]
    /\ job \in [Workers -> [call : Nat, since : Nat, model : Names,
                            served : Names, list : Nat]]
    /\ draft \in [Workers -> [list : Nat, before : Nat, n : Nat, contract : BOOLEAN,
                              quality : BOOLEAN, migrated : BOOLEAN, retiring : Names]]
    /\ calls \in Nat
    /\ replies \subseteq [call : Nat, since : Nat, until : Nat, requested : Models,
                          served : Models, migrated : BOOLEAN]
    /\ receipts \subseteq [list : Nat, before : Nat, n : Nat, migrated : BOOLEAN,
                           after : Nat, until : Nat, retiring : Names,
                           replacing : Names]

\* The rows of list l, by position
Places(l) == 1..Len(lists[l].rows)

\* A call has a row at place i of list l
RowAt(call, l, i) == lists[l].rows[i].call = call

\* A caller told that its request was migrated has exactly one row, in a list
\* that was current at some moment of its call, naming the model it was
\* served by; a caller served directly has none (migration.py:42-46).
MigratedIsRecordedOnce ==
    \A r \in replies :
        IF r.migrated
        THEN \E l \in r.since..r.until : \E i \in Places(l) :
                /\ lists[l].rows[i] = Row([call |-> r.call, since |-> r.since,
                                           model |-> r.requested, served |-> r.served])
                /\ \A m \in 1..Latest : \A j \in Places(m) :
                      RowAt(r.call, m, j) => m = l /\ j = i
        ELSE \A l \in 1..Latest : \A i \in Places(l) : ~RowAt(r.call, l, i)

\* The two names of a row come from swaps that were in force, in that order,
\* between the start of the call and the making of the list the row is in: a
\* row may mix two swaps, but never names a swap that was over, or not yet
\* made, for the whole of the call.  In particular a call that began under
\* the list's own swap has exactly that swap's names.
RowsNameSwapsInForce ==
    \A l \in 1..Latest : \A i \in Places(l) :
        LET row == lists[l].rows[i]
        IN  \E a \in row.since..l : \E b \in a..l :
                /\ row.requested = lists[a].deprecated
                /\ row.served = lists[b].replacement

\* The receipt reads the list first and the two names last, each on its own
\* (migration.py:51, 70-71): its header may be of a later swap than its count,
\* or mix two, but each name was in force at some moment of the receipt, the
\* retiring one no later than the replacement.  In particular a receipt that no
\* swap interrupts names the swap that opened the list it counts.
ReceiptNamesSwapsInForce ==
    \A r \in receipts :
        \E a \in r.list..r.until : \E b \in a..r.until :
            /\ r.retiring = lists[a].deprecated
            /\ r.replacing = lists[b].replacement

\* Whatever is recorded or swapped while it is built, a receipt that counts a
\* request says MIGRATED, one that says MIGRATED is of a list with requests,
\* and the count lies between the rows at its start and at its end.  A
\* list that does not grow meanwhile leaves no gap between the three: MIGRATED
\* then means at least one request.  (In general it does not: a first row
\* appended after the count makes a MIGRATED receipt of 0 requests.)
VerdictFollowsCount ==
    \A r \in receipts :
        /\ r.n > 0 => r.migrated
        /\ r.migrated => r.after > 0
        /\ r.before <= r.n /\ r.n <= r.after
=============================================================================
