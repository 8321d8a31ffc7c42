-------------------------- MODULE MigrationProofs --------------------------
(***************************************************************************)
(* Proofs about Migration, for every set of threads and models and every   *)
(* number of calls and swaps.                                              *)
(***************************************************************************)
EXTENDS Migration, SequenceTheorems, TLAPS

(***************************************************************************)
(* The inductive invariant.  Besides the properties: a completion under    *)
(* way remembers names that were in force since it began, its number is in *)
(* no row and no answer yet, and a receipt under way has only seen prefixes *)
(* of its list.                                                            *)
(***************************************************************************)
Completing(w) == pc[w] \in CompletePCs
Matched(w)    == pc[w] \in CompletePCs \ {"match"}
Served(w)     == pc[w] \in {"load", "append"}

\* Only the list of a fresh process has no models.
ListsNamed ==
    \A l \in 1..Latest : lists[l].deprecated \in Models =>
        \A m \in l..Latest : lists[m].replacement \in Models

JobInForce(w) ==
    /\ Completing(w) => /\ job[w].call \in 1..calls
                        /\ job[w].since \in 1..Latest
                        /\ job[w].model \in Models
    /\ Matched(w) => \E a \in job[w].since..Latest :
                        job[w].model = lists[a].deprecated
    /\ Served(w) =>
          /\ job[w].served \in Models
          /\ \E a \in job[w].since..Latest : \E b \in a..Latest :
                /\ job[w].model = lists[a].deprecated
                /\ job[w].served = lists[b].replacement
                /\ pc[w] = "append" => b <= job[w].list
    /\ pc[w] = "append" => job[w].list \in job[w].since..Latest

JobsInForce == \A w \in Workers : JobInForce(w)

RowsNumbered ==
    /\ \A l \in 1..Latest : \A i \in Places(l) :
          /\ lists[l].rows[i].call \in 1..calls
          /\ lists[l].rows[i].since \in 1..l
          /\ \A w \in Workers : Completing(w) => ~RowAt(job[w].call, l, i)
    /\ \A l, m \in 1..Latest : \A i \in Places(l) : \A j \in Places(m) :
          RowAt(lists[l].rows[i].call, m, j) => m = l /\ j = i

CallsApart ==
    /\ \A r \in replies : /\ r.call \in 1..calls
                          /\ r.since \in 1..Latest /\ r.until \in 1..Latest
                          /\ \A w \in Workers : Completing(w) => job[w].call # r.call
    /\ \A v, w \in Workers :
          Completing(v) /\ Completing(w) /\ job[v].call = job[w].call => v = w

DraftIsOld(w) ==
    LET d == draft[w]
        size == Len(lists[d.list].rows)
    IN  /\ d.list \in 1..Latest
        /\ d.before <= size
        /\ pc[w] # "count" => d.before <= d.n /\ d.n <= size
        /\ pc[w] \notin {"count", "contract"} =>
              /\ d.n > 0 => d.contract
              /\ d.contract => size > 0
        /\ pc[w] \in {"check", "retiring", "sign"} => (d.contract => d.quality)
        /\ pc[w] \in {"retiring", "sign"} =>
              /\ d.n > 0 => d.migrated
              /\ d.migrated => size > 0
        /\ pc[w] = "sign" =>
              \E a \in d.list..Latest : d.retiring = lists[a].deprecated

DraftsAreOld == \A w \in Workers : pc[w] \in ReceiptPCs => DraftIsOld(w)

ReceiptsListed == \A r \in receipts : r.list \in 1..Latest /\ r.until \in r.list..Latest

IInv ==
    /\ TypeOK /\ ListsNamed /\ JobsInForce
    /\ RowsNumbered /\ RowsNameSwapsInForce
    /\ CallsApart /\ MigratedIsRecordedOnce
    /\ DraftsAreOld /\ ReceiptsListed
    /\ ReceiptNamesSwapsInForce /\ VerdictFollowsCount

----------------------------------------------------------------------------
(***************************************************************************)
(* What a step may do to the lists: they are only added to.                *)
(***************************************************************************)
Grow ==
    /\ Latest' \in Nat /\ Latest' >= Latest
    /\ \A l \in 1..Latest :
          /\ lists'[l].deprecated = lists[l].deprecated
          /\ lists'[l].replacement = lists[l].replacement
          /\ Len(lists'[l].rows) >= Len(lists[l].rows)
          /\ \A i \in Places(l) : lists'[l].rows[i] = lists[l].rows[i]

LEMMA ListsTyped ==
    ASSUME TypeOK
    PROVE  /\ Latest \in Nat \ {0}
           /\ \A l \in 1..Latest : /\ lists[l] \in ListType
                                   /\ lists[l].rows \in Seq(RowType)
                                   /\ Len(lists[l].rows) \in Nat
                                   /\ lists[l].deprecated \in Names
                                   /\ lists[l].replacement \in Names
<1>1. lists \in Seq(ListType) /\ lists # <<>>
  BY DEF TypeOK
<1>2. Len(lists) \in Nat \ {0}
  BY <1>1
<1>3. \A l \in 1..Latest : lists[l] \in ListType
  BY <1>1 DEF Latest
<1>4. ASSUME NEW x \in ListType
      PROVE  /\ x.rows \in Seq(RowType) /\ Len(x.rows) \in Nat
             /\ x.deprecated \in Names /\ x.replacement \in Names
  <2>1. x.rows \in Seq(RowType) /\ x.deprecated \in Names /\ x.replacement \in Names
    BY DEF ListType
  <2>. QED
    BY <2>1
<1>. QED
  BY <1>2, <1>3, <1>4 DEF Latest

LEMMA SameListsGrow ==
    ASSUME TypeOK, UNCHANGED lists
    PROVE  Grow
BY ListsTyped DEF Grow, Latest, Places

\* A swap adds an empty list.
LEMMA SwapAppends ==
    ASSUME TypeOK, NEW s \in Swaps, Deprecate(s[1], s[2])
    PROVE  /\ s[1] \in Models /\ s[2] \in Models
           /\ Latest' = Latest + 1
           /\ \A l \in 1..Latest : lists'[l] = lists[l]
           /\ lists'[Latest'] = NewList(s[1], s[2])
           /\ lists' \in Seq(ListType)
           /\ Grow
<1>1. s[1] \in Models /\ s[2] \in Models
  BY MigrationConstants
<1>2. NewList(s[1], s[2]) \in ListType
  BY <1>1 DEF NewList, ListType, Names
<1>3. lists \in Seq(ListType)
  BY DEF TypeOK
<1>4. lists' = Append(lists, NewList(s[1], s[2]))
  BY DEF Deprecate
<1>5. /\ Len(lists') = Len(lists) + 1
      /\ \A l \in 1..Len(lists) : lists'[l] = lists[l]
      /\ lists'[Len(lists) + 1] = NewList(s[1], s[2])
      /\ lists' \in Seq(ListType)
  BY <1>2, <1>3, <1>4
<1>6. Grow
  BY <1>5, ListsTyped DEF Grow, Latest, Places
<1>. QED
  BY <1>1, <1>5, <1>6 DEF Latest

\* A record adds one row, at the end of the list the thread had loaded.
LEMMA RecordAppends ==
    ASSUME TypeOK, JobsInForce, NEW w \in Workers, Record(w)
    PROVE  LET k == job[w].list
               n == Len(lists[k].rows) + 1
           IN  /\ k \in 1..Latest
               /\ Latest' = Latest
               /\ \A l \in 1..Latest : l # k => lists'[l] = lists[l]
               /\ lists'[k].deprecated = lists[k].deprecated
               /\ lists'[k].replacement = lists[k].replacement
               /\ Len(lists'[k].rows) = n
               /\ \A i \in Places(k) : lists'[k].rows[i] = lists[k].rows[i]
               /\ lists'[k].rows[n] = Row(job[w])
               /\ lists' \in Seq(ListType)
               /\ Grow
<1> DEFINE k == job[w].list
           n == Len(lists[k].rows) + 1
           new == WithRow(lists[k], Row(job[w]))
<1>1. /\ k \in job[w].since..Latest
      /\ job[w].since \in 1..Latest
      /\ job[w].call \in 1..calls
      /\ job[w].model \in Models /\ job[w].served \in Models
  BY DEF Record, JobsInForce, JobInForce, Completing, Served, CompletePCs
<1>2. k \in 1..Latest
  BY <1>1, ListsTyped
<1>3. Row(job[w]) \in RowType
  BY <1>1, ListsTyped DEF Row, RowType, TypeOK
<1>4. lists[k].rows \in Seq(RowType)
  BY <1>2, ListsTyped
<1>5. /\ new.deprecated = lists[k].deprecated
      /\ new.replacement = lists[k].replacement
      /\ new.rows = Append(lists[k].rows, Row(job[w]))
  BY DEF WithRow
<1>6. /\ new.rows \in Seq(RowType)
      /\ Len(new.rows) = n
      /\ \A i \in Places(k) : new.rows[i] = lists[k].rows[i]
      /\ new.rows[n] = Row(job[w])
  <2>1. ASSUME NEW rows \in Seq(RowType), NEW row \in RowType
        PROVE  /\ Append(rows, row) \in Seq(RowType)
               /\ Len(Append(rows, row)) = Len(rows) + 1
               /\ \A i \in 1..Len(rows) : Append(rows, row)[i] = rows[i]
               /\ Append(rows, row)[Len(rows) + 1] = row
    OBVIOUS
  <2>2. /\ Append(lists[k].rows, Row(job[w])) \in Seq(RowType)
        /\ Len(Append(lists[k].rows, Row(job[w]))) = n
        /\ \A i \in Places(k) :
              Append(lists[k].rows, Row(job[w]))[i] = lists[k].rows[i]
        /\ Append(lists[k].rows, Row(job[w]))[n] = Row(job[w])
    BY <1>3, <1>4, <2>1, Zenon DEF Places
  <2> HIDE DEF new
  <2>. QED
    BY <1>5, <2>2
<1>7. new \in ListType
  BY <1>2, <1>6, ListsTyped DEF WithRow, ListType
<1>8. lists' = [lists EXCEPT ![k] = new]
  BY DEF Record, AppendRow
<1>9. lists \in Seq(ListType) /\ k \in 1..Len(lists)
  BY <1>2 DEF TypeOK, Latest
<1> HIDE DEF k, n, new
<1>10. /\ lists' \in Seq(ListType)
       /\ Len(lists') = Len(lists)
       /\ lists'[k] = new
       /\ \A l \in 1..Len(lists) : l # k => lists'[l] = lists[l]
  BY <1>7, <1>8, <1>9, ExceptSeq
<1>11. Grow
  <2>1. Latest' = Latest /\ Latest \in Nat
    BY <1>10, ListsTyped DEF Latest
  <2>2. ASSUME NEW l \in 1..Latest
        PROVE  /\ lists'[l].deprecated = lists[l].deprecated
               /\ lists'[l].replacement = lists[l].replacement
               /\ Len(lists'[l].rows) >= Len(lists[l].rows)
               /\ \A i \in Places(l) : lists'[l].rows[i] = lists[l].rows[i]
    <3>1. Len(lists[l].rows) \in Nat
      BY ListsTyped
    <3>2. CASE l = k
      <4>1. lists'[l] = new
        BY <1>10, <3>2
      <4>2. /\ lists'[l].deprecated = lists[l].deprecated
            /\ lists'[l].replacement = lists[l].replacement
        BY <1>5, <3>2, <4>1
      <4>3. Len(lists'[l].rows) = Len(lists[l].rows) + 1
        BY <1>6, <3>2, <4>1 DEF n
      <4>4. \A i \in Places(l) : lists'[l].rows[i] = lists[l].rows[i]
        BY <1>6, <3>2, <4>1
      <4>. QED
        BY <3>1, <4>2, <4>3, <4>4
    <3>3. CASE l # k
      <4>1. lists'[l] = lists[l]
        BY <1>10, <3>3 DEF Latest
      <4>. QED
        BY <3>1, <4>1
    <3>. QED
      BY <3>2, <3>3
  <2>. QED
    BY <2>1, <2>2 DEF Grow
<1>. QED
  BY <1>2, <1>5, <1>6, <1>10, <1>11 DEF Latest, k, n

----------------------------------------------------------------------------
(***************************************************************************)
(* A fresh process satisfies the invariant.                                *)
(***************************************************************************)
LEMMA FreshHolds == Fresh /\ calls \in Nat => IInv
<1> SUFFICES ASSUME Fresh, calls \in Nat
             PROVE  IInv
  OBVIOUS
<1>1. /\ Latest = 1 /\ lists[1] = NewList(None, None)
      /\ lists[1].rows = <<>> /\ lists[1].deprecated = None
      /\ lists[1].replacement = None
  BY DEF Fresh, NewList, Latest
<1>2. Places(1) = {}
  BY <1>1 DEF Places
<1>3. TypeOK
  <2>1. NewList(None, None) \in ListType
    BY DEF NewList, ListType, Names
  <2>2. lists \in Seq(ListType) /\ lists # <<>>
    BY <2>1 DEF Fresh
  <2>3. mig = [deprecated |-> lists[Latest].deprecated,
               replacement |-> lists[Latest].replacement, requests |-> Latest]
    BY <1>1 DEF Fresh, NoMigration
  <2>4. /\ job \in [Workers -> [call : Nat, since : Nat, model : Names,
                                served : Names, list : Nat]]
        /\ draft \in [Workers -> [list : Nat, before : Nat, n : Nat,
                                  contract : BOOLEAN, quality : BOOLEAN,
                                  migrated : BOOLEAN, retiring : Names]]
        /\ pc \in [Workers -> {"idle"} \union CompletePCs \union ReceiptPCs]
    BY DEF Fresh, NoJob, NoDraft, Names
  <2>. QED
    BY <2>2, <2>3, <2>4 DEF TypeOK, Fresh
<1>4. \A w \in Workers : pc[w] = "idle"
  BY DEF Fresh
<1>5. ListsNamed
  BY <1>1, MigrationConstants DEF ListsNamed
<1>6. JobsInForce /\ DraftsAreOld
  BY <1>4 DEF JobsInForce, JobInForce, DraftsAreOld, DraftIsOld, Completing, Matched, Served,
              CompletePCs, ReceiptPCs
<1>7. RowsNumbered /\ RowsNameSwapsInForce
  BY <1>1, <1>2 DEF RowsNumbered, RowsNameSwapsInForce
<1>8. CallsApart
  BY <1>4 DEF CallsApart, Completing, CompletePCs, Fresh
<1>9. /\ MigratedIsRecordedOnce /\ ReceiptsListed
      /\ ReceiptNamesSwapsInForce /\ VerdictFollowsCount
  BY DEF MigratedIsRecordedOnce, ReceiptsListed, ReceiptNamesSwapsInForce,
         VerdictFollowsCount, Fresh
<1>. QED
  BY <1>3, <1>5, <1>6, <1>7, <1>8, <1>9 DEF IInv

----------------------------------------------------------------------------
(***************************************************************************)
(* Types.                                                                  *)
(***************************************************************************)
LEMMA ModelsAreNamed ==
    ASSUME TypeOK, ListsNamed, JobsInForce, NEW w \in Workers, Matched(w)
    PROVE  mig.replacement \in Models
<1>1. PICK a \in job[w].since..Latest : job[w].model = lists[a].deprecated
  BY DEF JobsInForce, JobInForce
<1>2. job[w].model \in Models /\ job[w].since \in 1..Latest
  BY DEF JobsInForce, JobInForce, Matched, Completing
<1>3. a \in 1..Latest /\ Latest \in a..Latest
  BY <1>1, <1>2, ListsTyped
<1>4. lists[Latest].replacement \in Models
  BY <1>1, <1>2, <1>3 DEF ListsNamed
<1>. QED
  BY <1>4 DEF TypeOK

\* The entries of _MIG stay those of the latest list.
LEMMA SwapKept ==
    ASSUME TypeOK, Grow, Latest' = Latest, UNCHANGED mig
    PROVE  mig' = [deprecated |-> lists'[Latest'].deprecated,
                   replacement |-> lists'[Latest'].replacement,
                   requests |-> Latest']
<1>1. Latest \in 1..Latest
  BY ListsTyped
<1>2. /\ lists'[Latest].deprecated = lists[Latest].deprecated
      /\ lists'[Latest].replacement = lists[Latest].replacement
  BY <1>1 DEF Grow
<1>. QED
  BY <1>2 DEF TypeOK

LEMMA AnswerTyped ==
    ASSUME TypeOK, JobsInForce, NEW w \in Workers, Completing(w),
           NEW migrated \in BOOLEAN, NEW served \in Models,
           Answer(w, migrated, served)
    PROVE  /\ replies' \subseteq [call : Nat, since : Nat, until : Nat,
                                  requested : Models, served : Models,
                                  migrated : BOOLEAN]
           /\ pc' \in [Workers -> {"idle"} \union CompletePCs \union ReceiptPCs]
           /\ job' \in [Workers -> [call : Nat, since : Nat, model : Names,
                                    served : Names, list : Nat]]
<1>1. NoJob \in [call : Nat, since : Nat, model : Names, served : Names, list : Nat]
  BY DEF NoJob, Names
<1>2. /\ job[w].call \in Nat /\ job[w].since \in Nat /\ job[w].model \in Models
      /\ Latest \in Nat
  BY ListsTyped DEF JobsInForce, JobInForce, TypeOK
<1>. QED
  BY <1>1, <1>2 DEF TypeOK, Answer

LEMMA RestartIsFresh ==
    ASSUME TypeOK, Restart
    PROVE  IInv'
<1>1. (Fresh /\ calls \in Nat)'
  BY DEF Restart, Fresh, TypeOK
<1>. QED
  BY <1>1, FreshHolds, PTL

LEMMA TypeStep ==
    ASSUME IInv, Next, ~Restart
    PROVE  TypeOK' /\ Grow
<1> USE DEF IInv
<1>1. ASSUME NEW s \in Swaps, Deprecate(s[1], s[2])
      PROVE  TypeOK' /\ Grow
  <2>1. /\ Latest' = Latest + 1 /\ lists'[Latest'] = NewList(s[1], s[2])
        /\ lists' \in Seq(ListType) /\ Grow
    BY <1>1, SwapAppends
  <2>2. mig' = [deprecated |-> lists'[Latest'].deprecated,
                replacement |-> lists'[Latest'].replacement, requests |-> Latest']
    <3>1. mig' = [deprecated |-> s[1], replacement |-> s[2], requests |-> Latest']
      BY <1>1, <2>1 DEF Deprecate, RouteSwap
    <3>2. /\ lists'[Latest'].deprecated = s[1]
          /\ lists'[Latest'].replacement = s[2]
      BY <2>1 DEF NewList
    <3>. QED
      BY <3>1, <3>2
  <2>3. lists' # <<>>
    BY <2>1, ListsTyped DEF Latest
  <2>. QED
    BY <1>1, <2>1, <2>2, <2>3 DEF TypeOK, Deprecate
<1>2. ASSUME NEW w \in Workers, CompleteStep(w)
      PROVE  TypeOK' /\ Grow
  <2>1. ASSUME NEW m \in Models, Complete(w, m)
        PROVE  TypeOK' /\ Grow
    <3>1. job' \in [Workers -> [call : Nat, since : Nat, model : Names,
                                served : Names, list : Nat]]
      <4>1. \E j \in [call : Nat, since : Nat, model : Names,
                      served : Names, list : Nat] : job' = [job EXCEPT ![w] = j]
        <5>1. calls \in Nat /\ Latest \in Nat /\ m \in Names /\ None \in Names
          BY ListsTyped DEF TypeOK, Names
        <5> DEFINE j == [call |-> calls + 1, since |-> Latest, model |-> m,
                         served |-> None, list |-> 0]
        <5>2. j \in [call : Nat, since : Nat, model : Names, served : Names, list : Nat]
          BY <5>1
        <5>3. job' = [job EXCEPT ![w] = j]
          BY <2>1 DEF Complete
        <5> HIDE DEF j
        <5>. QED
          BY <5>2, <5>3
      <4>2. job \in [Workers -> [call : Nat, since : Nat, model : Names,
                                 served : Names, list : Nat]]
        BY DEF TypeOK
      <4>. QED
        BY <4>1, <4>2
    <3>2. pc' \in [Workers -> {"idle"} \union CompletePCs \union ReceiptPCs]
      BY <2>1 DEF TypeOK, Complete, CompletePCs
    <3>. QED
      BY <2>1, <3>1, <3>2, SameListsGrow, SwapKept DEF TypeOK, Complete, Latest
  <2>2. CASE Match(w)
    <3>1. CASE pc' = [pc EXCEPT ![w] = "active"] /\ UNCHANGED <<job, replies>>
      <4>1. pc' \in [Workers -> {"idle"} \union CompletePCs \union ReceiptPCs]
        BY <3>1 DEF TypeOK, CompletePCs
      <4>. QED
        BY <2>2, <3>1, <4>1, SameListsGrow DEF TypeOK, Match, Latest
    <3>2. CASE Answer(w, FALSE, job[w].model)
      <4>1. Completing(w) /\ job[w].model \in Models
        BY <2>2 DEF Match, Completing, CompletePCs, JobsInForce, JobInForce
      <4>. QED
        BY <2>2, <3>2, <4>1, AnswerTyped, SameListsGrow DEF TypeOK, Match, Latest
    <3>. QED
      BY <2>2, <3>1, <3>2 DEF Match
  <2>3. CASE Active(w)
    <3>1. mig.replacement \in Models
      BY <2>3, ModelsAreNamed DEF Active, Matched, CompletePCs
    <3>2. pc' = [pc EXCEPT ![w] = "serve"] /\ UNCHANGED <<job, replies>>
      BY <2>3, <3>1, MigrationConstants DEF Active
    <3>3. pc' \in [Workers -> {"idle"} \union CompletePCs \union ReceiptPCs]
      BY <3>2 DEF TypeOK, CompletePCs
    <3>. QED
      BY <2>3, <3>2, <3>3, SameListsGrow DEF TypeOK, Active, Latest
  <2>4. CASE Serve(w)
    <3>1. mig.replacement \in Models
      BY <2>4, ModelsAreNamed DEF Serve, Matched, CompletePCs
    <3>2. job' \in [Workers -> [call : Nat, since : Nat, model : Names,
                                served : Names, list : Nat]]
      <4>1. job' = [job EXCEPT ![w].served = mig.replacement]
        BY <2>4 DEF Serve
      <4>2. mig.replacement \in Names
        BY <3>1 DEF Names
      <4>3. job \in [Workers -> [call : Nat, since : Nat, model : Names,
                                 served : Names, list : Nat]]
        BY DEF TypeOK
      <4>. QED
        BY <4>1, <4>2, <4>3
    <3>3. pc' \in [Workers -> {"idle"} \union CompletePCs \union ReceiptPCs]
      BY <2>4 DEF TypeOK, Serve, CompletePCs
    <3>. QED
      BY <2>4, <3>2, <3>3, SameListsGrow DEF TypeOK, Serve, Latest
  <2>5. CASE Load(w)
    <3>1. mig.requests \in Nat
      BY ListsTyped DEF TypeOK
    <3>2. job' \in [Workers -> [call : Nat, since : Nat, model : Names,
                                served : Names, list : Nat]]
      <4>1. job' = [job EXCEPT ![w].list = mig.requests]
        BY <2>5 DEF Load
      <4>2. job \in [Workers -> [call : Nat, since : Nat, model : Names,
                                 served : Names, list : Nat]]
        BY DEF TypeOK
      <4>. QED
        BY <3>1, <4>1, <4>2
    <3>3. pc' \in [Workers -> {"idle"} \union CompletePCs \union ReceiptPCs]
      BY <2>5 DEF TypeOK, Load, CompletePCs
    <3>. QED
      BY <2>5, <3>2, <3>3, SameListsGrow DEF TypeOK, Load, Latest
  <2>6. CASE Record(w)
    <3>1. lists' \in Seq(ListType) /\ Latest' = Latest /\ Grow
      BY <2>6, RecordAppends
    <3>2. lists' # <<>>
      BY <3>1, ListsTyped DEF Latest
    <3>3. Completing(w) /\ job[w].served \in Models
      BY <2>6 DEF Record, Completing, Served, CompletePCs, JobsInForce, JobInForce
    <3>4. Answer(w, TRUE, job[w].served)
      BY <2>6 DEF Record
    <3>5. mig' = [deprecated |-> lists'[Latest'].deprecated,
                  replacement |-> lists'[Latest'].replacement, requests |-> Latest']
      BY <2>6, <3>1, SwapKept DEF Record
    <3>. QED
      BY <2>6, <3>1, <3>2, <3>3, <3>4, <3>5, AnswerTyped DEF TypeOK, Record
  <2>. QED
    BY <1>2, <2>1, <2>2, <2>3, <2>4, <2>5, <2>6 DEF CompleteStep
<1>3. ASSUME NEW w \in Workers, ReceiptStep(w)
      PROVE  TypeOK' /\ Grow
  <2> DEFINE DraftType == [list : Nat, before : Nat, n : Nat, contract : BOOLEAN,
                           quality : BOOLEAN, migrated : BOOLEAN, retiring : Names]
             ReceiptType == [list : Nat, before : Nat, n : Nat, migrated : BOOLEAN,
                             after : Nat, until : Nat, retiring : Names,
                             replacing : Names]
  <2>1. /\ UNCHANGED <<mig, lists, job, replies>>
        /\ calls' \in Nat
        /\ pc' \in [Workers -> {"idle"} \union CompletePCs \union ReceiptPCs]
    <3>1. \E at \in {"idle"} \union ReceiptPCs : pc' = [pc EXCEPT ![w] = at]
      BY <1>3 DEF ReceiptStep, Receipt, Count, Contract, Measure, Check,
                  Retiring, Sign, ReceiptPCs
    <3>2. /\ UNCHANGED <<mig, lists, job, replies>>
          /\ calls' = calls \/ calls' = calls + 1
      BY <1>3 DEF ReceiptStep, Receipt, Count, Contract, Measure, Check,
                  Retiring, Sign
    <3>. QED
      BY <3>1, <3>2 DEF TypeOK
  <2>2. /\ mig.requests \in 1..Latest
        /\ mig.deprecated \in Names /\ mig.replacement \in Names
        /\ Latest \in Nat
    <3>1. mig = [deprecated |-> lists[Latest].deprecated,
                 replacement |-> lists[Latest].replacement, requests |-> Latest]
      BY DEF TypeOK
    <3>2. Latest \in 1..Latest /\ Latest \in Nat
      BY ListsTyped
    <3>. QED
      BY <3>1, <3>2, ListsTyped
  <2>3. pc[w] \in ReceiptPCs => Len(RowsOf(w)) \in Nat
    BY ListsTyped DEF DraftsAreOld, DraftIsOld, RowsOf
  <2>4. draft' \in [Workers -> DraftType]
    <3>0. draft \in [Workers -> DraftType]
      BY DEF TypeOK
    <3>1. CASE Receipt(w)
      <4>1. Len(lists[mig.requests].rows) \in Nat
        BY <2>2, ListsTyped
      <4>2. None \in Names
        BY DEF Names
      <4>3. mig.requests \in Nat
        BY <2>2
      <4>. QED
        BY <3>0, <3>1, <4>1, <4>2, <4>3 DEF Receipt
    <3>2. CASE Count(w)
      BY <3>0, <3>2, <2>3 DEF Count, ReceiptPCs
    <3>3. CASE Contract(w)
      BY <3>0, <3>3 DEF Contract
    <3>4. CASE Measure(w)
      BY <3>0, <3>4 DEF Measure
    <3>5. CASE Check(w)
      BY <3>0, <3>5 DEF Check
    <3>6. CASE Retiring(w)
      BY <3>0, <3>6, <2>2 DEF Retiring
    <3>7. CASE Sign(w)
      <4>1. NoDraft \in DraftType
        BY DEF NoDraft, Names
      <4>. QED
        BY <3>0, <3>7, <4>1 DEF Sign
    <3>. QED
      BY <1>3, <3>1, <3>2, <3>3, <3>4, <3>5, <3>6, <3>7 DEF ReceiptStep
  <2>5. receipts' \subseteq ReceiptType
    <3>1. CASE Sign(w)
      <4>1. draft[w] \in DraftType
        BY DEF TypeOK
      <4>2. Len(RowsOf(w)) \in Nat /\ ReplacementNamed \in Names
        BY <3>1, <2>2, <2>3 DEF Sign, ReceiptPCs, ReplacementNamed
      <4>3. [list |-> draft[w].list, before |-> draft[w].before, n |-> draft[w].n,
             migrated |-> draft[w].migrated, after |-> Len(RowsOf(w)),
             until |-> Latest, retiring |-> draft[w].retiring,
             replacing |-> ReplacementNamed] \in ReceiptType
        BY <2>2, <4>1, <4>2
      <4>4. receipts \subseteq ReceiptType
        BY DEF TypeOK
      <4> HIDE DEF ReceiptType
      <4>. QED
        BY <3>1, <4>3, <4>4 DEF Sign
    <3>2. CASE ~Sign(w)
      <4>1. UNCHANGED receipts
        BY <1>3, <3>2 DEF ReceiptStep, Receipt, Count, Contract, Measure, Check,
                          Retiring
      <4>. QED
        BY <4>1 DEF TypeOK
    <3>. QED
      BY <3>1, <3>2
  <2>. QED
    BY <2>1, <2>4, <2>5, SameListsGrow DEF TypeOK, Latest
<1>. QED
  BY <1>1, <1>2, <1>3 DEF Next

----------------------------------------------------------------------------
(***************************************************************************)
(* Names and completions under way.                                        *)
(***************************************************************************)
LEMMA LatestMoves ==
    ASSUME IInv, Next, ~Restart
    PROVE  \/ Latest' = Latest
           \/ \E s \in Swaps : Deprecate(s[1], s[2])
<1>1. ASSUME NEW w \in Workers, CompleteStep(w)
      PROVE  Latest' = Latest
  BY <1>1, RecordAppends DEF CompleteStep, Complete, Match, Active, Serve, Load,
                             Latest, IInv
<1>2. ASSUME NEW w \in Workers, ReceiptStep(w)
      PROVE  Latest' = Latest
  BY <1>2 DEF ReceiptStep, Receipt, Count, Contract, Measure, Check, Retiring,
              Sign, Latest
<1>. QED
  BY <1>1, <1>2 DEF Next

LEMMA NamesStep ==
    ASSUME IInv, Next, ~Restart
    PROVE  ListsNamed'
<1>1. SUFFICES ASSUME NEW l \in 1..Latest', lists'[l].deprecated \in Models,
                      NEW m \in l..Latest'
               PROVE  lists'[m].replacement \in Models
  BY DEF ListsNamed
<1>2. Latest \in Nat /\ Latest' \in Nat /\ Grow
  BY TypeStep, ListsTyped DEF IInv, Grow
<1>3. CASE m \in 1..Latest
  <2>1. l \in 1..Latest /\ m \in l..Latest
    BY <1>2, <1>3
  <2>. QED
    BY <1>1, <1>2, <2>1 DEF IInv, ListsNamed, Grow
<1>4. CASE m \notin 1..Latest
  <2>1. m > Latest
    BY <1>2, <1>4
  <2>2. PICK s \in Swaps : Deprecate(s[1], s[2])
    BY <1>2, <2>1, LatestMoves
  <2>3. m = Latest' /\ lists'[Latest'].replacement \in Models
    <3>1. /\ s[2] \in Models /\ Latest' = Latest + 1
          /\ lists'[Latest'] = NewList(s[1], s[2])
      BY <2>2, SwapAppends DEF IInv
    <3>2. m = Latest'
      BY <1>2, <2>1, <3>1
    <3>. QED
      BY <3>1, <3>2 DEF NewList
  <2>. QED
    BY <2>3
<1>. QED
  BY <1>3, <1>4

\* A completion that does not move stays in force: lists are only added to.
LEMMA JobKept ==
    ASSUME TypeOK, Grow, NEW w \in Workers, JobInForce(w),
           pc'[w] = pc[w], job'[w] = job[w], calls' \in Nat, calls' >= calls
    PROVE  JobInForce(w)'
<1>1. Latest \in Nat /\ Latest' \in Nat /\ Latest' >= Latest /\ calls \in Nat
  BY ListsTyped DEF Grow, TypeOK
<1>2. Completing(w)' => /\ job'[w].call \in 1..calls'
                        /\ job'[w].since \in 1..Latest'
                        /\ job'[w].model \in Models
  BY <1>1 DEF JobInForce, Completing
<1>3. Matched(w) => Completing(w)
  BY DEF Matched, Completing
<1>4. Served(w) => Completing(w)
  BY DEF Served, Completing, CompletePCs
<1>5. ASSUME Matched(w)'
      PROVE  \E a \in job'[w].since..Latest' : job'[w].model = lists'[a].deprecated
  <2>1. PICK a \in job[w].since..Latest : job[w].model = lists[a].deprecated
    BY <1>5 DEF JobInForce, Matched
  <2>2. a \in 1..Latest /\ a \in job'[w].since..Latest'
    BY <1>1, <1>3, <1>5, <2>1 DEF JobInForce, Completing, Matched
  <2>. QED
    BY <2>1, <2>2 DEF Grow
<1>6. ASSUME Served(w)'
      PROVE  /\ job'[w].served \in Models
             /\ \E a \in job'[w].since..Latest' : \E b \in a..Latest' :
                   /\ job'[w].model = lists'[a].deprecated
                   /\ job'[w].served = lists'[b].replacement
                   /\ pc'[w] = "append" => b <= job'[w].list
  <2>0. Served(w) /\ Completing(w)
    BY <1>4, <1>6 DEF Served
  <2>1. PICK a \in job[w].since..Latest : \E b \in a..Latest :
            /\ job[w].model = lists[a].deprecated
            /\ job[w].served = lists[b].replacement
            /\ pc[w] = "append" => b <= job[w].list
    BY <2>0 DEF JobInForce
  <2>2. PICK b \in a..Latest :
            /\ job[w].model = lists[a].deprecated
            /\ job[w].served = lists[b].replacement
            /\ pc[w] = "append" => b <= job[w].list
    BY <2>1
  <2>3. job[w].since \in 1..Latest
    BY <2>0 DEF JobInForce
  <2>4. /\ a \in 1..Latest /\ a \in job'[w].since..Latest'
        /\ b \in 1..Latest /\ b \in a..Latest'
    BY <1>1, <2>1, <2>2, <2>3
  <2>5. /\ job'[w].model = lists'[a].deprecated
        /\ job'[w].served = lists'[b].replacement
        /\ pc'[w] = "append" => b <= job'[w].list
    BY <2>2, <2>4 DEF Grow
  <2>. QED
    BY <2>0, <2>4, <2>5 DEF JobInForce
<1>7. pc'[w] = "append" => job'[w].list \in job'[w].since..Latest'
  <2>1. pc[w] = "append" => Completing(w)
    BY DEF Completing, CompletePCs
  <2>. QED
    BY <1>1, <2>1 DEF JobInForce
<1>. QED
  BY <1>2, <1>5, <1>6, <1>7 DEF JobInForce

\* What a worker's step leaves of the other workers.
LEMMA OthersStand ==
    ASSUME TypeOK, NEW w \in Workers, NEW v \in Workers, v # w,
           CompleteStep(w) \/ ReceiptStep(w)
    PROVE  pc'[v] = pc[v] /\ job'[v] = job[v] /\ draft'[v] = draft[v]
<1>1. CASE CompleteStep(w)
  BY <1>1 DEF TypeOK, CompleteStep, Complete, Match, Active, Serve, Load, Record, Answer
<1>2. CASE ReceiptStep(w)
  BY <1>2 DEF TypeOK, ReceiptStep, Receipt, Count, Contract, Measure, Check,
              Retiring, Sign
<1>. QED
  BY <1>1, <1>2

LEMMA CallsGrow ==
    ASSUME IInv, Next, ~Restart
    PROVE  calls \in Nat /\ calls' \in Nat /\ calls' >= calls
<1>1. calls \in Nat
  BY DEF IInv, TypeOK
<1>2. calls' = calls \/ calls' = calls + 1
  BY DEF Next, Deprecate, CompleteStep, Complete, Match, Active, Serve, Load, Record,
         ReceiptStep, Receipt, Count, Contract, Measure, Check, Retiring, Sign
<1>. QED
  BY <1>1, <1>2

LEMMA JobsStep ==
    ASSUME IInv, Next, ~Restart
    PROVE  JobsInForce'
<1> USE DEF IInv
<1>0. /\ TypeOK' /\ Grow
      /\ calls \in Nat /\ calls' \in Nat /\ calls' >= calls
      /\ Latest \in Nat \ {0}
  BY TypeStep, CallsGrow, ListsTyped
<1>1. SUFFICES ASSUME NEW v \in Workers
               PROVE  JobInForce(v)'
  BY DEF JobsInForce
<1>2. JobInForce(v)
  BY DEF JobsInForce
<1>3. CASE pc'[v] = pc[v] /\ job'[v] = job[v]
  BY <1>0, <1>2, <1>3, JobKept
<1>4. CASE pc'[v] \notin CompletePCs
  BY <1>4 DEF JobInForce, Completing, Matched, Served, CompletePCs
<1>5. ASSUME NEW m \in Models, Complete(v, m)
      PROVE  JobInForce(v)'
  <2>1. /\ pc'[v] = "match" /\ calls' = calls + 1 /\ Latest' = Latest
        /\ job'[v].call = calls + 1 /\ job'[v].since = Latest /\ job'[v].model = m
    BY <1>5 DEF Complete, TypeOK, Latest
  <2>. QED
    BY <1>0, <2>1 DEF JobInForce, Completing, Matched, Served, CompletePCs
<1>6. CASE Match(v)
  <2>1. CASE pc' = [pc EXCEPT ![v] = "active"] /\ UNCHANGED <<job, replies>>
    <3>1. /\ pc[v] = "match" /\ pc'[v] = "active" /\ job'[v] = job[v]
          /\ calls' = calls /\ UNCHANGED lists /\ Latest' = Latest
      BY <1>6, <2>1 DEF Match, TypeOK, Latest
    <3>2. job[v].model = lists[Latest].deprecated
      <4>1. CASE job[v].model = mig.deprecated
        BY <4>1 DEF TypeOK
      <4>2. CASE job[v].model # mig.deprecated
        <5>1. Answer(v, FALSE, job[v].model)
          BY <1>6, <4>2 DEF Match
        <5>. QED
          BY <3>1, <5>1 DEF Answer, TypeOK
      <4>. QED
        BY <4>1, <4>2
    <3>3. Completing(v) /\ job[v].since \in 1..Latest
      BY <1>2, <3>1 DEF JobInForce, Completing, CompletePCs
    <3>4. Latest \in job[v].since..Latest
      BY <1>0, <3>3
    <3>. QED
      BY <1>2, <3>1, <3>2, <3>3, <3>4
      DEF JobInForce, Completing, Matched, Served
  <2>2. CASE Answer(v, FALSE, job[v].model)
    BY <1>4, <2>2 DEF Answer, TypeOK, CompletePCs
  <2>. QED
    BY <1>6, <2>1, <2>2 DEF Match
<1>7. CASE Active(v)
  <2>1. CASE pc' = [pc EXCEPT ![v] = "serve"] /\ UNCHANGED <<job, replies>>
    <3>1. /\ pc[v] = "active" /\ pc'[v] = "serve" /\ job'[v] = job[v]
          /\ calls' = calls /\ UNCHANGED lists /\ Latest' = Latest
      BY <1>7, <2>1 DEF Active, TypeOK, Latest
    <3>. QED
      BY <1>2, <3>1 DEF JobInForce, Completing, Matched, Served, CompletePCs
  <2>2. CASE Answer(v, FALSE, job[v].model)
    BY <1>4, <2>2 DEF Answer, TypeOK, CompletePCs
  <2>. QED
    BY <1>7, <2>1, <2>2 DEF Active
<1>8. CASE Serve(v)
  <2>1. /\ pc[v] = "serve" /\ pc'[v] = "load" /\ calls' = calls
        /\ UNCHANGED lists /\ Latest' = Latest
        /\ job'[v].call = job[v].call /\ job'[v].since = job[v].since
        /\ job'[v].model = job[v].model
        /\ job'[v].served = lists[Latest].replacement
    BY <1>8 DEF Serve, TypeOK, Latest
  <2>2. Matched(v) /\ Completing(v)
    BY <2>1 DEF Matched, Completing, CompletePCs
  <2>3. job'[v].served \in Models
    BY <2>1, <2>2, ModelsAreNamed DEF TypeOK
  <2>4. PICK a \in job[v].since..Latest : job[v].model = lists[a].deprecated
    BY <1>2, <2>2 DEF JobInForce
  <2>5. a \in 1..Latest /\ Latest \in a..Latest
    BY <1>0, <1>2, <2>2, <2>4 DEF JobInForce
  <2>6. \E x \in job'[v].since..Latest' : \E b \in x..Latest' :
           /\ job'[v].model = lists'[x].deprecated
           /\ job'[v].served = lists'[b].replacement
           /\ pc'[v] = "append" => b <= job'[v].list
    BY <2>1, <2>4, <2>5
  <2>7. \E x \in job'[v].since..Latest' : job'[v].model = lists'[x].deprecated
    BY <2>1, <2>4
  <2>. QED
    BY <1>2, <2>1, <2>2, <2>3, <2>6, <2>7 DEF JobInForce, Completing
<1>9. CASE Load(v)
  <2>1. /\ pc[v] = "load" /\ pc'[v] = "append" /\ calls' = calls
        /\ UNCHANGED lists /\ Latest' = Latest
        /\ job'[v].call = job[v].call /\ job'[v].since = job[v].since
        /\ job'[v].model = job[v].model /\ job'[v].served = job[v].served
        /\ job'[v].list = Latest
    BY <1>9 DEF Load, TypeOK, Latest
  <2>2. Matched(v) /\ Completing(v) /\ Served(v)
    BY <2>1 DEF Matched, Completing, Served, CompletePCs
  <2>3. PICK a \in job[v].since..Latest : \E b \in a..Latest :
           /\ job[v].model = lists[a].deprecated
           /\ job[v].served = lists[b].replacement
           /\ pc[v] = "append" => b <= job[v].list
    BY <1>2, <2>2 DEF JobInForce
  <2>4. PICK b \in a..Latest : /\ job[v].model = lists[a].deprecated
                               /\ job[v].served = lists[b].replacement
    BY <2>3
  <2>5. b <= job'[v].list /\ job'[v].list \in job'[v].since..Latest'
    BY <1>0, <1>2, <2>1, <2>2, <2>4 DEF JobInForce
  <2>6. \E x \in job'[v].since..Latest' : \E y \in x..Latest' :
           /\ job'[v].model = lists'[x].deprecated
           /\ job'[v].served = lists'[y].replacement
           /\ pc'[v] = "append" => y <= job'[v].list
    BY <2>1, <2>3, <2>4, <2>5
  <2>7. \E x \in job'[v].since..Latest' : job'[v].model = lists'[x].deprecated
    BY <2>1, <2>3, <2>4
  <2>. QED
    BY <1>2, <2>1, <2>2, <2>5, <2>6, <2>7 DEF JobInForce, Completing
<1>10. CASE Record(v)
  BY <1>4, <1>10 DEF Record, Answer, TypeOK, CompletePCs
<1>11. CASE ReceiptStep(v)
  <2>1. pc'[v] \notin CompletePCs
    BY <1>11 DEF ReceiptStep, Receipt, Count, Contract, Measure, Check,
                 Retiring, Sign, TypeOK, CompletePCs
  <2>. QED
    BY <1>4, <2>1
<1>12. CASE CompleteStep(v)
  BY <1>5, <1>6, <1>7, <1>8, <1>9, <1>10, <1>12 DEF CompleteStep
<1>13. ASSUME NEW w \in Workers, CompleteStep(w) \/ ReceiptStep(w)
       PROVE  JobInForce(v)'
  <2>1. CASE w = v
    BY <1>11, <1>12, <1>13, <2>1
  <2>2. CASE w # v
    BY <1>3, <1>13, <2>2, OthersStand
  <2>. QED
    BY <2>1, <2>2
<1>14. ASSUME NEW s \in Swaps, Deprecate(s[1], s[2])
       PROVE  JobInForce(v)'
  BY <1>3, <1>14 DEF Deprecate
<1>. QED
  BY <1>13, <1>14 DEF Next

----------------------------------------------------------------------------
(***************************************************************************)
(* Rows, answers and the numbers of the calls.                             *)
(***************************************************************************)

\* A completion that records answers in the same step.
LEMMA RecordEnds ==
    ASSUME IInv, NEW w \in Workers, Record(w)
    PROVE  /\ Completing(w) /\ Served(w) /\ pc'[w] = "idle" /\ calls' = calls
           /\ job[w].call \in 1..calls
           /\ \A v \in Workers : Record(v) => v = w
BY DEF IInv, TypeOK, JobsInForce, JobInForce, Record, Answer, Completing, Served,
       CompletePCs

\* The rows of a new state: the old ones, and the one just recorded.
LEMMA RowsCome ==
    ASSUME IInv, Next, ~Restart, NEW l \in 1..Latest', NEW i \in Places(l)'
    PROVE  \/ /\ l \in 1..Latest /\ i \in Places(l)
              /\ lists'[l].rows[i] = lists[l].rows[i]
           \/ \E w \in Workers :
                 /\ Record(w) /\ l = job[w].list /\ l \in 1..Latest
                 /\ i = Len(lists[l].rows) + 1
                 /\ lists'[l].rows[i] = Row(job[w])
<1> USE DEF IInv
<1>1. ASSUME UNCHANGED lists
      PROVE  /\ l \in 1..Latest /\ i \in Places(l)
             /\ lists'[l].rows[i] = lists[l].rows[i]
  BY <1>1 DEF Latest, Places
<1>2. ASSUME NEW s \in Swaps, Deprecate(s[1], s[2])
      PROVE  /\ l \in 1..Latest /\ i \in Places(l)
             /\ lists'[l].rows[i] = lists[l].rows[i]
  <2>1. /\ Latest \in Nat /\ Latest' = Latest + 1
        /\ \A k \in 1..Latest : lists'[k] = lists[k]
        /\ lists'[Latest'] = NewList(s[1], s[2])
    BY <1>2, SwapAppends, ListsTyped
  <2>2. l # Latest'
    BY <2>1 DEF Places, NewList
  <2>3. l \in 1..Latest
    BY <2>1, <2>2
  <2>. QED
    BY <2>1, <2>3 DEF Places
<1>3. ASSUME NEW w \in Workers, Record(w)
      PROVE  \/ /\ l \in 1..Latest /\ i \in Places(l)
                /\ lists'[l].rows[i] = lists[l].rows[i]
             \/ /\ l = job[w].list /\ l \in 1..Latest
                /\ i = Len(lists[l].rows) + 1
                /\ lists'[l].rows[i] = Row(job[w])
  <2> DEFINE k == job[w].list
  <2>1. /\ k \in 1..Latest /\ Latest' = Latest
        /\ \A x \in 1..Latest : x # k => lists'[x] = lists[x]
        /\ Len(lists'[k].rows) = Len(lists[k].rows) + 1
        /\ \A j \in Places(k) : lists'[k].rows[j] = lists[k].rows[j]
        /\ lists'[k].rows[Len(lists[k].rows) + 1] = Row(job[w])
    BY <1>3, RecordAppends
  <2>2. l \in 1..Latest /\ Len(lists[k].rows) \in Nat
    BY <2>1, ListsTyped
  <2> HIDE DEF k
  <2>3. CASE l # k
    <3>1. lists'[l] = lists[l]
      BY <2>1, <2>2, <2>3
    <3>. QED
      BY <2>2, <3>1 DEF Places
  <2>4. CASE l = k
    <3>1. i \in 1..(Len(lists[k].rows) + 1)
      BY <2>1, <2>4 DEF Places
    <3>2. i \in Places(k) \/ i = Len(lists[k].rows) + 1
      BY <2>2, <3>1 DEF Places
    <3>. QED
      BY <2>1, <2>2, <2>4, <3>2 DEF k
  <2>. QED
    BY <2>3, <2>4
<1>4. ASSUME NEW w \in Workers, CompleteStep(w) \/ ReceiptStep(w)
      PROVE  UNCHANGED lists \/ Record(w)
  BY <1>4 DEF CompleteStep, Complete, Match, Active, Serve, Load, ReceiptStep,
              Receipt, Count, Contract, Measure, Check, Retiring, Sign
<1>. QED
  BY <1>1, <1>2, <1>3, <1>4 DEF Next

\* A completion under way either was, with the same number, or begins now.
LEMMA CallsCome ==
    ASSUME IInv, Next, ~Restart, NEW v \in Workers, Completing(v)'
    PROVE  \/ Completing(v) /\ job'[v].call = job[v].call
           \/ /\ job'[v].call = calls + 1 /\ calls' = calls + 1
              /\ UNCHANGED <<lists, replies>>
              /\ \A w \in Workers \ {v} : pc'[w] = pc[w] /\ job'[w] = job[w]
<1> USE DEF IInv
<1>1. ASSUME NEW m \in Models, Complete(v, m)
      PROVE  /\ job'[v].call = calls + 1 /\ calls' = calls + 1
             /\ UNCHANGED <<lists, replies>>
             /\ \A w \in Workers \ {v} : pc'[w] = pc[w] /\ job'[w] = job[w]
  BY <1>1 DEF Complete, TypeOK
<1>2. CASE Match(v) \/ Active(v) \/ Serve(v) \/ Load(v) \/ Record(v)
  <2>1. pc'[v] # "idle"
    BY DEF Completing, CompletePCs
  <2>2. job'[v].call = job[v].call
    BY <1>2, <2>1 DEF Match, Active, Serve, Load, Record, Answer, TypeOK
  <2>3. Completing(v)
    BY <1>2 DEF Match, Active, Serve, Load, Record, Completing, CompletePCs
  <2>. QED
    BY <2>2, <2>3
<1>3. CASE ReceiptStep(v)
  <2>1. pc'[v] \notin CompletePCs
    BY <1>3 DEF ReceiptStep, Receipt, Count, Contract, Measure, Check,
                Retiring, Sign, TypeOK, CompletePCs
  <2>. QED
    BY <2>1 DEF Completing
<1>4. CASE pc'[v] = pc[v] /\ job'[v] = job[v]
  BY <1>4 DEF Completing
<1>5. ASSUME NEW w \in Workers, CompleteStep(w) \/ ReceiptStep(w), w # v
      PROVE  pc'[v] = pc[v] /\ job'[v] = job[v]
  BY <1>5, OthersStand
<1>6. CASE \E s \in Swaps : Deprecate(s[1], s[2])
  BY <1>4, <1>6 DEF Deprecate
<1>. QED
  BY <1>1, <1>2, <1>3, <1>4, <1>5, <1>6 DEF Next, CompleteStep

LEMMA RowsStep ==
    ASSUME IInv, Next, ~Restart
    PROVE  RowsNumbered'
<1> USE DEF IInv
<1>0. /\ calls \in Nat /\ calls' \in Nat /\ calls' >= calls
      /\ \A w \in Workers : /\ Row(job[w]).call = job[w].call
                             /\ Row(job[w]).since = job[w].since
  BY CallsGrow DEF Row
<1>1. ASSUME NEW l \in 1..Latest', NEW i \in Places(l)'
      PROVE  /\ lists'[l].rows[i].call \in 1..calls'
             /\ lists'[l].rows[i].since \in 1..l
             /\ \A v \in Workers : Completing(v)' =>
                   lists'[l].rows[i].call # job'[v].call
  <2>1. CASE /\ l \in 1..Latest /\ i \in Places(l)
             /\ lists'[l].rows[i] = lists[l].rows[i]
    <3>1. /\ lists[l].rows[i].call \in 1..calls
          /\ lists[l].rows[i].since \in 1..l
          /\ \A v \in Workers : Completing(v) =>
                lists[l].rows[i].call # job[v].call
      BY <2>1 DEF RowsNumbered, RowAt
    <3>2. ASSUME NEW v \in Workers, Completing(v)'
          PROVE  lists[l].rows[i].call # job'[v].call
      BY <1>0, <3>1, <3>2, CallsCome
    <3>. QED
      BY <1>0, <2>1, <3>1, <3>2
  <2>2. ASSUME NEW w \in Workers, Record(w), lists'[l].rows[i] = Row(job[w]),
               l = job[w].list
        PROVE  /\ lists'[l].rows[i].call \in 1..calls'
               /\ lists'[l].rows[i].since \in 1..l
               /\ \A v \in Workers : Completing(v)' =>
                     lists'[l].rows[i].call # job'[v].call
    <3>1. /\ Completing(w) /\ pc'[w] = "idle" /\ calls' = calls
          /\ job[w].call \in 1..calls
      BY <2>2, RecordEnds
    <3>2. ASSUME NEW v \in Workers, Completing(v)'
          PROVE  job[w].call # job'[v].call
      <4>1. v # w
        BY <3>1, <3>2 DEF Completing, CompletePCs
      <4>2. Completing(v) /\ job'[v].call = job[v].call
        BY <1>0, <3>1, <3>2, CallsCome
      <4>. QED
        BY <3>1, <4>1, <4>2 DEF CallsApart
    <3>3. job[w].since \in 1..l
      <4>1. pc[w] = "append"
        BY <2>2 DEF Record
      <4>2. job[w].since \in 1..Latest /\ l \in job[w].since..Latest
        BY <2>2, <3>1, <4>1 DEF JobsInForce, JobInForce
      <4>. QED
        BY <4>2, ListsTyped
    <3>. QED
      BY <1>0, <2>2, <3>1, <3>2, <3>3
  <2>. QED
    BY <2>1, <2>2, RowsCome
<1>2. ASSUME NEW l \in 1..Latest', NEW m \in 1..Latest',
             NEW i \in Places(l)', NEW j \in Places(m)',
             lists'[m].rows[j].call = lists'[l].rows[i].call
      PROVE  m = l /\ j = i
  <2> DEFINE Old(x, y) == /\ x \in 1..Latest /\ y \in Places(x)
                          /\ lists'[x].rows[y] = lists[x].rows[y]
             Added(w, x, y) == /\ Record(w) /\ x = job[w].list /\ x \in 1..Latest
                               /\ y = Len(lists[x].rows) + 1
                               /\ lists'[x].rows[y] = Row(job[w])
  <2>1. Old(l, i) \/ \E w \in Workers : Added(w, l, i)
    BY RowsCome
  <2>2. Old(m, j) \/ \E w \in Workers : Added(w, m, j)
    BY RowsCome
  <2>3. CASE Old(l, i) /\ Old(m, j)
    BY <1>2, <2>3 DEF RowsNumbered, RowAt
  <2>4. ASSUME NEW w \in Workers, Added(w, l, i) \/ Added(w, m, j),
               Old(l, i) \/ Old(m, j)
        PROVE  FALSE
    <3>1. Completing(w)
      BY <2>4, RecordEnds
    <3>2. lists'[l].rows[i].call = job[w].call /\ lists'[m].rows[j].call = job[w].call
      BY <1>0, <1>2, <2>4
    <3>3. ASSUME NEW x \in 1..Latest, NEW y \in Places(x)
          PROVE  lists[x].rows[y].call # job[w].call
      BY <3>1 DEF RowsNumbered, RowAt
    <3>. QED
      BY <2>4, <3>2, <3>3
  <2>5. ASSUME NEW w \in Workers, Added(w, l, i), NEW v \in Workers, Added(v, m, j)
        PROVE  m = l /\ j = i
    BY <2>5, RecordEnds
  <2>. QED
    BY <2>1, <2>2, <2>3, <2>4, <2>5
<1>. QED
  BY <1>1, <1>2 DEF RowsNumbered, RowAt

\* An answer of a new state: an old one, one of a model served directly, or
\* one of a row just recorded.
LEMMA RepliesCome ==
    ASSUME IInv, Next, ~Restart, NEW r \in replies'
    PROVE  \/ r \in replies
           \/ \E w \in Workers :
                 /\ Completing(w) /\ pc'[w] = "idle" /\ calls' = calls
                 /\ r.call = job[w].call /\ r.since = job[w].since /\ r.until = Latest
                 /\ r.requested = job[w].model /\ Latest' = Latest
                 /\ \/ ~r.migrated /\ UNCHANGED lists
                    \/ r.migrated /\ r.served = job[w].served /\ Record(w)
<1> USE DEF IInv
<1>1. ASSUME NEW w \in Workers, CompleteStep(w), r \notin replies
      PROVE  /\ Completing(w) /\ pc'[w] = "idle" /\ calls' = calls
             /\ r.call = job[w].call /\ r.since = job[w].since /\ r.until = Latest
             /\ r.requested = job[w].model /\ Latest' = Latest
             /\ \/ ~r.migrated /\ UNCHANGED lists
                \/ r.migrated /\ r.served = job[w].served /\ Record(w)
  <2>1. CASE Match(w) \/ Active(w)
    <3>1. Answer(w, FALSE, job[w].model)
      BY <1>1, <2>1 DEF Match, Active
    <3>2. r = [call |-> job[w].call, since |-> job[w].since, until |-> Latest,
               requested |-> job[w].model, served |-> job[w].model,
               migrated |-> FALSE]
      BY <1>1, <3>1 DEF Answer
    <3>3. /\ Completing(w) /\ pc'[w] = "idle" /\ calls' = calls
          /\ UNCHANGED lists /\ Latest' = Latest
      BY <2>1, <3>1 DEF Match, Active, Answer, Completing, CompletePCs, TypeOK, Latest
    <3>. QED
      BY <3>2, <3>3
  <2>2. CASE Record(w)
    <3>1. r = [call |-> job[w].call, since |-> job[w].since, until |-> Latest,
               requested |-> job[w].model, served |-> job[w].served,
               migrated |-> TRUE]
      BY <1>1, <2>2 DEF Record, Answer
    <3>2. Completing(w) /\ pc'[w] = "idle" /\ calls' = calls /\ Latest' = Latest
      BY <2>2, RecordEnds, RecordAppends
    <3>. QED
      BY <2>2, <3>1, <3>2
  <2>. QED
    BY <1>1, <2>1, <2>2 DEF CompleteStep, Complete, Serve, Load
<1>2. ASSUME NEW w \in Workers, ReceiptStep(w)
      PROVE  r \in replies
  BY <1>2 DEF ReceiptStep, Receipt, Count, Contract, Measure, Check, Retiring, Sign
<1>3. ASSUME NEW s \in Swaps, Deprecate(s[1], s[2])
      PROVE  r \in replies
  BY <1>3 DEF Deprecate
<1>. QED
  BY <1>1, <1>2, <1>3 DEF Next

LEMMA CallsStep ==
    ASSUME IInv, Next, ~Restart
    PROVE  CallsApart'
<1> USE DEF IInv
<1>0. /\ calls \in Nat /\ calls' \in Nat /\ calls' >= calls
      /\ Latest \in Nat \ {0} /\ Latest' \in Nat /\ Latest' >= Latest
  BY CallsGrow, TypeStep, ListsTyped DEF Grow
<1>1. ASSUME NEW r \in replies'
      PROVE  /\ r.call \in 1..calls'
             /\ r.since \in 1..Latest' /\ r.until \in 1..Latest'
             /\ \A v \in Workers : Completing(v)' => job'[v].call # r.call
  <2>1. CASE r \in replies
    <3>1. /\ r.call \in 1..calls /\ r.since \in 1..Latest /\ r.until \in 1..Latest
          /\ \A v \in Workers : Completing(v) => job[v].call # r.call
      BY <2>1 DEF CallsApart
    <3>2. ASSUME NEW v \in Workers, Completing(v)'
          PROVE  job'[v].call # r.call
      BY <1>0, <3>1, <3>2, CallsCome
    <3>. QED
      BY <1>0, <3>1, <3>2
  <2>2. ASSUME NEW w \in Workers, Completing(w), pc'[w] = "idle", calls' = calls,
               r.call = job[w].call, r.since = job[w].since, r.until = Latest
        PROVE  /\ r.call \in 1..calls'
               /\ r.since \in 1..Latest' /\ r.until \in 1..Latest'
               /\ \A v \in Workers : Completing(v)' => job'[v].call # r.call
    <3>1. job[w].call \in 1..calls /\ job[w].since \in 1..Latest
      BY <2>2 DEF JobsInForce, JobInForce
    <3>2. ASSUME NEW v \in Workers, Completing(v)'
          PROVE  job'[v].call # r.call
      <4>1. v # w
        BY <2>2, <3>2 DEF Completing, CompletePCs
      <4>2. Completing(v) /\ job'[v].call = job[v].call
        BY <1>0, <2>2, <3>2, CallsCome
      <4>. QED
        BY <2>2, <4>1, <4>2 DEF CallsApart
    <3>. QED
      BY <1>0, <2>2, <3>1, <3>2
  <2>. QED
    BY <2>1, <2>2, RepliesCome
<1>2. ASSUME NEW v \in Workers, NEW w \in Workers, Completing(v)', Completing(w)',
             job'[v].call = job'[w].call
      PROVE  v = w
  <2>1. /\ Completing(v) => job[v].call \in 1..calls
        /\ Completing(w) => job[w].call \in 1..calls
    BY DEF JobsInForce, JobInForce
  <2>2. CASE /\ Completing(v) /\ job'[v].call = job[v].call
             /\ Completing(w) /\ job'[w].call = job[w].call
    BY <1>2, <2>2 DEF CallsApart
  <2>3. CASE job'[v].call = calls + 1 /\ v # w
             /\ \A x \in Workers \ {v} : pc'[x] = pc[x] /\ job'[x] = job[x]
    <3>1. pc'[w] = pc[w] /\ job'[w] = job[w]
      BY <2>3
    <3>2. Completing(w)
      BY <1>2, <3>1 DEF Completing
    <3>3. job[w].call \in 1..calls /\ job[w].call = calls + 1
      BY <1>2, <2>1, <2>3, <3>1, <3>2
    <3>. QED
      BY <1>0, <3>3
  <2>4. CASE job'[w].call = calls + 1 /\ v # w
             /\ \A x \in Workers \ {w} : pc'[x] = pc[x] /\ job'[x] = job[x]
    <3>1. pc'[v] = pc[v] /\ job'[v] = job[v]
      BY <2>4
    <3>2. Completing(v)
      BY <1>2, <3>1 DEF Completing
    <3>3. job[v].call \in 1..calls /\ job[v].call = calls + 1
      BY <1>2, <2>1, <2>4, <3>1, <3>2
    <3>. QED
      BY <1>0, <3>3
  <2>. QED
    BY <1>2, <2>2, <2>3, <2>4, CallsCome
<1>. QED
  BY <1>1, <1>2 DEF CallsApart

LEMMA RowNamesStep ==
    ASSUME IInv, Next, ~Restart
    PROVE  RowsNameSwapsInForce'
<1> USE DEF IInv
<1>0. Grow /\ Latest \in Nat
  BY TypeStep, ListsTyped
<1>1. SUFFICES ASSUME NEW l \in 1..Latest', NEW i \in Places(l)'
               PROVE  \E a \in lists'[l].rows[i].since..l : \E b \in a..l :
                         /\ lists'[l].rows[i].requested = lists'[a].deprecated
                         /\ lists'[l].rows[i].served = lists'[b].replacement
  BY DEF RowsNameSwapsInForce
<1>2. CASE /\ l \in 1..Latest /\ i \in Places(l)
           /\ lists'[l].rows[i] = lists[l].rows[i]
  <2>1. PICK a \in lists[l].rows[i].since..l : \E b \in a..l :
            /\ lists[l].rows[i].requested = lists[a].deprecated
            /\ lists[l].rows[i].served = lists[b].replacement
    BY <1>2 DEF RowsNameSwapsInForce
  <2>2. PICK b \in a..l : /\ lists[l].rows[i].requested = lists[a].deprecated
                          /\ lists[l].rows[i].served = lists[b].replacement
    BY <2>1
  <2>3. lists[l].rows[i].since \in 1..l
    BY <1>2 DEF RowsNumbered
  <2>4. a \in 1..Latest /\ b \in 1..Latest
    BY <1>0, <1>2, <2>1, <2>2, <2>3
  <2>. QED
    BY <1>0, <1>2, <2>1, <2>2, <2>4 DEF Grow
<1>3. ASSUME NEW w \in Workers, Record(w), l = job[w].list, l \in 1..Latest,
             lists'[l].rows[i] = Row(job[w])
      PROVE  \E a \in lists'[l].rows[i].since..l : \E b \in a..l :
                /\ lists'[l].rows[i].requested = lists'[a].deprecated
                /\ lists'[l].rows[i].served = lists'[b].replacement
  <2>1. /\ lists'[l].rows[i].since = job[w].since
        /\ lists'[l].rows[i].requested = job[w].model
        /\ lists'[l].rows[i].served = job[w].served
    BY <1>3 DEF Row
  <2>2. Served(w) /\ Completing(w) /\ pc[w] = "append"
    BY <1>3, RecordEnds DEF Record
  <2>3. PICK a \in job[w].since..Latest : \E b \in a..Latest :
            /\ job[w].model = lists[a].deprecated
            /\ job[w].served = lists[b].replacement
            /\ pc[w] = "append" => b <= job[w].list
    BY <2>2 DEF JobsInForce, JobInForce
  <2>4. PICK b \in a..Latest : /\ job[w].model = lists[a].deprecated
                               /\ job[w].served = lists[b].replacement
                               /\ b <= l
    BY <1>3, <2>2, <2>3
  <2>5. job[w].since \in 1..Latest
    BY <2>2 DEF JobsInForce, JobInForce
  <2>6. a \in 1..Latest /\ b \in 1..Latest /\ a \in job[w].since..l /\ b \in a..l
    BY <1>0, <1>3, <2>3, <2>4, <2>5
  <2>. QED
    BY <1>0, <2>1, <2>4, <2>6 DEF Grow
<1>. QED
  BY <1>2, <1>3, RowsCome

LEMMA OnceStep ==
    ASSUME IInv, Next, ~Restart
    PROVE  MigratedIsRecordedOnce'
<1> USE DEF IInv
<1> DEFINE RowFor(r) == Row([call |-> r.call, since |-> r.since,
                             model |-> r.requested, served |-> r.served])
<1>0. /\ Grow /\ Latest \in Nat \ {0} /\ Latest' \in Nat /\ Latest' >= Latest
      /\ \A w \in Workers : Row(job[w]).call = job[w].call
      /\ \A l \in 1..Latest : Len(lists[l].rows) \in Nat
  BY TypeStep, ListsTyped DEF Grow, Row
<1>1. ASSUME NEW l \in 1..Latest, NEW i \in Places(l)
      PROVE  /\ l \in 1..Latest' /\ i \in Places(l)'
             /\ lists'[l].rows[i] = lists[l].rows[i]
  <2>1. /\ l \in 1..Latest' /\ lists'[l].rows[i] = lists[l].rows[i]
        /\ Len(lists'[l].rows) >= Len(lists[l].rows)
    BY <1>0 DEF Grow
  <2>2. Len(lists'[l].rows) \in Nat
    <3>1. lists' \in Seq(ListType) /\ l \in 1..Len(lists')
      BY <2>1, TypeStep DEF TypeOK, Latest
    <3>2. lists'[l] \in ListType
      BY <3>1
    <3>. QED
      BY <3>2 DEF ListType
  <2>. QED
    BY <1>0, <2>1, <2>2 DEF Places
<1>2. ASSUME NEW r \in replies,
             NEW m \in 1..Latest', NEW j \in Places(m)', lists'[m].rows[j].call = r.call
      PROVE  m \in 1..Latest /\ j \in Places(m) /\ lists[m].rows[j].call = r.call
  <2>1. CASE m \in 1..Latest /\ j \in Places(m) /\ lists'[m].rows[j] = lists[m].rows[j]
    BY <1>2, <2>1
  <2>2. ASSUME NEW w \in Workers, Record(w), lists'[m].rows[j] = Row(job[w])
        PROVE  FALSE
    <3>1. Completing(w)
      BY <2>2, RecordEnds
    <3>. QED
      BY <1>0, <1>2, <2>2, <3>1 DEF CallsApart
  <2>. QED
    BY <2>1, <2>2, RowsCome
<1>3. SUFFICES ASSUME NEW r \in replies'
               PROVE  IF r.migrated
                      THEN \E l \in r.since..r.until : \E i \in Places(l)' :
                              /\ lists'[l].rows[i] = RowFor(r)
                              /\ \A m \in 1..Latest' : \A j \in Places(m)' :
                                    lists'[m].rows[j].call = r.call => m = l /\ j = i
                      ELSE \A l \in 1..Latest' : \A i \in Places(l)' :
                              lists'[l].rows[i].call # r.call
  BY DEF MigratedIsRecordedOnce, RowAt, Row
<1>4. CASE r \in replies /\ r.migrated
  <2>1. PICK l \in r.since..r.until : \E i \in Places(l) :
            /\ lists[l].rows[i] = RowFor(r)
            /\ \A m \in 1..Latest : \A j \in Places(m) :
                  lists[m].rows[j].call = r.call => m = l /\ j = i
    BY <1>4 DEF MigratedIsRecordedOnce, RowAt
  <2>2. PICK i \in Places(l) :
            /\ lists[l].rows[i] = RowFor(r)
            /\ \A m \in 1..Latest : \A j \in Places(m) :
                  lists[m].rows[j].call = r.call => m = l /\ j = i
    BY <2>1
  <2>3. l \in 1..Latest
    BY <1>0, <1>4, <2>1 DEF CallsApart
  <2>4. i \in Places(l)' /\ lists'[l].rows[i] = RowFor(r)
    BY <1>1, <2>2, <2>3
  <2>5. ASSUME NEW m \in 1..Latest', NEW j \in Places(m)', lists'[m].rows[j].call = r.call
        PROVE  m = l /\ j = i
    BY <1>2, <1>4, <2>2, <2>5
  <2>. QED
    BY <1>4, <2>1, <2>4, <2>5
<1>5. CASE r \in replies /\ ~r.migrated
  <2>1. ASSUME NEW l \in 1..Latest', NEW i \in Places(l)',
               lists'[l].rows[i].call = r.call
        PROVE  FALSE
    <3>1. l \in 1..Latest /\ i \in Places(l) /\ lists[l].rows[i].call = r.call
      BY <1>2, <1>5, <2>1
    <3>. QED
      BY <1>5, <3>1 DEF MigratedIsRecordedOnce, RowAt
  <2>. QED
    BY <1>5, <2>1
<1>6. ASSUME NEW w \in Workers, Completing(w), r.call = job[w].call,
             ~r.migrated, UNCHANGED lists
      PROVE  \A l \in 1..Latest' : \A i \in Places(l)' :
                lists'[l].rows[i].call # r.call
  BY <1>6 DEF RowsNumbered, RowAt, Latest, Places
<1>7. ASSUME NEW w \in Workers, Completing(w), r.call = job[w].call,
             r.since = job[w].since, r.until = Latest, r.requested = job[w].model,
             r.served = job[w].served, Record(w)
      PROVE  \E l \in r.since..r.until : \E i \in Places(l)' :
                /\ lists'[l].rows[i] = RowFor(r)
                /\ \A m \in 1..Latest' : \A j \in Places(m)' :
                      lists'[m].rows[j].call = r.call => m = l /\ j = i
  <2>0. PICK k \in 1..Latest : k = job[w].list
    BY <1>7, RecordAppends
  <2> DEFINE n == Len(lists[k].rows) + 1
  <2>1. Len(lists'[k].rows) = n /\ lists'[k].rows[n] = Row(job[w])
    BY <1>7, <2>0, RecordAppends
  <2>2. pc[w] = "append"
    BY <1>7 DEF Record
  <2>3. k \in r.since..r.until
    BY <1>7, <2>0, <2>2 DEF JobsInForce, JobInForce
  <2>4. n \in Places(k)'
    BY <1>0, <2>1 DEF Places
  <2>5. Row(job[w]) = RowFor(r)
    BY <1>7 DEF Row
  <2>6. ASSUME NEW m \in 1..Latest', NEW j \in Places(m)', lists'[m].rows[j].call = r.call
        PROVE  m = k /\ j = n
    <3>1. CASE /\ m \in 1..Latest /\ j \in Places(m)
               /\ lists'[m].rows[j] = lists[m].rows[j]
      BY <1>7, <2>6, <3>1 DEF RowsNumbered, RowAt
    <3>2. ASSUME NEW v \in Workers, Record(v), m = job[v].list,
                 j = Len(lists[m].rows) + 1
          PROVE  m = k /\ j = n
      BY <1>7, <2>0, <3>2, RecordEnds
    <3>. QED
      BY <3>1, <3>2, RowsCome
  <2> HIDE DEF n
  <2>. QED
    BY <2>1, <2>3, <2>4, <2>5, <2>6
<1>. QED
  BY <1>4, <1>5, <1>6, <1>7, RepliesCome

----------------------------------------------------------------------------
(***************************************************************************)
(* Receipts.                                                               *)
(***************************************************************************)

\* A receipt that does not move stays right: its list is only added to, and
\* a swap made meanwhile makes another list the latest.
LEMMA DraftKept ==
    ASSUME TypeOK, TypeOK', Grow, NEW w \in Workers, DraftIsOld(w),
           pc'[w] = pc[w], draft'[w] = draft[w]
    PROVE  DraftIsOld(w)'
<1> DEFINE d == draft[w]
<1>1. /\ d.list \in 1..Latest /\ d.list \in Nat
      /\ Latest \in Nat /\ Latest' \in Nat /\ Latest' >= Latest
      /\ d.before \in Nat /\ d.n \in Nat
  BY ListsTyped DEF DraftIsOld, TypeOK, Grow
<1>2. /\ Len(lists[d.list].rows) \in Nat
      /\ Len(lists'[d.list].rows) >= Len(lists[d.list].rows)
      /\ lists'[d.list].deprecated = lists[d.list].deprecated
  BY <1>1, ListsTyped DEF Grow
<1>3. Len(lists'[d.list].rows) \in Nat
  <2>1. lists' \in Seq(ListType) /\ d.list \in 1..Len(lists')
    BY <1>1 DEF TypeOK, Latest
  <2>2. lists'[d.list] \in ListType
    BY <2>1
  <2>. QED
    BY <2>2 DEF ListType
<1>4. ASSUME NEW a \in d.list..Latest
      PROVE  a \in d.list..Latest' /\ lists'[a].deprecated = lists[a].deprecated
  BY <1>1 DEF Grow
<1>5. /\ d.list \in 1..Latest'
      /\ d.before <= Len(lists'[d.list].rows)
      /\ pc[w] # "count" => d.before <= d.n /\ d.n <= Len(lists'[d.list].rows)
  <2>1. /\ d.before <= Len(lists[d.list].rows)
        /\ pc[w] # "count" => d.before <= d.n /\ d.n <= Len(lists[d.list].rows)
    BY DEF DraftIsOld
  <2> HIDE DEF d
  <2>2. d.list \in 1..Latest'
    BY <1>1
  <2>3. \A x \in Nat : x <= Len(lists[d.list].rows) => x <= Len(lists'[d.list].rows)
    BY <1>2, <1>3
  <2>. QED
    BY <1>1, <2>1, <2>2, <2>3
<1>6. /\ pc[w] \notin {"count", "contract"} =>
            /\ d.n > 0 => d.contract
            /\ d.contract => Len(lists'[d.list].rows) > 0
      /\ pc[w] \in {"retiring", "sign"} =>
            /\ d.n > 0 => d.migrated
            /\ d.migrated => Len(lists'[d.list].rows) > 0
  <2>1. /\ pc[w] \notin {"count", "contract"} =>
              /\ d.n > 0 => d.contract
              /\ d.contract => Len(lists[d.list].rows) > 0
        /\ pc[w] \in {"retiring", "sign"} =>
              /\ d.n > 0 => d.migrated
              /\ d.migrated => Len(lists[d.list].rows) > 0
    BY DEF DraftIsOld
  <2>2. Len(lists[d.list].rows) > 0 => Len(lists'[d.list].rows) > 0
    BY <1>2, <1>3
  <2> HIDE DEF d
  <2>. QED
    BY <2>1, <2>2
<1>7. /\ pc[w] \in {"check", "retiring", "sign"} => (d.contract => d.quality)
      /\ pc[w] = "sign" =>
            \E a \in d.list..Latest' : d.retiring = lists'[a].deprecated
  BY <1>4 DEF DraftIsOld
<1>. QED
  BY <1>5, <1>6, <1>7 DEF DraftIsOld

LEMMA DraftsStep ==
    ASSUME IInv, Next, ~Restart
    PROVE  DraftsAreOld'
<1> USE DEF IInv
<1>0. TypeOK' /\ Grow /\ Latest \in Nat \ {0}
  BY TypeStep, ListsTyped
<1>1. SUFFICES ASSUME NEW v \in Workers, pc'[v] \in ReceiptPCs
               PROVE  DraftIsOld(v)'
  BY DEF DraftsAreOld
<1>2. CASE pc'[v] = pc[v] /\ draft'[v] = draft[v]
  BY <1>0, <1>1, <1>2, DraftKept DEF DraftsAreOld
<1>3. CASE CompleteStep(v)
  BY <1>1, <1>3 DEF CompleteStep, Complete, Match, Active, Serve, Load, Record,
                    Answer, TypeOK, ReceiptPCs
<1>4. CASE Receipt(v)
  <2>1. /\ pc'[v] = "count" /\ UNCHANGED lists /\ Latest' = Latest
        /\ draft'[v].list = Latest
        /\ draft'[v].before = Len(lists[Latest].rows)
    BY <1>4 DEF Receipt, TypeOK, Latest
  <2>2. Len(lists[Latest].rows) \in Nat /\ Latest \in 1..Latest
    BY <1>0, ListsTyped
  <2>. QED
    BY <2>1, <2>2 DEF DraftIsOld
<1>5. CASE Count(v) \/ Contract(v) \/ Measure(v) \/ Check(v) \/ Retiring(v)
  <2>1. /\ DraftIsOld(v) /\ UNCHANGED lists /\ Latest' = Latest
        /\ draft[v].list \in 1..Latest
    BY <1>5 DEF DraftsAreOld, DraftIsOld, Count, Contract, Measure, Check, Retiring,
                ReceiptPCs, Latest
  <2>2. Len(RowsOf(v)) \in Nat /\ RowsOf(v) \in Seq(RowType)
    BY <2>1, ListsTyped DEF RowsOf
  <2>3. RowsOf(v) # <<>> <=> Len(RowsOf(v)) > 0
    BY <2>2
  <2>4. draft[v].n \in Nat /\ draft[v].before \in Nat
    BY DEF TypeOK
  <2>5. CASE Count(v)
    <3>1. /\ pc'[v] = "contract" /\ draft'[v].n = Len(RowsOf(v))
          /\ draft'[v].list = draft[v].list /\ draft'[v].before = draft[v].before
      BY <2>5 DEF Count, TypeOK
    <3>. QED
      BY <2>1, <2>2, <3>1 DEF DraftIsOld, RowsOf
  <2>6. CASE Contract(v)
    <3>1. /\ pc[v] = "contract" /\ pc'[v] = "measure"
          /\ draft'[v].contract <=> Len(RowsOf(v)) > 0
          /\ draft'[v].list = draft[v].list /\ draft'[v].before = draft[v].before
          /\ draft'[v].n = draft[v].n
      BY <2>3, <2>6 DEF Contract, TypeOK
    <3>2. draft[v].before <= draft[v].n /\ draft[v].n <= Len(RowsOf(v))
      BY <2>1, <3>1 DEF DraftIsOld, RowsOf
    <3>3. draft[v].n > 0 => draft'[v].contract
      BY <2>2, <2>4, <3>1, <3>2
    <3>. QED
      BY <2>1, <2>2, <2>4, <3>1, <3>2, <3>3 DEF DraftIsOld, RowsOf
  <2>7. CASE Measure(v)
    <3>1. /\ pc[v] = "measure" /\ pc'[v] = "check"
          /\ draft'[v].quality = (Len(RowsOf(v)) > 0)
          /\ draft'[v].list = draft[v].list /\ draft'[v].before = draft[v].before
          /\ draft'[v].n = draft[v].n /\ draft'[v].contract = draft[v].contract
      BY <2>3, <2>7 DEF Measure, TypeOK
    <3>. QED
      BY <2>1, <2>2, <2>4, <3>1 DEF DraftIsOld, RowsOf
  <2>8. CASE Check(v)
    <3>1. /\ pc[v] = "check" /\ pc'[v] = "retiring"
          /\ draft'[v].migrated =
                (Len(RowsOf(v)) > 0 /\ draft[v].contract /\ draft[v].quality)
          /\ draft'[v].list = draft[v].list /\ draft'[v].before = draft[v].before
          /\ draft'[v].n = draft[v].n /\ draft'[v].contract = draft[v].contract
          /\ draft'[v].quality = draft[v].quality
      BY <2>3, <2>8 DEF Check, TypeOK
    <3>. QED
      BY <2>1, <2>2, <2>4, <3>1 DEF DraftIsOld, RowsOf
  <2>9. CASE Retiring(v)
    <3>1. /\ pc[v] = "retiring" /\ pc'[v] = "sign"
          /\ draft'[v].retiring = lists[Latest].deprecated
          /\ draft'[v].list = draft[v].list /\ draft'[v].before = draft[v].before
          /\ draft'[v].n = draft[v].n /\ draft'[v].contract = draft[v].contract
          /\ draft'[v].quality = draft[v].quality
          /\ draft'[v].migrated = draft[v].migrated
      BY <2>9 DEF Retiring, TypeOK
    <3>2. \E a \in draft'[v].list..Latest : draft'[v].retiring = lists[a].deprecated
      <4>1. Latest \in draft[v].list..Latest
        BY <1>0, <2>1
      <4>. QED
        BY <3>1, <4>1
    <3>. QED
      BY <2>1, <2>2, <2>4, <3>1, <3>2 DEF DraftIsOld, RowsOf
  <2>. QED
    BY <1>5, <2>5, <2>6, <2>7, <2>8, <2>9
<1>6. CASE Sign(v)
  BY <1>1, <1>6 DEF Sign, TypeOK, ReceiptPCs
<1>7. CASE ReceiptStep(v)
  BY <1>4, <1>5, <1>6, <1>7 DEF ReceiptStep
<1>8. ASSUME NEW w \in Workers, CompleteStep(w) \/ ReceiptStep(w)
      PROVE  DraftIsOld(v)'
  <2>1. CASE w = v
    BY <1>3, <1>7, <1>8, <2>1
  <2>2. CASE w # v
    BY <1>2, <1>8, <2>2, OthersStand
  <2>. QED
    BY <2>1, <2>2
<1>9. ASSUME NEW s \in Swaps, Deprecate(s[1], s[2])
      PROVE  DraftIsOld(v)'
  BY <1>2, <1>9 DEF Deprecate
<1>. QED
  BY <1>8, <1>9 DEF Next

LEMMA ReceiptsStep ==
    ASSUME IInv, Next, ~Restart
    PROVE  (ReceiptsListed /\ ReceiptNamesSwapsInForce /\ VerdictFollowsCount)'
<1> USE DEF IInv
<1>0. /\ Grow /\ Latest \in Nat \ {0} /\ Latest' \in Nat /\ Latest' >= Latest
  BY TypeStep, ListsTyped DEF Grow
<1>1. ASSUME NEW r \in receipts'
      PROVE  /\ r.list \in 1..Latest' /\ r.until \in r.list..Latest'
             /\ \E a \in r.list..r.until : \E b \in a..r.until :
                   /\ r.retiring = lists'[a].deprecated
                   /\ r.replacing = lists'[b].replacement
             /\ r.n > 0 => r.migrated
             /\ r.migrated => r.after > 0
             /\ r.before <= r.n /\ r.n <= r.after
  <2>1. CASE r \in receipts
    <3>1. r.list \in 1..Latest /\ r.until \in r.list..Latest
      BY <2>1 DEF ReceiptsListed
    <3>2. r.list \in 1..Latest' /\ r.until \in r.list..Latest'
      BY <1>0, <3>1
    <3>3. PICK a \in r.list..r.until : \E b \in a..r.until :
              r.retiring = lists[a].deprecated /\ r.replacing = lists[b].replacement
      BY <2>1 DEF ReceiptNamesSwapsInForce
    <3>4. PICK b \in a..r.until :
              r.retiring = lists[a].deprecated /\ r.replacing = lists[b].replacement
      BY <3>3
    <3>5. a \in 1..Latest /\ b \in 1..Latest
      BY <1>0, <3>1
    <3>6. /\ lists'[a].deprecated = lists[a].deprecated
          /\ lists'[b].replacement = lists[b].replacement
      BY <1>0, <3>5 DEF Grow
    <3>. QED
      BY <2>1, <3>2, <3>4, <3>6 DEF VerdictFollowsCount
  <2>2. ASSUME NEW w \in Workers, Sign(w), r \notin receipts
        PROVE  /\ r.list \in 1..Latest' /\ r.until \in r.list..Latest'
               /\ \E a \in r.list..r.until : \E b \in a..r.until :
                     /\ r.retiring = lists'[a].deprecated
                     /\ r.replacing = lists'[b].replacement
               /\ r.n > 0 => r.migrated
               /\ r.migrated => r.after > 0
               /\ r.before <= r.n /\ r.n <= r.after
    <3>1. r = [list |-> draft[w].list, before |-> draft[w].before, n |-> draft[w].n,
               migrated |-> draft[w].migrated, after |-> Len(RowsOf(w)),
               until |-> Latest, retiring |-> draft[w].retiring,
               replacing |-> mig.replacement]
      BY <1>1, <2>2 DEF Sign, ReplacementNamed
    <3>2. /\ DraftIsOld(w) /\ pc[w] = "sign" /\ UNCHANGED lists /\ Latest' = Latest
          /\ mig.replacement = lists[Latest].replacement
      BY <2>2 DEF DraftsAreOld, Sign, ReceiptPCs, Latest, TypeOK
    <3>3. draft[w].list \in 1..Latest /\ Latest \in draft[w].list..Latest
      BY <1>0, <3>2 DEF DraftIsOld
    <3>4. PICK a \in draft[w].list..Latest : draft[w].retiring = lists[a].deprecated
      BY <3>2 DEF DraftIsOld
    <3>5. Latest \in a..Latest
      BY <1>0, <3>3
    <3>6. \E b \in a..Latest : /\ draft[w].retiring = lists'[a].deprecated
                               /\ mig.replacement = lists'[b].replacement
      BY <3>2, <3>4, <3>5
    <3>. QED
      BY <3>1, <3>2, <3>3, <3>4, <3>6 DEF DraftIsOld, RowsOf
  <2>3. (\A w \in Workers : ~Sign(w)) => UNCHANGED receipts
    BY DEF Next, Deprecate, CompleteStep, Complete, Match, Active, Serve, Load,
           Record, ReceiptStep, Receipt, Count, Contract, Measure, Check, Retiring
  <2>. QED
    BY <2>1, <2>2, <2>3
<1>. QED
  BY <1>1 DEF ReceiptsListed, ReceiptNamesSwapsInForce, VerdictFollowsCount

----------------------------------------------------------------------------
(***************************************************************************)
(* Stuttering, and the theorems.                                           *)
(***************************************************************************)
LEMMA StutterHolds == IInv /\ UNCHANGED vars => IInv'
<1> SUFFICES ASSUME IInv, UNCHANGED vars
             PROVE  IInv'
  OBVIOUS
<1>1. /\ UNCHANGED <<mig, lists, pc, job, draft, calls, replies, receipts>>
      /\ Latest' = Latest
  BY DEF vars, Latest
<1>2. TypeOK' /\ ListsNamed'
  BY <1>1 DEF IInv, TypeOK, ListsNamed
<1>3. JobsInForce'
  BY <1>1 DEF IInv, JobsInForce, JobInForce, Completing, Matched, Served
<1>4. RowsNumbered' /\ RowsNameSwapsInForce'
  BY <1>1 DEF IInv, RowsNumbered, RowsNameSwapsInForce, Completing, Places, RowAt
<1>5. CallsApart'
  BY <1>1 DEF IInv, CallsApart, Completing
<1>6. MigratedIsRecordedOnce'
  BY <1>1 DEF IInv, MigratedIsRecordedOnce, Places, RowAt
<1>7. DraftsAreOld'
  BY <1>1 DEF IInv, DraftsAreOld, DraftIsOld
<1>8. ReceiptsListed' /\ ReceiptNamesSwapsInForce' /\ VerdictFollowsCount'
  BY <1>1 DEF IInv, ReceiptsListed, ReceiptNamesSwapsInForce, VerdictFollowsCount
<1>. QED
  BY <1>2, <1>3, <1>4, <1>5, <1>6, <1>7, <1>8 DEF IInv

\* The invariant holds of every reachable state.
THEOREM MigrationInvariant == Spec => []IInv
<1>1. Init => IInv
  BY FreshHolds DEF Init
<1>2. IInv /\ [Next]_vars => IInv'
  <2>1. IInv /\ Next /\ Restart => IInv'
    BY RestartIsFresh DEF IInv
  <2>2. IInv /\ Next /\ ~Restart => IInv'
    BY TypeStep, NamesStep, JobsStep, RowsStep, RowNamesStep, CallsStep, OnceStep,
       DraftsStep, ReceiptsStep DEF IInv
  <2>. QED
    BY <2>1, <2>2, StutterHolds
<1>. QED
  BY <1>1, <1>2, PTL DEF Spec

\* The shared dictionary, the lists and the threads keep their types, and
\* _MIG always points at the latest list and its swap (migration.py:17, 28).
THEOREM TypeCorrect == Spec => []TypeOK
<1>1. IInv => TypeOK
  BY DEF IInv
<1>. QED
  BY <1>1, MigrationInvariant, PTL

\* No migrated request is lost or recorded twice, by any interleaving of
\* completions and swaps (migration.py:42-46).
THEOREM RecordedOnce == Spec => []MigratedIsRecordedOnce
<1>1. IInv => MigratedIsRecordedOnce
  BY DEF IInv
<1>. QED
  BY <1>1, MigrationInvariant, PTL

\* A row never names a swap that was not in force during its call
\* (migration.py:42-45).
THEOREM NamesInForce == Spec => []RowsNameSwapsInForce
<1>1. IInv => RowsNameSwapsInForce
  BY DEF IInv
<1>. QED
  BY <1>1, MigrationInvariant, PTL

\* The names of a receipt come from swaps in force while it was built, in order;
\* without a swap, from the one it counts (migration.py:51, 70-71).
THEOREM ReceiptNamesInForce == Spec => []ReceiptNamesSwapsInForce
<1>1. IInv => ReceiptNamesSwapsInForce
  BY DEF IInv
<1>. QED
  BY <1>1, MigrationInvariant, PTL

\* A receipt's verdict follows its count, whatever is recorded meanwhile
\* (migration.py:51-67).
THEOREM VerdictsFollow == Spec => []VerdictFollowsCount
<1>1. IInv => VerdictFollowsCount
  BY DEF IInv
<1>. QED
  BY <1>1, MigrationInvariant, PTL

=============================================================================
