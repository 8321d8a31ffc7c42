------------------------- MODULE RoutingLedgerProofs -------------------------
(***************************************************************************)
(* Proofs about Routing when an admin reset runs alone (CleanResets): what the*)
(* disposition confirms, and that the ledger and the counters agree.       *)
(*                                                                         *)
(* LedgerInv: a reset is alone and what it has cleared stays empty (AloneInv);*)
(* the rows of two handlers are different rows (RowsInv); a mixed batch has*)
(* tallied the requests before its place (TallyInv); the saved summary is that*)
(* of a whole batch (BatchInv); a reader with a summary has seen that batch*)
(* alone or the ledger holds more (ReadInv); since the last reset there is *)
(* nothing, then one batch (SinceInv).                                     *)
(***************************************************************************)
EXTENDS RoutingProofs

(***************************************************************************)
(* How the counts of the ledger change.                                    *)
(***************************************************************************)
OfKind(k) == {x \in Receipts : x[1].kind = k}

LEMMA InsertCounts ==
    ASSUME RoutingType, NumbersInv, NEW w \in Workers, InsertReceipt(w)
    PROVE  /\ CountReceipts' = CountReceipts + 1 /\ CountReceipts \in Nat
           /\ \A k \in Kinds :
                /\ CountByKind[k] \in Nat
                /\ job[w].row.kind = k => CountByKind'[k] = CountByKind[k] + 1
                /\ job[w].row.kind # k => CountByKind'[k] = CountByKind[k]
<1> DEFINE x == <<job[w].row, ledger[job[w].row] + 1>>
<1>1. job[w].row \in Rows /\ ledger' = [ledger EXCEPT ![job[w].row] = @ + 1]
  BY InsertDoes DEF InsertReceipt
<1>2. Receipts' = Receipts \union {x} /\ x \notin Receipts /\ IsFiniteSet(Receipts)
  BY <1>1, OneMoreRow DEF RoutingType
<1>3. CountReceipts' = CountReceipts + 1
  BY <1>2, FS_AddElement DEF CountReceipts
<1>4. \A k \in Kinds : /\ CountByKind[k] = Cardinality(OfKind(k))
                       /\ CountByKind'[k] = Cardinality(OfKind(k)')
  BY DEF CountByKind, OfKind
<1>5. ASSUME NEW k \in Kinds
      PROVE  /\ job[w].row.kind = k => CountByKind'[k] = CountByKind[k] + 1
             /\ job[w].row.kind # k => CountByKind'[k] = CountByKind[k]
  <2>1. x[1].kind = job[w].row.kind
    OBVIOUS
  <2>2. x \notin OfKind(k) /\ IsFiniteSet(OfKind(k))
    BY <1>2, FS_Subset DEF OfKind
  <2> HIDE DEF x
  <2>3. job[w].row.kind = k => OfKind(k)' = OfKind(k) \union {x}
    BY <1>2, <2>1 DEF OfKind
  <2>4. job[w].row.kind # k => OfKind(k)' = OfKind(k)
    BY <1>2, <2>1 DEF OfKind
  <2>5. Cardinality(OfKind(k) \union {x}) = Cardinality(OfKind(k)) + 1
    BY <2>2, FS_AddElement
  <2>. QED
    BY <1>4, <2>3, <2>4, <2>5
<1>. QED
  BY <1>3, <1>5, RowCounts

LEMMA EmptyCounts ==
    ASSUME Receipts = {}
    PROVE  CountReceipts = 0 /\ \A k \in Kinds : CountByKind[k] = 0
<1>1. \A k \in Kinds : {x \in Receipts : x[1].kind = k} = {}
  OBVIOUS
<1>. QED
  BY <1>1, FS_EmptySet DEF CountReceipts, CountByKind

LEMMA CountsKept ==
    ASSUME ledger' = ledger
    PROVE  /\ Receipts' = Receipts /\ CountReceipts' = CountReceipts
           /\ CountByKind' = CountByKind
BY DEF Receipts, CountReceipts, CountByKind

\* Which steps leave the ledger alone
LEMMA LedgerSteps ==
    ASSUME RoutingType, NumbersInv, NEW w \in Workers, Call(w) \/ Step(w) \/ Fail(w)
    PROVE  InsertReceipt(w) \/ ClearReceipts(w) \/ ledger' = ledger
<1>1. Call(w) \/ ReadSources(w) \/ Decide(w) \/ Fail(w) => ledger' = ledger
  BY CallDoes, ReadDoes, DecideDoes, FailDoes DEF stores
<1>2. \/ NextSeq(w) \/ IncrCount(w) \/ SetLastBatch(w) \/ SmartIncr(w)
      \/ MixedIncr(w) \/ SetMixedBatch(w) \/ ResetRouting(w) \/ ResetSmart(w) \/ ResetMixed(w)
      => ledger' = ledger
  BY DEF NextSeq, IncrCount, SetLastBatch, SmartIncr, MixedIncr, SetMixedBatch,
         ResetRouting, ResetSmart, ResetMixed
<1>. QED
  BY <1>1, <1>2 DEF Step

(***************************************************************************)
(* How the handlers' records change, all at once.                          *)
(***************************************************************************)
OpensOne(w) ==
    /\ job[w] = NoJob /\ job'[w].op \in Writers /\ job'[w].id = Len(ops) + 1
    /\ Len(ops') = Len(ops) + 1
    /\ \A i \in 1..Len(ops) : ops'[i] = ops[i]
    /\ ops'[Len(ops) + 1] = [op |-> job'[w].op, rows |-> 0, done |-> FALSE]

ChangesOne(w, rows) ==
    /\ job[w].op \in Writers \ {"reset"} /\ job[w].id \in 1..Len(ops)
    /\ ~ops[job[w].id].done /\ ops[job[w].id].op = job[w].op
    /\ Len(ops') = Len(ops)
    /\ \A i \in 1..Len(ops) \ {job[w].id} : ops'[i] = ops[i]
    /\ ops'[job[w].id].op = job[w].op
    /\ ops'[job[w].id].rows = rows

LEMMA RecordSteps ==
    ASSUME RoutingType, NumbersInv, NEW w \in Workers, Call(w) \/ Step(w) \/ Fail(w)
    PROVE  /\ Call(w) => OpensOne(w) \/ ops' = ops
           /\ InsertReceipt(w) => /\ ChangesOne(w, ops[job[w].id].rows + 1)
                                  /\ job[w].op # "route" => ~ops'[job[w].id].done
           /\ SetLastBatch(w) \/ SmartIncr(w) \/ SetMixedBatch(w) =>
                ChangesOne(w, ops[job[w].id].rows) /\ ops'[job[w].id].done
           /\ ClearReceipts(w) => /\ Len(ops') = Len(ops)
                                  /\ \A i \in 1..Len(ops) :
                                       ops'[i] = [ops[i] EXCEPT !.rows = 0]
           /\ \/ NextSeq(w) \/ IncrCount(w) \/ MixedIncr(w) \/ ResetRouting(w)
              \/ ResetSmart(w) \/ ResetMixed(w) \/ ReadSources(w) \/ Decide(w) \/ Fail(w)
              => ops' = ops
<1>0. /\ ops \in Seq(Op) /\ job \in [Workers -> Job]
      /\ NoJob.op \notin Writers
  BY DEF RoutingType, NoJob, Writers
<1>1. ASSUME Call(w) PROVE OpensOne(w) \/ ops' = ops
  <2>1. PICK j, at :
              /\ j \in Job
              /\ JobAt(j, at) /\ Moves(w, j, at) /\ job[w] = NoJob
              /\ \/ ops' = ops /\ j.op = "disposition"
                 \/ /\ j.op \in Writers /\ j.id = Len(ops) + 1
                    /\ ops' = Append(ops, [op |-> j.op, rows |-> 0, done |-> FALSE])
    BY <1>1, CallDoes
  <2>2. job'[w] = j
    BY <1>0, <2>1 DEF Moves
  <2>3. ASSUME /\ j.op \in Writers /\ j.id = Len(ops) + 1
               /\ ops' = Append(ops, [op |-> j.op, rows |-> 0, done |-> FALSE])
        PROVE  OpensOne(w)
    BY <1>0, <2>1, <2>2, <2>3, Opened DEF Moves, OpensOne
  <2>. QED
    BY <2>1, <2>3
<1>2. ASSUME InsertReceipt(w)
      PROVE  /\ ChangesOne(w, ops[job[w].id].rows + 1)
             /\ job[w].op # "route" => ~ops'[job[w].id].done
  <2>1. PICK new \in Op : /\ new.op = job[w].op /\ new.rows = ops[job[w].id].rows + 1
                          /\ new.done <=> job[w].op = "route"
                          /\ ops' = [ops EXCEPT ![job[w].id] = new]
    BY <1>2, InsertDoes
  <2>2. job[w].op \in Writers \ {"reset"}
    BY <1>2, InsertDoes
  <2>3. /\ job[w].id \in 1..Len(ops) /\ ~ops[job[w].id].done
        /\ ops[job[w].id].op = job[w].op
    BY <2>2 DEF NumbersInv
  <2>. QED
    BY <1>0, <2>1, <2>2, <2>3 DEF ChangesOne
<1>3. ASSUME SetLastBatch(w) \/ SmartIncr(w) \/ SetMixedBatch(w)
      PROVE  ChangesOne(w, ops[job[w].id].rows) /\ ops'[job[w].id].done
  <2>1. job[w].op \in Writers \ {"reset"} /\ Closes(w)
    BY <1>3, SaveDoes DEF SetLastBatch, SmartIncr, SetMixedBatch, Closes
  <2>2. PICK new \in Op : /\ new.op = job[w].op /\ new.done
                          /\ new.rows = ops[job[w].id].rows
                          /\ ops' = [ops EXCEPT ![job[w].id] = new]
    BY <2>1 DEF Closes
  <2>3. /\ job[w].id \in 1..Len(ops) /\ ~ops[job[w].id].done
        /\ ops[job[w].id].op = job[w].op
    BY <2>1 DEF NumbersInv
  <2>. QED
    BY <1>0, <2>1, <2>2, <2>3 DEF ChangesOne
<1>4. ASSUME ClearReceipts(w)
      PROVE  /\ Len(ops') = Len(ops)
             /\ \A i \in 1..Len(ops) : ops'[i] = [ops[i] EXCEPT !.rows = 0]
  BY <1>0, <1>4, Cleared DEF ClearReceipts
<1>5. \/ NextSeq(w) \/ IncrCount(w) \/ MixedIncr(w) \/ ResetRouting(w)
      \/ ResetSmart(w) \/ ResetMixed(w) \/ ReadSources(w) \/ Decide(w) \/ Fail(w)
      => ops' = ops
  BY ReadDoes, DecideDoes, FailDoes
     DEF NextSeq, IncrCount, MixedIncr, ResetRouting, ResetSmart, ResetMixed, history
<1>. QED
  BY <1>1, <1>2, <1>3, <1>4, <1>5

\* A step within a handler stays in it.
LEMMA SameHandler ==
    ASSUME RoutingType, NEW w \in Workers
    PROVE  /\ NextSeq(w) \/ IncrCount(w) => job'[w].op = "batch"
           /\ MixedIncr(w) => job'[w].op = "mixed"
<1>0. \A j, at : Moves(w, j, at) => job'[w] = j
  BY DEF Moves, RoutingType
<1>1. NextSeq(w) => job'[w].op = "batch"
  BY <1>0, NextSeqDoes
<1>2. IncrCount(w) => job'[w].op = "batch"
  BY <1>0, CountDoes
<1>3. MixedIncr(w) => job'[w].op = "mixed"
  BY <1>0, MixedDoes
<1>. QED
  BY <1>1, <1>2, <1>3

\* The other threads keep their place and their locals.
LEMMA Others ==
    ASSUME RoutingType, NumbersInv, NEW w \in Workers, Call(w) \/ Step(w) \/ Fail(w)
    PROVE  \A v \in Workers \ {w} : job'[v] = job[v] /\ pc'[v] = pc[v]
<1>1. \A j, at : Moves(w, j, at) =>
        \A v \in Workers \ {w} : job'[v] = job[v] /\ pc'[v] = pc[v]
  BY DEF Moves, RoutingType
<1>2. \E j, at : Moves(w, j, at)
  <2>1. Call(w) => \E j, at : Moves(w, j, at)
    BY CallDoes
  <2>2. NextSeq(w) => \E j, at : Moves(w, j, at)
    BY NextSeqDoes
  <2>3. InsertReceipt(w) => \E j, at : Moves(w, j, at)
    BY InsertDoes
  <2>4. IncrCount(w) \/ MixedIncr(w) => \E j, at : Moves(w, j, at)
    BY CountDoes, MixedDoes
  <2>5. SetLastBatch(w) \/ SmartIncr(w) \/ SetMixedBatch(w) => \E j, at : Moves(w, j, at)
    BY SaveDoes DEF Closes
  <2>6. ClearReceipts(w) \/ ResetRouting(w) \/ ResetSmart(w) \/ ResetMixed(w)
          => \E j, at : Moves(w, j, at)
    BY ResetDoes
  <2>7. ReadSources(w) => \E j, at : Moves(w, j, at)
    BY ReadDoes DEF ReadInto
  <2>8. Decide(w) \/ Fail(w) => \E j, at : Moves(w, j, at)
    BY DecideDoes, FailDoes
  <2>. QED
    BY <2>1, <2>2, <2>3, <2>4, <2>5, <2>6, <2>7, <2>8 DEF Step
<1>. QED
  BY <1>1, <1>2

\* A reset is alone, and what it has cleared stays empty.
AloneInv == \A w \in Workers : job[w].op = "reset" =>
    /\ \A v \in Workers \ {w} : Idle(v)
    /\ job[w].id = Len(ops)
    /\ pc[w] # "truncate" => Receipts = {} /\ \A i \in 1..Len(ops) : ops[i].rows = 0
    /\ pc[w] \in {"reset_smart", "reset_mixed"} => counters = NoTiers
    /\ pc[w] = "reset_mixed" => smart = [d \in Dimensions |-> 0]

ResetStep(w) == ClearReceipts(w) \/ ResetRouting(w) \/ ResetSmart(w) \/ ResetMixed(w)

\* While a reset runs, only its own thread moves.
LEMMA ResetsAlone ==
    ASSUME CleanResets, RoutingType, NumbersInv, AloneInv,
           NEW w \in Workers, Call(w) \/ Step(w) \/ Fail(w)
    PROVE  /\ ResetStep(w) <=> job[w].op = "reset"
           /\ Resetting <=> job[w].op = "reset"
           /\ ResetStep(w) => \A v \in Workers \ {w} : Idle(v)
<1>1. job[w] \in Job /\ JobAt(job[w], pc[w])
  BY DEF RoutingType
<1>2. ResetStep(w) => job[w].op = "reset"
  BY ResetDoes DEF ResetStep, ResetJob
<1>3. job[w].op = "reset" => ResetStep(w)
  <2> SUFFICES ASSUME job[w].op = "reset" PROVE ResetStep(w)
    OBVIOUS
  <2>1. ~Call(w)
    <3>1. Call(w) => job[w] = NoJob
      BY CallDoes
    <3>. QED
      BY <3>1 DEF NoJob
  <2>2. ~Fail(w)
    BY DEF Fail
  <2>3. pc[w] \in Clearing
    BY <1>1, Locals
  <2>4. ~NextSeq(w) /\ ~InsertReceipt(w)
    BY <2>3 DEF NextSeq, InsertReceipt, Clearing
  <2>5. /\ ~IncrCount(w) /\ ~SetLastBatch(w) /\ ~SmartIncr(w) /\ ~MixedIncr(w)
        /\ ~SetMixedBatch(w)
    BY <2>3 DEF IncrCount, SetLastBatch, SmartIncr, MixedIncr, SetMixedBatch, Clearing
  <2>6. ~ReadSources(w) /\ ~Decide(w)
    BY <2>3 DEF ReadSources, Read, Decide, Clearing
  <2>. QED
    BY <2>1, <2>2, <2>4, <2>5, <2>6 DEF Step, ResetStep
<1>4. Resetting => job[w].op = "reset"
  <2> SUFFICES ASSUME NEW r \in Workers, job[r].op = "reset", r # w PROVE FALSE
    BY DEF Resetting
  <2>1. pc[w] = "idle" /\ job[w] = NoJob
    BY <1>1, Places DEF AloneInv, Idle
  <2>2. ~Call(w)
    BY CallDoes DEF Resetting
  <2>3. ~Fail(w) /\ ~NextSeq(w) /\ ~InsertReceipt(w)
    BY <2>1 DEF NextSeq, InsertReceipt, Fail, Idle
  <2>4. /\ ~IncrCount(w) /\ ~SetLastBatch(w) /\ ~SmartIncr(w) /\ ~MixedIncr(w)
        /\ ~SetMixedBatch(w)
    BY <2>1 DEF IncrCount, SetLastBatch, SmartIncr, MixedIncr, SetMixedBatch
  <2>5. ~ReadSources(w) /\ ~Decide(w)
    BY <2>1 DEF ReadSources, Read, Decide
  <2>6. ~ResetStep(w)
    BY <1>2, <2>1 DEF NoJob
  <2>. QED
    BY <2>2, <2>3, <2>4, <2>5, <2>6 DEF Step, ResetStep
<1>5. job[w].op = "reset" => Resetting
  BY DEF Resetting
<1>. QED
  BY <1>2, <1>3, <1>4, <1>5 DEF AloneInv

\* No thread starts resetting but by a call of its own, on an idle pool.
LEMMA ResetStarts ==
    ASSUME CleanResets, RoutingType, NumbersInv, AloneInv,
           NEW w \in Workers, Call(w) \/ Step(w) \/ Fail(w), ~Resetting, Resetting'
    PROVE  /\ Call(w) /\ job'[w].op = "reset" /\ pc'[w] = "truncate"
           /\ job'[w].id = Len(ops) + 1 /\ Len(ops') = Len(ops) + 1
           /\ \A v \in Workers : Idle(v)
           /\ \A v \in Workers \ {w} : pc'[v] = "idle" /\ job'[v] = job[v]
<1>1. job'[w].op = "reset" /\ job[w].op # "reset"
  BY Others DEF Resetting
<1>2. \A j, at : Moves(w, j, at) => job'[w] = j /\ pc'[w] = at
  BY DEF Moves, RoutingType
<1>3. NoJob.op # "reset"
  BY DEF NoJob
<1>4. Call(w)
  <2>1. ~Decide(w) /\ ~Fail(w)
    BY <1>1, <1>2, <1>3, DecideDoes, FailDoes
  <2>2. ~NextSeq(w) /\ ~IncrCount(w) /\ ~MixedIncr(w)
    BY <1>1, SameHandler
  <2>3. ~InsertReceipt(w)
    BY <1>1, <1>2, <1>3, InsertDoes
  <2>4. ~SetLastBatch(w) /\ ~SmartIncr(w) /\ ~SetMixedBatch(w)
    BY <1>1, <1>2, <1>3, SaveDoes DEF Closes
  <2>5. ~ResetStep(w)
    BY <1>1, ResetsAlone
  <2>6. ~ReadSources(w)
    <3> SUFFICES ASSUME NEW at, NEW next, NEW field, NEW value,
                        ReadInto(w, at, next, field, value)
                 PROVE  FALSE
      BY ReadDoes
    <3> DEFINE j == [job[w] EXCEPT ![field] = value]
    <3>1. j \in ReadJob /\ Moves(w, j, next)
      BY DEF ReadInto
    <3> HIDE DEF j
    <3>. QED
      BY <1>1, <1>2, <3>1 DEF ReadJob
  <2>. QED
    BY <2>1, <2>2, <2>3, <2>4, <2>5, <2>6 DEF Step, ResetStep
<1>5. PICK j, at :
         /\ j \in Job
         /\ Moves(w, j, at)
         /\ \/ j.op = "disposition"
            \/ /\ j.id = Len(ops) + 1
               /\ ops' = Append(ops, [op |-> j.op, rows |-> 0, done |-> FALSE])
               /\ \/ j.op # "reset"
                  \/ at = "truncate" /\ \A v \in Workers : Idle(v)
  BY <1>4, CallDoes
<1>6. j.op = "reset" /\ job'[w] = j /\ pc'[w] = at
  BY <1>1, <1>2, <1>5
<1>7. Len(ops') = Len(ops) + 1
  BY <1>5, <1>6 DEF RoutingType
<1>. QED
  BY <1>4, <1>5, <1>6, <1>7, Others DEF Idle

LEMMA AloneStep ==
    ASSUME CleanResets, RoutingType, NumbersInv, AloneInv,
           NEW w \in Workers, Call(w) \/ Step(w) \/ Fail(w)
    PROVE  AloneInv'
<1>1. \A v \in Workers \ {w} : job'[v] = job[v] /\ pc'[v] = pc[v]
  BY Others
<1>2. CASE ~ResetStep(w)
  <2>1. ~Resetting
    BY <1>2, ResetsAlone
  <2>2. CASE ~Resetting'
    BY <2>2 DEF AloneInv, Resetting
  <2>3. CASE Resetting'
    <3>1. /\ job'[w].op = "reset" /\ pc'[w] = "truncate" /\ job'[w].id = Len(ops')
          /\ \A v \in Workers \ {w} : pc'[v] = "idle" /\ job'[v] = job[v]
      BY <2>1, <2>3, ResetStarts
    <3>2. \A v \in Workers \ {w} : job'[v].op # "reset"
      BY <2>1, <3>1 DEF Resetting
    <3>. QED
      BY <3>1, <3>2 DEF AloneInv, Idle
  <2>. QED
    BY <2>2, <2>3
<1>3. CASE ResetStep(w)
  <2>0. /\ job[w].op = "reset" /\ \A v \in Workers \ {w} : pc[v] = "idle"
        /\ job[w].id = Len(ops)
    BY <1>3, ResetsAlone DEF AloneInv, Idle
  <2>00. \A v \in Workers \ {w} : pc'[v] = "idle" /\ job'[v].op # "reset"
    <3>1. \A v \in Workers \ {w} : job[v] = NoJob
      BY <2>0, Places DEF RoutingType
    <3>. QED
      BY <1>1, <2>0, <3>1 DEF NoJob
  <2>000. \A j, at : Moves(w, j, at) => job'[w] = j /\ pc'[w] = at
    BY DEF Moves, RoutingType
  <2>1. CASE ClearReceipts(w)
    <3>1. Receipts' = {}
      BY <2>1, NoRows DEF ClearReceipts
    <3>2. Len(ops') = Len(ops) /\ \A i \in 1..Len(ops) : ops'[i].rows = 0
      <4>1. \A i \in 1..Len(ops) : ops[i] \in Op
        BY DEF RoutingType
      <4>. QED
        BY <2>1, <4>1, RecordSteps DEF Op
    <3>3. job'[w] = job[w] /\ pc'[w] = "reset_routing"
      BY <2>1, <2>000, ResetDoes
    <3>. QED
      BY <2>0, <2>00, <3>1, <3>2, <3>3 DEF AloneInv, Idle
  <2>2. CASE ResetRouting(w)
    <3>1. /\ job'[w] = job[w] /\ pc'[w] = "reset_smart" /\ pc[w] = "reset_routing"
          /\ ops' = ops /\ counters' = NoTiers /\ Receipts' = Receipts
      BY <2>2, <2>000, ResetDoes, CountsKept DEF ResetRouting
    <3>. QED
      BY <2>0, <2>00, <3>1 DEF AloneInv, Idle
  <2>3. CASE ResetSmart(w)
    <3>1. /\ job'[w] = job[w] /\ pc'[w] = "reset_mixed" /\ pc[w] = "reset_smart"
          /\ ops' = ops /\ counters' = counters /\ Receipts' = Receipts
          /\ smart' = [d \in Dimensions |-> 0]
      BY <2>3, <2>000, ResetDoes, CountsKept DEF ResetSmart, weightedKeys, history
    <3>. QED
      BY <2>0, <2>00, <3>1 DEF AloneInv, Idle
  <2>4. CASE ResetMixed(w)
    <3>1. job'[w].op # "reset"
      BY <2>4, <2>000, ResetDoes DEF NoJob
    <3>. QED
      BY <2>00, <3>1 DEF AloneInv
  <2>. QED
    BY <1>3, <2>1, <2>2, <2>3, <2>4 DEF ResetStep
<1>. QED
  BY <1>2, <1>3

\* The receipts of two handlers are different rows of the table.
RowsInv ==
    /\ \A i \in 1..Len(ops) : ops[i].rows <= CountReceipts
    /\ \A i, j \in 1..Len(ops) : i # j => ops[i].rows + ops[j].rows <= CountReceipts

LEMMA RowsStep ==
    ASSUME RoutingType, RoutingType', NumbersInv, RowsInv,
           NEW w \in Workers, Call(w) \/ Step(w) \/ Fail(w)
    PROVE  RowsInv'
<1>0. /\ \A i \in 1..Len(ops) : ops[i].rows \in Nat
      /\ \A i \in 1..Len(ops') : ops'[i].rows \in Nat
      /\ CountReceipts \in Nat /\ CountReceipts' \in Nat /\ Len(ops) \in Nat
  <2>1. \A i \in 1..Len(ops) : ops[i] \in Op
    BY DEF RoutingType
  <2>2. \A i \in 1..Len(ops') : ops'[i] \in Op
    BY DEF RoutingType
  <2>3. CountReceipts \in Nat
    BY RowCounts
  <2>4. CountReceipts' \in Nat
    BY FS_CardinalityType DEF RoutingType, CountReceipts
  <2>5. \A o \in Op : o.rows \in Nat
    BY DEF Op
  <2>6. Len(ops) \in Nat
    BY DEF RoutingType
  <2>. QED
    BY <2>1, <2>2, <2>3, <2>4, <2>5, <2>6
<1>1. CASE InsertReceipt(w)
  <2> DEFINE d == job[w].id
  <2>1. /\ d \in 1..Len(ops) /\ Len(ops') = Len(ops)
        /\ \A i \in 1..Len(ops) \ {d} : ops'[i] = ops[i]
        /\ ops'[d].rows = ops[d].rows + 1
    BY <1>1, RecordSteps DEF ChangesOne
  <2>2. CountReceipts' = CountReceipts + 1
    BY <1>1, InsertCounts
  <2> HIDE DEF d
  <2>3. ops[d].rows \in Nat
    BY <1>0, <2>1
  <2>4. ASSUME NEW i \in 1..Len(ops) PROVE ops'[i].rows <= CountReceipts + 1
    <3>1. ops[i].rows \in Nat /\ ops[i].rows <= CountReceipts
      BY <1>0 DEF RowsInv
    <3>2. CASE i = d
      BY <1>0, <2>1, <3>1, <3>2
    <3>3. CASE i # d
      BY <1>0, <2>1, <3>1, <3>3
    <3>. QED
      BY <3>2, <3>3
  <2>5. ASSUME NEW i \in 1..Len(ops), NEW j \in 1..Len(ops), i # j
        PROVE  ops'[i].rows + ops'[j].rows <= CountReceipts + 1
    <3>1. /\ ops[i].rows \in Nat /\ ops[j].rows \in Nat
          /\ ops[i].rows + ops[j].rows <= CountReceipts
      BY <1>0, <2>5 DEF RowsInv
    <3>2. /\ i = d => ops'[i].rows = ops[i].rows + 1 /\ ops'[j].rows = ops[j].rows
          /\ j = d => ops'[i].rows = ops[i].rows /\ ops'[j].rows = ops[j].rows + 1
          /\ i # d /\ j # d => ops'[i].rows = ops[i].rows /\ ops'[j].rows = ops[j].rows
      BY <2>1, <2>5
    <3>. QED
      BY <1>0, <3>1, <3>2
  <2>. QED
    BY <2>1, <2>2, <2>4, <2>5 DEF RowsInv
<1>2. CASE ClearReceipts(w)
  <2>1. \A i \in 1..Len(ops) : ops[i] \in Op
    BY DEF RoutingType
  <2>2. Len(ops') = Len(ops) /\ \A i \in 1..Len(ops) : ops'[i].rows = 0
    BY <1>2, <2>1, RecordSteps DEF Op
  <2>3. 0 <= CountReceipts' /\ 0 + 0 <= CountReceipts'
    BY <1>0
  <2>. QED
    BY <2>2, <2>3 DEF RowsInv
<1>3. CASE ~InsertReceipt(w) /\ ~ClearReceipts(w)
  <2>1. CountReceipts' = CountReceipts
    BY <1>3, LedgerSteps, CountsKept
  <2>2. CASE OpensOne(w)
    <3>1. /\ Len(ops') = Len(ops) + 1 /\ \A i \in 1..Len(ops) : ops'[i] = ops[i]
          /\ ops'[Len(ops) + 1].rows = 0
      BY <2>2 DEF OpensOne
    <3>2. \A i \in 1..Len(ops') : i \in 1..Len(ops) \/ i = Len(ops) + 1
      BY <1>0, <3>1
    <3>3. \A i \in 1..Len(ops') : ops'[i].rows <= CountReceipts
      BY <1>0, <3>1, <3>2 DEF RowsInv
    <3>4. ASSUME NEW i \in 1..Len(ops'), NEW j \in 1..Len(ops'), i # j
          PROVE  ops'[i].rows + ops'[j].rows <= CountReceipts
      <4>1. CASE i \in 1..Len(ops) /\ j \in 1..Len(ops)
        BY <3>1, <3>4, <4>1 DEF RowsInv
      <4>2. CASE i = Len(ops) + 1
        BY <1>0, <3>1, <3>3, <4>2
      <4>3. CASE j = Len(ops) + 1
        BY <1>0, <3>1, <3>3, <4>3
      <4>. QED
        BY <3>2, <4>1, <4>2, <4>3
    <3>. QED
      BY <2>1, <3>3, <3>4 DEF RowsInv
  <2>3. CASE ChangesOne(w, ops[job[w].id].rows)
    <3>1. Len(ops') = Len(ops) /\ \A i \in 1..Len(ops) : ops'[i].rows = ops[i].rows
      BY <2>3 DEF ChangesOne
    <3>. QED
      BY <2>1, <3>1 DEF RowsInv
  <2>4. CASE ops' = ops
    BY <2>1, <2>4 DEF RowsInv
  <2>. QED
    BY <1>3, <2>2, <2>3, <2>4, RecordSteps DEF Step
<1>. QED
  BY <1>1, <1>2, <1>3

\* What the call of a mixed batch leaves.
LEMMA MixedOpens ==
    ASSUME RoutingType, NumbersInv, NEW w \in Workers, Call(w), job'[w].op = "mixed"
    PROVE  /\ UNCHANGED stores
           /\ job'[w].at = 1 /\ job'[w].tally = NoKinds /\ pc'[w] = "insert"
           /\ job'[w].id = Len(ops) + 1
           /\ ops' = Append(ops, [op |-> "mixed", rows |-> 0, done |-> FALSE])
<1> DEFINE Begun(j, at) ==
      /\ Moves(w, j, at) /\ UNCHANGED <<stores, since, drift, reports, faults>>
      /\ \/ ops' = ops /\ j.op = "disposition" /\ at = "read_api" /\ j.api = NoKinds
         \/ /\ j.op \in Writers /\ j.id = Len(ops) + 1
            /\ ops' = Append(ops, [op |-> j.op, rows |-> 0, done |-> FALSE])
            /\ \/ j.op \in {"route", "smart"} /\ at = "insert"
               \/ j.op = "batch" /\ at = "seq"
               \/ j.op = "mixed" /\ at = "insert" /\ j.at = 1 /\ j.tally = NoKinds
               \/ j.op = "reset" /\ at = "truncate"
<1>1. \E j \in Job : \E at : Begun(j, at)
  BY CallDoes
<1> HIDE DEF Begun
<1>2. PICK j \in Job : \E at : Begun(j, at)
  BY <1>1
<1>3. PICK at : Begun(j, at)
  BY <1>2
<1> USE DEF Begun
<1>4. job'[w] = j /\ pc'[w] = at
  BY <1>3 DEF Moves, RoutingType
<1>. QED
  BY <1>3, <1>4

(***************************************************************************)
(* A mixed batch on its way: it has written a receipt for every request    *)
(* before its place, and tallied it.                                       *)
(***************************************************************************)
TallyInv == \A w \in Workers : job[w].op = "mixed" =>
    /\ pc[w] # "save" => KindTotal(job[w].tally) = job[w].at - 1
    /\ pc[w] = "insert" => ops[job[w].id].rows = job[w].at - 1
    /\ pc[w] # "insert" => ops[job[w].id].rows = job[w].at
    /\ pc[w] = "save" => /\ job[w].at = Len(MixedPlan)
                         /\ KindTotal(job[w].tally) = Len(MixedPlan)

\* Records of the other threads' handlers
LEMMA OthersRecords ==
    ASSUME RoutingType, NumbersInv, NEW w \in Workers,
           Call(w) \/ Step(w) \/ Fail(w), ~ClearReceipts(w)
    PROVE  /\ \A v \in Workers \ {w} : job[v].op \in Writers =>
                 ops'[job[v].id] = ops[job[v].id]
           /\ \A i \in 1..Len(ops) : ops[i].done => i \in 1..Len(ops') /\ ops'[i] = ops[i]
<1>0. Len(ops) \in Nat
  BY DEF RoutingType
<1>1. \A v \in Workers \ {w} : job[v].op \in Writers =>
         /\ job[v].id \in 1..Len(ops)
         /\ job[w].op \in Writers => job[w].id # job[v].id
  BY DEF NumbersInv
<1>2. CASE OpensOne(w)
  BY <1>0, <1>1, <1>2 DEF OpensOne
<1>3. ASSUME NEW n, ChangesOne(w, n)
      PROVE  /\ \A v \in Workers \ {w} : job[v].op \in Writers =>
                    ops'[job[v].id] = ops[job[v].id]
             /\ \A i \in 1..Len(ops) : ops[i].done => i \in 1..Len(ops') /\ ops'[i] = ops[i]
  BY <1>1, <1>3 DEF ChangesOne
<1>4. CASE ops' = ops
  BY <1>4
<1>. QED
  BY <1>2, <1>3, <1>4, RecordSteps DEF Step

LEMMA TallyStep ==
    ASSUME CleanResets, RoutingType, NumbersInv, AloneInv, TallyInv,
           NEW w \in Workers, Call(w) \/ Step(w) \/ Fail(w)
    PROVE  TallyInv'
<1>0. \A v \in Workers \ {w} : job'[v] = job[v] /\ pc'[v] = pc[v]
  BY Others
<1>00. \A j, at : Moves(w, j, at) => job'[w] = j /\ pc'[w] = at
  BY DEF Moves, RoutingType
<1>000. NoJob.op # "mixed" /\ "mixed" \in Writers
  BY DEF NoJob, Writers
<1>1. \A v \in Workers \ {w} : job'[v].op = "mixed" =>
         ops'[job'[v].id] = ops[job[v].id] /\ job'[v] = job[v] /\ pc'[v] = pc[v]
  <2> SUFFICES ASSUME NEW v \in Workers \ {w}, job[v].op = "mixed"
               PROVE  ops'[job[v].id] = ops[job[v].id]
    BY <1>0
  <2>1. ~ClearReceipts(w)
    <3>1. job[v] \in Job /\ JobAt(job[v], pc[v])
      BY DEF RoutingType
    <3>2. pc[v] # "idle"
      BY <3>1, Places DEF NoJob
    <3>. QED
      BY <3>2, ResetsAlone DEF ResetStep, Idle
  <2>. QED
    BY <1>000, <2>1, OthersRecords
<1>2. job'[w].op = "mixed" =>
    /\ pc'[w] # "save" => KindTotal(job'[w].tally) = job'[w].at - 1
    /\ pc'[w] = "insert" => ops'[job'[w].id].rows = job'[w].at - 1
    /\ pc'[w] # "insert" => ops'[job'[w].id].rows = job'[w].at
    /\ pc'[w] = "save" => /\ job'[w].at = Len(MixedPlan)
                          /\ KindTotal(job'[w].tally) = Len(MixedPlan)
  <2> SUFFICES ASSUME job'[w].op = "mixed"
               PROVE
                  /\ pc'[w] # "save" => KindTotal(job'[w].tally) = job'[w].at - 1
                  /\ pc'[w] = "insert" => ops'[job'[w].id].rows = job'[w].at - 1
                  /\ pc'[w] # "insert" => ops'[job'[w].id].rows = job'[w].at
                  /\ pc'[w] = "save" => /\ job'[w].at = Len(MixedPlan)
                                        /\ KindTotal(job'[w].tally) = Len(MixedPlan)
    OBVIOUS
  <2>1. CASE Call(w)
    <3>2. /\ job'[w].at = 1 /\ job'[w].tally = NoKinds /\ pc'[w] = "insert"
          /\ job'[w].id = Len(ops) + 1
          /\ ops' = Append(ops, [op |-> "mixed", rows |-> 0, done |-> FALSE])
      BY <2>1, MixedOpens
    <3>3. ops'[job'[w].id].rows = 0
      BY <3>2 DEF RoutingType
    <3>4. KindTotal(NoKinds) = 0
      BY DEF KindTotal, NoKinds, Kinds
    <3>. QED
      BY <3>2, <3>3, <3>4
  <2>2. CASE InsertReceipt(w)
    <3>1. job'[w] = job[w] /\ pc'[w] = "count" /\ job[w].op = "mixed" /\ pc[w] = "insert"
      BY <1>00, <1>000, <2>2, InsertDoes DEF InsertReceipt
    <3>2. ops'[job[w].id].rows = ops[job[w].id].rows + 1
      BY <2>2, RecordSteps DEF ChangesOne
    <3>3. job[w].at \in 1..Len(MixedPlan) /\ Len(MixedPlan) \in Nat
      BY <3>1, Locals, PlanRows DEF RoutingType
    <3>. QED
      BY <3>1, <3>2, <3>3 DEF TallyInv
  <2>3. CASE MixedIncr(w)
    <3>1. /\ job[w].op = "mixed" /\ job[w].at \in 1..Len(MixedPlan) /\ pc[w] = "count"
          /\ job[w] \in MixedJob /\ job[w].row.kind \in Kinds
      BY <2>3, MixedDoes DEF MixedIncr
    <3>2. PICK j \in MixedJob, at \in {"insert", "save"} :
             /\ Moves(w, j, at) /\ j.id = job[w].id
             /\ j.tally = [job[w].tally EXCEPT ![job[w].row.kind] = @ + 1]
             /\ \/ at = "insert" /\ j.at = job[w].at + 1
                \/ at = "save" /\ j.at = job[w].at /\ j.at = Len(MixedPlan)
      BY <2>3, MixedDoes
    <3>3. job'[w] = j /\ pc'[w] = at /\ ops' = ops
      BY <1>00, <2>3, <3>2, RecordSteps
    <3>4. KindTotal(j.tally) = KindTotal(job[w].tally) + 1 /\ KindTotal(job[w].tally) \in Nat
      <4> DEFINE f == job[w].tally
                 k == job[w].row.kind
      <4>1. f \in [Kinds -> Nat] /\ k \in Kinds
        BY <3>1 DEF MixedJob
      <4>2. j.tally = [f EXCEPT ![k] = @ + 1]
        BY <3>2
      <4> HIDE DEF f, k
      <4>3. KindTotal(j.tally) = KindTotal(f) + 1 /\ KindTotal(f) \in Nat
        BY <4>1, <4>2, Tallied
      <4>. QED
        BY <4>3 DEF f
    <3>5. /\ KindTotal(job[w].tally) = job[w].at - 1
          /\ ops[job[w].id].rows = job[w].at
      BY <3>1 DEF TallyInv
    <3>6. job[w].at \in Int /\ KindTotal(j.tally) = job[w].at
      BY <3>1, <3>4, <3>5, PlanRows
    <3>7. CASE at = "insert" /\ j.at = job[w].at + 1
      BY <3>2, <3>3, <3>5, <3>6, <3>7
    <3>8. CASE at = "save" /\ j.at = job[w].at /\ j.at = Len(MixedPlan)
      BY <3>2, <3>3, <3>5, <3>6, <3>8
    <3>. QED
      BY <3>2, <3>7, <3>8
  <2>4. ~NextSeq(w) /\ ~IncrCount(w)
    BY SameHandler
  <2>5. ~SetLastBatch(w) /\ ~SmartIncr(w) /\ ~SetMixedBatch(w) /\ ~Decide(w) /\ ~Fail(w)
    BY <1>00, <1>000, SaveDoes, DecideDoes, FailDoes DEF Closes
  <2>6. ~ResetStep(w)
    <3>1. ResetStep(w) => job'[w] = job[w] \/ job'[w] = NoJob
      BY <1>00, ResetDoes DEF ResetStep
    <3>. QED
      BY <1>000, <3>1, ResetsAlone
  <2>7. ~ReadSources(w)
    <3> SUFFICES ASSUME NEW at, NEW next, NEW field, NEW value,
                        ReadInto(w, at, next, field, value)
                 PROVE  FALSE
      BY ReadDoes
    <3> DEFINE j == [job[w] EXCEPT ![field] = value]
    <3>1. j \in ReadJob /\ Moves(w, j, next)
      BY DEF ReadInto
    <3> HIDE DEF j
    <3>. QED
      BY <1>00, <3>1 DEF ReadJob
  <2>. QED
    BY <2>1, <2>2, <2>3, <2>4, <2>5, <2>6, <2>7 DEF Step, ResetStep
<1>3. \A v \in Workers \ {w} : job'[v].op = "mixed" =>
    /\ pc'[v] # "save" => KindTotal(job'[v].tally) = job'[v].at - 1
    /\ pc'[v] = "insert" => ops'[job'[v].id].rows = job'[v].at - 1
    /\ pc'[v] # "insert" => ops'[job'[v].id].rows = job'[v].at
    /\ pc'[v] = "save" => /\ job'[v].at = Len(MixedPlan)
                          /\ KindTotal(job'[v].tally) = Len(MixedPlan)
  BY <1>1 DEF TallyInv
<1>. QED
  BY <1>2, <1>3 DEF TallyInv

(***************************************************************************)
(* The saved summary is that of one whole batch.                           *)
(***************************************************************************)
WholeBatch(i) == ops[i].op = "mixed" /\ ops[i].done /\ ops[i].rows = Len(MixedPlan)

BatchInv == KindTotal(mixedBatch) > 0 /\ ~Resetting =>
    KindTotal(mixedBatch) = Len(MixedPlan) /\ \E i \in 1..Len(ops) : WholeBatch(i)

LEMMA WholeKept ==
    ASSUME RoutingType, NumbersInv, NEW w \in Workers,
           Call(w) \/ Step(w) \/ Fail(w), ~ClearReceipts(w),
           \E i \in 1..Len(ops) : WholeBatch(i)
    PROVE  \E i \in 1..Len(ops') : WholeBatch(i)'
<1>1. PICK i \in 1..Len(ops) : WholeBatch(i)
  OBVIOUS
<1>2. i \in 1..Len(ops') /\ ops'[i] = ops[i]
  BY <1>1, OthersRecords DEF WholeBatch
<1>. QED
  BY <1>1, <1>2 DEF WholeBatch

LEMMA SummarySteps ==
    ASSUME RoutingType, NumbersInv, NEW w \in Workers, Call(w) \/ Step(w) \/ Fail(w)
    PROVE  \/ SetMixedBatch(w)
           \/ ResetMixed(w) /\ mixedBatch' = NoKinds
           \/ mixedBatch' = mixedBatch
<1>1. Call(w) \/ ReadSources(w) \/ Decide(w) \/ Fail(w) => mixedBatch' = mixedBatch
  BY CallDoes, ReadDoes, DecideDoes, FailDoes DEF stores, mixedKeys
<1>2. \/ NextSeq(w) \/ InsertReceipt(w) \/ IncrCount(w) \/ SetLastBatch(w) \/ SmartIncr(w)
      \/ MixedIncr(w) \/ ClearReceipts(w) \/ ResetRouting(w) \/ ResetSmart(w)
      => mixedBatch' = mixedBatch
  BY DEF NextSeq, InsertReceipt, IncrCount, SetLastBatch, SmartIncr, MixedIncr,
         ClearReceipts, ResetRouting, ResetSmart, mixedKeys
<1>3. ResetMixed(w) => mixedBatch' = NoKinds
  BY DEF ResetMixed
<1>. QED
  BY <1>1, <1>2, <1>3 DEF Step

LEMMA BatchStep ==
    ASSUME CleanResets, RoutingType, NumbersInv, AloneInv, TallyInv, BatchInv,
           NEW w \in Workers, Call(w) \/ Step(w) \/ Fail(w)
    PROVE  BatchInv'
<1> SUFFICES ASSUME KindTotal(mixedBatch') > 0, ~Resetting'
             PROVE  /\ KindTotal(mixedBatch') = Len(MixedPlan)
                    /\ \E i \in 1..Len(ops') : WholeBatch(i)'
  BY DEF BatchInv, KindTotal
<1>1. CASE ~Resetting /\ mixedBatch' = mixedBatch
  <2>1. ~ClearReceipts(w)
    BY <1>1, ResetsAlone DEF ResetStep
  <2>. QED
    BY <1>1, <2>1, WholeKept DEF BatchInv
<1>2. CASE SetMixedBatch(w)
  <2>1. /\ mixedBatch' = job[w].tally /\ pc[w] = "save" /\ job[w].op = "mixed"
    BY <1>2 DEF SetMixedBatch
  <2>2. /\ KindTotal(job[w].tally) = Len(MixedPlan)
        /\ ops[job[w].id].rows = Len(MixedPlan)
    BY <2>1 DEF TallyInv
  <2>3. ChangesOne(w, ops[job[w].id].rows) /\ ops'[job[w].id].done
    BY <1>2, RecordSteps
  <2>4. PICK d \in 1..Len(ops) : d = job[w].id
    BY <2>3 DEF ChangesOne
  <2>5. d \in 1..Len(ops') /\ WholeBatch(d)'
    BY <2>1, <2>2, <2>3, <2>4 DEF ChangesOne, WholeBatch
  <2>. QED
    BY <2>1, <2>2, <2>5
<1>3. ~(ResetMixed(w) /\ mixedBatch' = NoKinds)
  <2>1. KindTotal(NoKinds) = 0
    BY DEF KindTotal, NoKinds, Kinds
  <2>. QED
    BY <2>1
<1>4. Resetting => ResetMixed(w)
  <2> SUFFICES ASSUME Resetting, ~ResetMixed(w) PROVE FALSE
    OBVIOUS
  <2>1. job[w].op = "reset" /\ ResetStep(w)
    BY ResetsAlone
  <2>2. job'[w] = job[w]
    BY <2>1, ResetDoes DEF ResetStep, Moves, RoutingType
  <2>. QED
    BY <2>1, <2>2 DEF Resetting
<1>5. ResetMixed(w) => mixedBatch' = NoKinds
  BY DEF ResetMixed
<1>. QED
  BY <1>1, <1>2, <1>3, <1>4, <1>5, SummarySteps

(***************************************************************************)
(* A disposition on its way: once it holds a summary, its call has seen    *)
(* the ledger with that batch alone, or the ledger holds more for good.    *)
(***************************************************************************)
ReadInv == \A w \in Workers : Reads(w) /\ pc[w] # "read_api" /\ KindTotal(job[w].api) > 0 =>
    /\ KindTotal(job[w].api) = Len(MixedPlan)
    /\ seen[w] \/ CountReceipts > Len(MixedPlan)
    /\ pc[w] = "read_policies" /\ job[w].total = KindTotal(job[w].api) => seen[w]

LEMMA WholeOrMore ==
    ASSUME RoutingType, RowsInv, \E i \in 1..Len(ops) : WholeBatch(i)
    PROVE  OneWholeBatch \/ CountReceipts > Len(MixedPlan)
<1>1. PICK i \in 1..Len(ops) : WholeBatch(i)
  OBVIOUS
<1>2. DOMAIN ops = 1..Len(ops) /\ \A j \in 1..Len(ops) : ops[j] \in Op
  BY DEF RoutingType
<1>3. \A j \in 1..Len(ops) : ops[j].rows \in Nat
  BY <1>2 DEF Op
<1>4. CountReceipts \in Nat /\ Len(MixedPlan) \in Nat
  BY RowCounts, PlanRows
<1>5. CASE \A j \in 1..Len(ops) \ {i} : ops[j].rows = 0
  BY <1>1, <1>2, <1>5 DEF OneWholeBatch, WholeBatch
<1>6. CASE \E j \in 1..Len(ops) \ {i} : ops[j].rows # 0
  <2>1. PICK j \in 1..Len(ops) \ {i} : ops[j].rows # 0
    BY <1>6
  <2>2. ops[i].rows + ops[j].rows <= CountReceipts /\ ops[i].rows = Len(MixedPlan)
    BY <1>1, <2>1 DEF RowsInv, WholeBatch
  <2>. QED
    BY <1>3, <1>4, <2>1, <2>2
<1>. QED
  BY <1>5, <1>6

LEMMA SeenKept ==
    ASSUME RoutingType, Observe, NEW v \in Workers, Reads(v)'
    PROVE  /\ Reads(v) /\ seen[v] => seen'[v]
           /\ OneWholeBatch' => seen'[v]
BY DEF Observe

\* The count of the ledger only grows while a call reads.
LEMMA CountGrows ==
    ASSUME RoutingType, NumbersInv, NEW w \in Workers,
           Call(w) \/ Step(w) \/ Fail(w), ~ClearReceipts(w)
    PROVE  CountReceipts' \in Nat /\ CountReceipts \in Nat /\ CountReceipts' >= CountReceipts
BY InsertCounts, LedgerSteps, CountsKept, RowCounts

\* The mover is a reader after the step only if it starts, or reads on.
LEMMA ReadersMove ==
    ASSUME RoutingType, NumbersInv, NEW w \in Workers,
           Call(w) \/ Step(w) \/ Fail(w), Reads(w)', pc'[w] # "read_api"
    PROVE  ReadSources(w)
<1>1. \A j, at : Moves(w, j, at) => job'[w] = j /\ pc'[w] = at
  BY DEF Moves, RoutingType
<1>2. NoJob.op # "disposition"
  BY DEF NoJob
<1>3. job'[w].op = "disposition"
  BY DEF Reads
<1>4. ~Call(w)
  <2> SUFFICES ASSUME Call(w) PROVE FALSE
    OBVIOUS
  <2>1. PICK j, at : /\ j \in Job
                     /\ Moves(w, j, at)
                     /\ \/ j.op = "disposition" /\ at = "read_api"
                        \/ j.op \in Writers
    BY CallDoes
  <2>. QED
    BY <1>1, <1>3, <2>1 DEF Writers
<1>5. ~NextSeq(w) /\ ~IncrCount(w) /\ ~MixedIncr(w)
  BY <1>3, SameHandler
<1>6. ~InsertReceipt(w) /\ ~Decide(w) /\ ~Fail(w)
  BY <1>1, <1>2, <1>3, InsertDoes, DecideDoes, FailDoes
<1>7. ~SetLastBatch(w) /\ ~SmartIncr(w) /\ ~SetMixedBatch(w)
  BY <1>1, <1>2, <1>3, SaveDoes DEF Closes
<1>8. ~ResetStep(w)
  <2>1. ResetStep(w) => job[w] \in ResetJob /\ (job'[w] = job[w] \/ job'[w] = NoJob)
    BY <1>1, ResetDoes DEF ResetStep
  <2>. QED
    BY <1>2, <1>3, <2>1 DEF ResetJob
<1>. QED
  BY <1>4, <1>5, <1>6, <1>7, <1>8 DEF Step, ResetStep

\* What one read leaves in the locals
LEMMA ReadLocals ==
    ASSUME RoutingType, NEW w \in Workers, ReadSources(w)
    PROVE  /\ job[w] \in ReadJob /\ Reads(w)
           /\ \/ pc[w] = "read_api" /\ job'[w].api = mixedBatch /\ pc'[w] = "read_redis"
              \/ /\ pc[w] # "read_api" /\ job'[w].api = job[w].api
                 /\ pc'[w] = "read_policies" => job'[w].total = CountReceipts
<1>1. \A j, at : Moves(w, j, at) => job'[w] = j /\ pc'[w] = at
  BY DEF Moves, RoutingType
<1>2. CASE ReadInto(w, "read_api", "read_redis", "api", mixedBatch)
  BY <1>1, <1>2 DEF ReadInto, Reads, ReadJob
<1>3. CASE ReadInto(w, "read_redis", "read_kinds", "redis", mixed)
  BY <1>1, <1>3 DEF ReadInto, Reads, ReadJob
<1>4. CASE ReadInto(w, "read_kinds", "read_total", "rows", CountByKind)
  BY <1>1, <1>4 DEF ReadInto, Reads, ReadJob
<1>5. CASE ReadInto(w, "read_total", "read_policies", "total", CountReceipts)
  BY <1>1, <1>5 DEF ReadInto, Reads, ReadJob
<1>. QED
  BY <1>2, <1>3, <1>4, <1>5, ReadDoes

LEMMA ReadStep ==
    ASSUME CleanResets, RoutingType, NumbersInv, AloneInv, RowsInv, BatchInv, ReadInv,
           NEW w \in Workers, Call(w) \/ Step(w) \/ Fail(w), Observe
    PROVE  ReadInv'
<1>0. Len(MixedPlan) \in Nat
  BY PlanRows
<1>1. ASSUME NEW v \in Workers \ {w}, Reads(v)', pc'[v] # "read_api",
             KindTotal(job'[v].api) > 0
      PROVE  /\ KindTotal(job'[v].api) = Len(MixedPlan)
             /\ seen'[v] \/ CountReceipts' > Len(MixedPlan)
             /\ pc'[v] = "read_policies" /\ job'[v].total = KindTotal(job'[v].api) => seen'[v]
  <2>1. job'[v] = job[v] /\ pc'[v] = pc[v] /\ Reads(v)
    BY <1>1, Others DEF Reads
  <2>2. ~ClearReceipts(w)
    <3>1. job[v] \in Job /\ JobAt(job[v], pc[v])
      BY DEF RoutingType
    <3>2. pc[v] # "idle"
      BY <2>1, <3>1, Places DEF NoJob, Reads
    <3>. QED
      BY <3>2, ResetsAlone DEF ResetStep, Idle
  <2>3. seen[v] => seen'[v]
    BY <1>1, <2>1, SeenKept
  <2>4. CountReceipts > Len(MixedPlan) => CountReceipts' > Len(MixedPlan)
    BY <1>0, <2>2, CountGrows
  <2>5. /\ KindTotal(job[v].api) = Len(MixedPlan)
        /\ seen[v] \/ CountReceipts > Len(MixedPlan)
        /\ pc[v] = "read_policies" /\ job[v].total = KindTotal(job[v].api) => seen[v]
    BY <1>1, <2>1 DEF ReadInv
  <2>. QED
    BY <2>1, <2>3, <2>4, <2>5
<1>2. ASSUME Reads(w)', pc'[w] # "read_api", KindTotal(job'[w].api) > 0
      PROVE  /\ KindTotal(job'[w].api) = Len(MixedPlan)
             /\ seen'[w] \/ CountReceipts' > Len(MixedPlan)
             /\ pc'[w] = "read_policies" /\ job'[w].total = KindTotal(job'[w].api) => seen'[w]
  <2>1. ReadSources(w)
    BY <1>2, ReadersMove
  <2>2. UNCHANGED <<ledger, ops>> /\ CountReceipts' = CountReceipts
    BY <2>1, ReadDoes, CountsKept DEF stores, history
  <2>3. CASE pc[w] = "read_api" /\ job'[w].api = mixedBatch /\ pc'[w] = "read_redis"
    <3>1. ~Resetting
      <4>1. job[w].op # "reset"
        BY <2>1, ReadLocals DEF Reads
      <4>. QED
        BY <4>1, ResetsAlone
    <3>2. /\ KindTotal(mixedBatch) = Len(MixedPlan)
          /\ \E i \in 1..Len(ops) : WholeBatch(i)
      BY <1>2, <2>3, <3>1 DEF BatchInv
    <3>3. OneWholeBatch' \/ CountReceipts > Len(MixedPlan)
      BY <2>2, <3>2, WholeOrMore DEF OneWholeBatch
    <3>. QED
      BY <1>2, <2>2, <2>3, <3>2, <3>3, SeenKept
  <2>4. CASE /\ pc[w] # "read_api" /\ job'[w].api = job[w].api
             /\ pc'[w] = "read_policies" => job'[w].total = CountReceipts
    <3>1. Reads(w)
      BY <2>1, ReadLocals
    <3>2. /\ KindTotal(job[w].api) = Len(MixedPlan)
          /\ seen[w] \/ CountReceipts > Len(MixedPlan)
      BY <1>2, <2>4, <3>1 DEF ReadInv
    <3>3. seen[w] => seen'[w]
      BY <1>2, <3>1, SeenKept
    <3>. QED
      BY <1>0, <2>2, <2>4, <3>2, <3>3
  <2>. QED
    BY <2>1, <2>3, <2>4, ReadLocals
<1>. QED
  BY <1>1, <1>2 DEF ReadInv, Reads, KindTotal

LEMMA DecideOk ==
    ASSUME RoutingType, NumbersInv, ReadInv, ConfirmedIsOneWholeBatch,
           NEW w \in Workers, Call(w) \/ Step(w) \/ Fail(w)
    PROVE  ConfirmedIsOneWholeBatch'
<1>1. CASE Decide(w)
  <2>1. /\ pc[w] = "read_policies" /\ Reads(w)
        /\ \/ reports' = reports
           \/ /\ reports' = reports \union {[whole |-> seen[w]]}
              /\ Confirmed(job[w].api, job[w].redis, job[w].rows, job[w].total,
                           InconsistentReceipts)
    BY <1>1, DecideDoes DEF Decide, Reads
  <2>2. Confirmed(job[w].api, job[w].redis, job[w].rows, job[w].total,
                  InconsistentReceipts) => seen[w]
    BY <2>1 DEF Confirmed, ReadInv
  <2>. QED
    BY <2>1, <2>2 DEF ConfirmedIsOneWholeBatch
<1>2. CASE ~Decide(w)
  <2>1. reports' = reports
    <3>1. Call(w) \/ ReadSources(w) \/ Fail(w) => reports' = reports
      BY CallDoes, ReadDoes, FailDoes DEF history
    <3>2. \/ NextSeq(w) \/ InsertReceipt(w) \/ IncrCount(w) \/ SetLastBatch(w)
          \/ SmartIncr(w) \/ MixedIncr(w) \/ SetMixedBatch(w) \/ ResetStep(w)
          => reports' = reports
      BY DEF NextSeq, InsertReceipt, IncrCount, SetLastBatch, SmartIncr, MixedIncr,
             SetMixedBatch, ResetStep, ClearReceipts, ResetRouting, ResetSmart, ResetMixed,
             history
    <3>. QED
      BY <1>2, <3>1, <3>2 DEF Step, ResetStep
  <2>. QED
    BY <2>1 DEF ConfirmedIsOneWholeBatch
<1>. QED
  BY <1>1, <1>2

(***************************************************************************)
(* No counter ahead of its receipts; none behind while nothing failed.     *)
(***************************************************************************)
\* A thread whose receipt is written and not counted yet
CountsFor(w, k) == pc[w] = "count" /\ job[w].row.kind = k
Counting(k) == Cardinality({w \in Workers : pc[w] = "count" /\ job[w].row.kind = k})

\* Nothing has failed since the last reset
Undisturbed == faults = since.faults

KindCounted(k) ==
    /\ CountByKind[k] >= mixed[k] + TalliedAlone[k] + Counting(k)
    /\ Undisturbed => CountByKind[k] = mixed[k] + TalliedAlone[k] + Counting(k)

\* LedgerCounted in these terms
LEMMA LedgerCountedIs ==
    /\ LedgerCounted <=> (~Resetting => \A k \in Kinds : KindCounted(k))
    /\ LedgerCounted' <=> (~Resetting' => \A k \in Kinds : KindCounted(k)')
BY DEF LedgerCounted, KindCounted, Counting, Undisturbed

LEMMA CountingStep ==
    ASSUME NEW k \in Kinds, NEW w \in Workers,
           \A v \in Workers \ {w} : CountsFor(v, k)' <=> CountsFor(v, k)
    PROVE  /\ Counting(k) \in Nat /\ Counting(k)' \in Nat
           /\ (CountsFor(w, k)' <=> CountsFor(w, k)) => Counting(k)' = Counting(k)
           /\ CountsFor(w, k)' /\ ~CountsFor(w, k) => Counting(k)' = Counting(k) + 1
           /\ ~CountsFor(w, k)' /\ CountsFor(w, k) => Counting(k) = Counting(k)' + 1
<1> DEFINE old == {v \in Workers : CountsFor(v, k)}
           new == {v \in Workers : CountsFor(v, k)'}
<1>1. Counting(k) = Cardinality(old)
  BY DEF Counting, CountsFor
<1>2. Counting(k)' = Cardinality(new)
  BY DEF Counting, CountsFor
<1>3. IsFiniteSet(old) /\ IsFiniteSet(new)
  BY FinitePool, FS_Subset
<1>4. w \in old <=> CountsFor(w, k)
  OBVIOUS
<1>5. w \in new <=> CountsFor(w, k)'
  OBVIOUS
<1>6. \A v \in Workers \ {w} : v \in new <=> v \in old
  OBVIOUS
<1>7. old \subseteq Workers /\ new \subseteq Workers
  OBVIOUS
<1> HIDE DEF old, new
<1>8. w \notin old => Cardinality(old \union {w}) = Cardinality(old) + 1
  BY <1>3, FS_AddElement
<1>9. w \notin new => Cardinality(new \union {w}) = Cardinality(new) + 1
  BY <1>3, FS_AddElement
<1>10. /\ (w \in new <=> w \in old) => new = old
       /\ w \in new /\ w \notin old => new = old \union {w}
       /\ w \notin new /\ w \in old => old = new \union {w}
  BY <1>6, <1>7
<1>11. Cardinality(old) \in Nat /\ Cardinality(new) \in Nat
  BY <1>3, FS_CardinalityType
<1>. QED
  BY <1>1, <1>2, <1>4, <1>5, <1>8, <1>9, <1>10, <1>11

LEMMA TalliesAre ==
    /\ TalliedAlone["weighted"] = TotalOf(counters)
    /\ TalliedAlone["payload"] = smart["simple"] + smart["moderate"] + smart["complex"]
    /\ TalliedAlone["override"] = smart["bulk_batch"] + smart["legal_review"]
                                    + smart["code_generation"]
    /\ Kinds = {"weighted", "payload", "override"}
BY DEF TalliedAlone, Kinds

LEMMA TalliesType ==
    ASSUME RoutingType
    PROVE  /\ \A k \in Kinds : TalliedAlone[k] \in Nat /\ mixed[k] \in Nat /\ CountByKind[k] \in Nat
           /\ \A d \in Dimensions : smart[d] \in Nat
           /\ \A m \in Models : counters[m] \in Nat
<1>1. \A m \in Models : counters[m] \in Nat
  BY DEF RoutingType
<1>2. \A d \in Dimensions : smart[d] \in Nat
  BY DEF RoutingType
<1>3. /\ DOMAIN ComplexityTiers = {"simple", "moderate", "complex"}
      /\ DOMAIN OverrideRules = {"bulk_batch", "legal_review", "code_generation"}
  BY DEF ComplexityTiers, OverrideRules
<1>4. \A k \in Kinds : TalliedAlone[k] \in Nat
  BY <1>1, <1>2, <1>3, TalliesAre, TiersAre DEF Dimensions, TotalOf
<1>. QED
  BY <1>1, <1>2, <1>4, RowCounts DEF RoutingType

\* One weighted request counted
LEMMA WeightedTally ==
    ASSUME RoutingType, NEW m \in Models, counters' = [counters EXCEPT ![m] = @ + 1],
           smart' = smart
    PROVE  /\ TalliedAlone'["weighted"] = TalliedAlone["weighted"] + 1
           /\ TalliedAlone'["payload"] = TalliedAlone["payload"]
           /\ TalliedAlone'["override"] = TalliedAlone["override"]
<1>1. \A n \in Models : counters[n] \in Nat
  BY TalliesType
<1>2. /\ counters'[m] = counters[m] + 1
      /\ \A n \in Models \ {m} : counters'[n] = counters[n]
  BY DEF RoutingType
<1>3. /\ TalliedAlone'["weighted"] = counters'["econo-mini"] + counters'["balanced-std"]
                                        + counters'["premium-max"]
      /\ TalliedAlone["weighted"] = counters["econo-mini"] + counters["balanced-std"]
                                        + counters["premium-max"]
  BY DEF TalliedAlone, Kinds, TotalOf
<1>4. TalliedAlone'["weighted"] = TalliedAlone["weighted"] + 1
  BY <1>1, <1>2, <1>3, TiersAre
<1>5. /\ TalliedAlone'["payload"] = TalliedAlone["payload"]
      /\ TalliedAlone'["override"] = TalliedAlone["override"]
  BY DEF TalliedAlone, Kinds
<1>. QED
  BY <1>4, <1>5

\* One payload or override request counted
LEMMA SmartTally ==
    ASSUME RoutingType, NEW d \in Dimensions, smart' = [smart EXCEPT ![d] = @ + 1],
           counters' = counters
    PROVE  /\ TalliedAlone'["weighted"] = TalliedAlone["weighted"]
           /\ d \in DOMAIN ComplexityTiers =>
                /\ TalliedAlone'["payload"] = TalliedAlone["payload"] + 1
                /\ TalliedAlone'["override"] = TalliedAlone["override"]
           /\ d \in DOMAIN OverrideRules =>
                /\ TalliedAlone'["payload"] = TalliedAlone["payload"]
                /\ TalliedAlone'["override"] = TalliedAlone["override"] + 1
<1>1. \A e \in Dimensions : smart[e] \in Nat
  BY TalliesType
<1>2. /\ smart'[d] = smart[d] + 1
      /\ \A e \in Dimensions \ {d} : smart'[e] = smart[e]
  BY DEF RoutingType
<1>3. /\ DOMAIN ComplexityTiers = {"simple", "moderate", "complex"}
      /\ DOMAIN OverrideRules = {"bulk_batch", "legal_review", "code_generation"}
  BY DEF ComplexityTiers, OverrideRules
<1>4. Dimensions = {"simple", "moderate", "complex", "bulk_batch", "legal_review",
                    "code_generation"}
  BY <1>3 DEF Dimensions
<1>5. /\ TalliedAlone["payload"] = smart["simple"] + smart["moderate"] + smart["complex"]
      /\ TalliedAlone["override"] = smart["bulk_batch"] + smart["legal_review"]
                                        + smart["code_generation"]
  BY TalliesAre
<1>6. /\ TalliedAlone'["payload"] = smart'["simple"] + smart'["moderate"] + smart'["complex"]
      /\ TalliedAlone'["override"] = smart'["bulk_batch"] + smart'["legal_review"]
                                        + smart'["code_generation"]
  BY DEF TalliedAlone, Kinds
<1>7. TalliedAlone'["weighted"] = TalliedAlone["weighted"]
  BY DEF TalliedAlone, Kinds
<1>8. \A e \in Dimensions : e # d => smart'[e] = smart[e]
  BY <1>2
<1>9. /\ smart["simple"] \in Nat /\ smart["moderate"] \in Nat /\ smart["complex"] \in Nat
      /\ smart["bulk_batch"] \in Nat /\ smart["legal_review"] \in Nat
      /\ smart["code_generation"] \in Nat
  BY <1>1, <1>4
<1>10. CASE d \in {"simple", "moderate", "complex"}
  <2>1. TalliedAlone'["override"] = TalliedAlone["override"]
    BY <1>4, <1>5, <1>6, <1>8, <1>10
  <2>2. smart'["simple"] + smart'["moderate"] + smart'["complex"]
          = smart["simple"] + smart["moderate"] + smart["complex"] + 1
    <3>1. CASE d = "simple"
      <4>1. /\ smart'["simple"] = smart["simple"] + 1
            /\ smart'["moderate"] = smart["moderate"]
            /\ smart'["complex"] = smart["complex"]
        BY <1>2, <1>4, <1>8, <3>1
      <4>. QED
        BY <1>9, <4>1
    <3>2. CASE d = "moderate"
      <4>1. /\ smart'["simple"] = smart["simple"]
            /\ smart'["moderate"] = smart["moderate"] + 1
            /\ smart'["complex"] = smart["complex"]
        BY <1>2, <1>4, <1>8, <3>2
      <4>. QED
        BY <1>9, <4>1
    <3>3. CASE d = "complex"
      <4>1. /\ smart'["simple"] = smart["simple"]
            /\ smart'["moderate"] = smart["moderate"]
            /\ smart'["complex"] = smart["complex"] + 1
        BY <1>2, <1>4, <1>8, <3>3
      <4>. QED
        BY <1>9, <4>1
    <3>. QED
      BY <1>10, <3>1, <3>2, <3>3
  <2>. QED
    BY <1>3, <1>5, <1>6, <1>7, <1>10, <2>1, <2>2
<1>11. CASE d \in {"bulk_batch", "legal_review", "code_generation"}
  <2>1. TalliedAlone'["payload"] = TalliedAlone["payload"]
    BY <1>4, <1>5, <1>6, <1>8, <1>11
  <2>2. smart'["bulk_batch"] + smart'["legal_review"] + smart'["code_generation"]
          = smart["bulk_batch"] + smart["legal_review"] + smart["code_generation"] + 1
    <3>1. CASE d = "bulk_batch"
      <4>1. /\ smart'["bulk_batch"] = smart["bulk_batch"] + 1
            /\ smart'["legal_review"] = smart["legal_review"]
            /\ smart'["code_generation"] = smart["code_generation"]
        BY <1>2, <1>4, <1>8, <3>1
      <4>. QED
        BY <1>9, <4>1
    <3>2. CASE d = "legal_review"
      <4>1. /\ smart'["bulk_batch"] = smart["bulk_batch"]
            /\ smart'["legal_review"] = smart["legal_review"] + 1
            /\ smart'["code_generation"] = smart["code_generation"]
        BY <1>2, <1>4, <1>8, <3>2
      <4>. QED
        BY <1>9, <4>1
    <3>3. CASE d = "code_generation"
      <4>1. /\ smart'["bulk_batch"] = smart["bulk_batch"]
            /\ smart'["legal_review"] = smart["legal_review"]
            /\ smart'["code_generation"] = smart["code_generation"] + 1
        BY <1>2, <1>4, <1>8, <3>3
      <4> DEFINE a == smart["bulk_batch"]
                 b == smart["legal_review"]
                 c == smart["code_generation"]
      <4>2. a \in Nat /\ b \in Nat /\ c \in Nat
        BY <1>9
      <4> HIDE DEF a, b, c
      <4>3. a + b + (c + 1) = a + b + c + 1
        BY <4>2
      <4>. QED
        BY <4>1, <4>3 DEF a, b, c
    <3>. QED
      BY <1>11, <3>1, <3>2, <3>3
  <2>. QED
    BY <1>3, <1>5, <1>6, <1>7, <1>11, <2>1, <2>2
<1>. QED
  BY <1>4, <1>10, <1>11

LEMMA ZeroTally ==
    ASSUME counters' = NoTiers, smart' = [d \in Dimensions |-> 0]
    PROVE  \A k \in Kinds : TalliedAlone'[k] = 0
<1>1. /\ DOMAIN ComplexityTiers = {"simple", "moderate", "complex"}
      /\ DOMAIN OverrideRules = {"bulk_batch", "legal_review", "code_generation"}
  BY DEF ComplexityTiers, OverrideRules
<1>2. \A d \in Dimensions : smart'[d] = 0
  OBVIOUS
<1>3. \A m \in Models : counters'[m] = 0
  BY DEF NoTiers
<1>4. /\ TalliedAlone'["weighted"] = counters'["econo-mini"] + counters'["balanced-std"]
                                        + counters'["premium-max"]
      /\ TalliedAlone'["payload"] = smart'["simple"] + smart'["moderate"] + smart'["complex"]
      /\ TalliedAlone'["override"] = smart'["bulk_batch"] + smart'["legal_review"]
                                        + smart'["code_generation"]
  BY DEF TalliedAlone, Kinds, TotalOf
<1>. QED
  BY <1>1, <1>2, <1>3, <1>4, TiersAre DEF Dimensions, Kinds

\* The smart counters emptied, the weighted ones kept
LEMMA ZeroSmart ==
    ASSUME NEW k \in Kinds, TalliedAlone[k] \in Nat, counters' = counters,
           smart' = [d \in Dimensions |-> 0]
    PROVE  TalliedAlone'[k] \in Nat /\ TalliedAlone'[k] <= TalliedAlone[k]
<1>1. /\ DOMAIN ComplexityTiers = {"simple", "moderate", "complex"}
      /\ DOMAIN OverrideRules = {"bulk_batch", "legal_review", "code_generation"}
  BY DEF ComplexityTiers, OverrideRules
<1>2. \A d \in Dimensions : smart'[d] = 0
  OBVIOUS
<1>3. CASE k = "weighted"
  <2>1. TalliedAlone'["weighted"] = TalliedAlone["weighted"]
    BY DEF TalliedAlone, Kinds
  <2>. QED
    BY <1>3, <2>1
<1>4. CASE k \in {"payload", "override"}
  <2>1. /\ TalliedAlone'["payload"] = smart'["simple"] + smart'["moderate"] + smart'["complex"]
        /\ TalliedAlone'["override"] = smart'["bulk_batch"] + smart'["legal_review"]
                                          + smart'["code_generation"]
    BY DEF TalliedAlone, Kinds
  <2>2. TalliedAlone'[k] = 0
    BY <1>1, <1>2, <1>4, <2>1 DEF Dimensions
  <2>. QED
    BY <2>2
<1>. QED
  BY <1>3, <1>4, TalliesAre

LEMMA FaultsKept ==
    ASSUME RoutingType, NumbersInv, NEW w \in Workers, Call(w) \/ Step(w) \/ Fail(w)
    PROVE  /\ Fail(w) \/ faults' = faults
           /\ Fail(w) \/ ResetStep(w) \/ since' = since
<1>1. Call(w) \/ ReadSources(w) \/ Decide(w) => faults' = faults /\ since' = since
  BY CallDoes, ReadDoes, DecideDoes DEF history
<1>2. ResetStep(w) => faults' = faults
  BY DEF ResetStep, ClearReceipts, ResetRouting, ResetSmart, ResetMixed, history
<1>3. \/ NextSeq(w) \/ InsertReceipt(w) \/ IncrCount(w) \/ SetLastBatch(w) \/ SmartIncr(w)
      \/ MixedIncr(w) \/ SetMixedBatch(w)
      => faults' = faults /\ since' = since
  BY DEF NextSeq, InsertReceipt, IncrCount, SetLastBatch, SmartIncr, MixedIncr, SetMixedBatch,
         history
<1>. QED
  BY <1>1, <1>2, <1>3 DEF Step, ResetStep

\* A step that is not about receipts leaves the balance of a kind alone.
LEMMA BalanceKept ==
    ASSUME NEW k \in Kinds, NEW w \in Workers, KindCounted(k),
           \A v \in Workers \ {w} : CountsFor(v, k)' <=> CountsFor(v, k),
           CountsFor(w, k)' <=> CountsFor(w, k),
           UNCHANGED <<ledger, mixed, counters, smart>>, Undisturbed' <=> Undisturbed
    PROVE  KindCounted(k)'
<1>1. Counting(k)' = Counting(k)
  BY CountingStep
<1>2. CountByKind' = CountByKind
  BY CountsKept
<1>3. TalliedAlone' = TalliedAlone
  BY DEF TalliedAlone, TotalOf
<1>. QED
  BY <1>1, <1>2, <1>3 DEF KindCounted, Counting, Undisturbed

\* A thread that dies before it counts leaves its receipt uncounted.
LEMMA BalanceLost ==
    ASSUME RoutingType, NEW k \in Kinds, NEW w \in Workers, KindCounted(k),
           \A v \in Workers \ {w} : CountsFor(v, k)' <=> CountsFor(v, k),
           ~CountsFor(w, k)', UNCHANGED <<ledger, mixed, counters, smart>>, ~Undisturbed'
    PROVE  KindCounted(k)'
<1>1. Counting(k) \in Nat /\ Counting(k)' \in Nat /\ Counting(k) >= Counting(k)'
  BY CountingStep
<1>2. CountByKind' = CountByKind
  BY CountsKept
<1>3. TalliedAlone' = TalliedAlone
  BY DEF TalliedAlone, TotalOf
<1>4. TalliedAlone[k] \in Nat /\ mixed[k] \in Nat /\ CountByKind[k] \in Nat
  BY TalliesType
<1>5. CountByKind[k] >= mixed[k] + TalliedAlone[k] + Counting(k)
  BY DEF KindCounted
<1>6. CountByKind[k] >= mixed[k] + TalliedAlone[k] + Counting(k)'
  BY <1>1, <1>4, <1>5
<1>. QED
  BY <1>2, <1>3, <1>6 DEF KindCounted, Counting, Undisturbed

\* The tally of the thread's own kind grows as the thread leaves.
LEMMA BalanceCount ==
    ASSUME RoutingType, NEW k \in Kinds, NEW w \in Workers, KindCounted(k),
           \A v \in Workers \ {w} : CountsFor(v, k)' <=> CountsFor(v, k),
           pc[w] = "count", pc'[w] # "count", ledger' = ledger,
           Undisturbed' <=> Undisturbed, mixed[k] \in Nat, TalliedAlone[k] \in Nat,
           \/ /\ job[w].row.kind = k
              /\ mixed'[k] + TalliedAlone'[k] = mixed[k] + TalliedAlone[k] + 1
           \/ /\ job[w].row.kind # k
              /\ mixed'[k] + TalliedAlone'[k] = mixed[k] + TalliedAlone[k]
    PROVE  KindCounted(k)'
<1>1. CountsFor(w, k) <=> job[w].row.kind = k
  BY DEF CountsFor
<1>2. ~CountsFor(w, k)'
  BY DEF CountsFor
<1>3. CountByKind' = CountByKind
  BY CountsKept
<1>4. /\ Counting(k) \in Nat /\ Counting(k)' \in Nat
      /\ job[w].row.kind = k => Counting(k) = Counting(k)' + 1
      /\ job[w].row.kind # k => Counting(k)' = Counting(k)
  BY <1>1, <1>2, CountingStep
<1>5. /\ CountByKind[k] >= mixed[k] + TalliedAlone[k] + Counting(k)
      /\ Undisturbed => CountByKind[k] = mixed[k] + TalliedAlone[k] + Counting(k)
  BY DEF KindCounted
<1> DEFINE s == mixed'[k] + TalliedAlone'[k]
           t == mixed[k] + TalliedAlone[k]
           c == CountByKind[k]
<1>6. t \in Nat /\ c \in Nat
  BY TalliesType
<1>7. c >= s + Counting(k)' /\ (Undisturbed => c = s + Counting(k)')
  <2>1. c >= t + Counting(k) /\ (Undisturbed => c = t + Counting(k))
    BY <1>5
  <2>2. \/ job[w].row.kind = k /\ s = t + 1
        \/ job[w].row.kind # k /\ s = t
    OBVIOUS
  <2> HIDE DEF s, t, c
  <2>3. t + Counting(k) = s + Counting(k)'
    BY <1>4, <1>6, <2>2
  <2>. QED
    BY <2>1, <2>3
<1>8. /\ CountByKind'[k] >= mixed'[k] + TalliedAlone'[k] + Counting(k)'
      /\ Undisturbed => CountByKind'[k] = mixed'[k] + TalliedAlone'[k] + Counting(k)'
  BY <1>3, <1>7
<1>. QED
  BY <1>8 DEF KindCounted, Counting, Undisturbed

LEMMA CountedStep ==
    ASSUME CleanResets, RoutingType, NumbersInv, AloneInv, LedgerCounted, since.faults <= faults,
           NEW w \in Workers, Call(w) \/ Step(w) \/ Fail(w)
    PROVE  LedgerCounted'
<1> SUFFICES ASSUME ~Resetting', NEW k \in Kinds PROVE KindCounted(k)'
  BY LedgerCountedIs
<1>0. \A j, at : Moves(w, j, at) => job'[w] = j /\ pc'[w] = at
  BY DEF Moves, RoutingType
<1>2. \A v \in Workers \ {w} : job'[v] = job[v] /\ pc'[v] = pc[v]
  BY Others
<1>3. \A v \in Workers \ {w} : CountsFor(v, k)' <=> CountsFor(v, k)
  BY <1>2 DEF CountsFor
<1>4. TalliedAlone[k] \in Nat /\ mixed[k] \in Nat /\ CountByKind[k] \in Nat
  BY TalliesType
<1>5. CASE ResetStep(w)
  <2>1. job[w].op = "reset" /\ \A v \in Workers \ {w} : pc[v] = "idle"
    BY <1>5, ResetsAlone DEF Idle
  <2>2. ResetMixed(w)
    <3>1. ClearReceipts(w) \/ ResetRouting(w) \/ ResetSmart(w) => job'[w] = job[w]
      BY <1>0, ResetDoes
    <3>. QED
      BY <1>5, <2>1, <3>1 DEF ResetStep, Resetting
  <2>3. /\ pc[w] = "reset_mixed" /\ mixed' = NoKinds /\ ledger' = ledger
        /\ counters' = counters /\ smart' = smart
    BY <2>2 DEF ResetMixed, weightedKeys
  <2>4. Receipts = {} /\ counters = NoTiers /\ smart = [d \in Dimensions |-> 0]
    BY <2>1, <2>3 DEF AloneInv
  <2>5. TalliedAlone'[k] = 0
    BY <2>3, <2>4, ZeroTally
  <2>6. CountByKind'[k] = 0
    BY <2>3, <2>4, CountsKept, EmptyCounts
  <2>7. Counting(k)' = 0
    <3>1. pc'[w] = "idle"
      BY <1>0, <2>2, ResetDoes
    <3>2. {v \in Workers : CountsFor(v, k)'} = {}
      BY <1>2, <2>1, <3>1 DEF CountsFor
    <3>. QED
      BY <3>2, FS_EmptySet DEF Counting, CountsFor
  <2>8. mixed'[k] = 0
    BY <2>3 DEF NoKinds
  <2>. QED
    BY <2>5, <2>6, <2>7, <2>8 DEF KindCounted, Counting, Undisturbed
<1>6. ASSUME ~ResetStep(w) PROVE KindCounted(k)'
  <2>0. KindCounted(k)
    <3>1. ~Resetting
      BY <1>6, ResetsAlone
    <3>. QED
      BY <3>1, LedgerCountedIs
  <2>9. Fail(w) \/ (Undisturbed' <=> Undisturbed)
    BY <1>6, FaultsKept DEF Undisturbed
  <2>10. CASE Fail(w)
    <3>1. /\ pc'[w] = "idle" /\ UNCHANGED stores /\ since' = since /\ faults' = faults + 1
      BY <1>0, <2>10, FailDoes
    <3>2. ~Undisturbed'
      BY <3>1 DEF Undisturbed, RoutingType
    <3>. QED
      BY <1>3, <2>0, <3>1, <3>2, BalanceLost DEF CountsFor, stores, weightedKeys, mixedKeys
  <2> SUFFICES ASSUME ~Fail(w) PROVE KindCounted(k)'
    BY <2>10
  <2>11. Undisturbed' <=> Undisturbed
    BY <2>9
  <2>1. CASE Call(w)
    <3>1. /\ pc[w] = "idle" /\ pc'[w] # "count" /\ UNCHANGED stores
      BY <1>0, <2>1, CallDoes
    <3>. QED
      BY <1>3, <2>0, <2>11, <3>1, BalanceKept DEF CountsFor, stores, weightedKeys, mixedKeys
  <2>2. CASE NextSeq(w)
    <3>1. /\ pc[w] = "seq" /\ pc'[w] = "insert" /\ UNCHANGED <<ledger, mixed, counters, smart>>
      BY <1>0, <2>2, NextSeqDoes DEF NextSeq, mixedKeys
    <3>. QED
      BY <1>3, <2>0, <2>11, <3>1, BalanceKept DEF CountsFor
  <2>3. CASE InsertReceipt(w)
    <3>1. /\ pc[w] = "insert" /\ mixed' = mixed /\ counters' = counters /\ smart' = smart
      BY <2>3 DEF InsertReceipt, weightedKeys, mixedKeys
    <3>2. \/ pc'[w] = "idle" /\ job[w].row = BaselineRow
          \/ pc'[w] = "count" /\ job'[w] = job[w]
      BY <1>0, <2>3, InsertDoes
    <3>3. TalliedAlone' = TalliedAlone
      BY <3>1 DEF TalliedAlone, TotalOf
    <3>4. /\ job[w].row.kind = k => CountByKind'[k] = CountByKind[k] + 1
          /\ job[w].row.kind # k => CountByKind'[k] = CountByKind[k]
      BY <2>3, InsertCounts
    <3>5. ~CountsFor(w, k) /\ (CountsFor(w, k)' <=> job[w].row.kind = k)
      BY <3>1, <3>2 DEF CountsFor, BaselineRow, Row, Kinds
    <3>6. /\ Counting(k) \in Nat /\ Counting(k)' \in Nat
          /\ job[w].row.kind = k => Counting(k)' = Counting(k) + 1
          /\ job[w].row.kind # k => Counting(k)' = Counting(k)
      BY <1>3, <3>5, CountingStep
    <3>7. /\ CountByKind[k] >= mixed[k] + TalliedAlone[k] + Counting(k)
          /\ Undisturbed => CountByKind[k] = mixed[k] + TalliedAlone[k] + Counting(k)
      BY <2>0 DEF KindCounted
    <3>8. /\ CountByKind'[k] >= mixed[k] + TalliedAlone[k] + Counting(k)'
          /\ Undisturbed => CountByKind'[k] = mixed[k] + TalliedAlone[k] + Counting(k)'
      <4> DEFINE t == TalliedAlone[k]
                 x == mixed[k]
                 c == CountByKind[k]
                 d == CountByKind'[k]
      <4>1. /\ c >= x + t + Counting(k) /\ (Undisturbed => c = x + t + Counting(k))
            /\ c \in Nat /\ x \in Nat /\ t \in Nat
            /\ \/ d = c + 1 /\ Counting(k)' = Counting(k) + 1
               \/ d = c /\ Counting(k)' = Counting(k)
        BY <1>4, <3>4, <3>6, <3>7
      <4> HIDE DEF t, x, c, d
      <4>2. d >= x + t + Counting(k)' /\ (Undisturbed => d = x + t + Counting(k)')
        BY <3>6, <4>1
      <4>. QED
        BY <4>2 DEF t, x, d
    <3>. QED
      BY <2>11, <3>1, <3>3, <3>8 DEF KindCounted, Counting, Undisturbed
  <2>4. CASE IncrCount(w)
    <3>1. /\ pc[w] = "count" /\ mixed' = mixed /\ smart' = smart /\ ledger' = ledger
          /\ counters' = [counters EXCEPT ![job[w].row.model] = @ + 1]
      BY <2>4 DEF IncrCount, mixedKeys
    <3>2. /\ job[w].row.kind = "weighted" /\ job[w].row.model \in Models /\ pc'[w] # "count"
      BY <1>0, <2>4, CountDoes, RowFields
    <3>3. \/ k = "weighted" /\ TalliedAlone'[k] = TalliedAlone[k] + 1
          \/ k # "weighted" /\ TalliedAlone'[k] = TalliedAlone[k]
      BY <3>1, <3>2, WeightedTally DEF Kinds
    <3>4. \/ k = "weighted" /\ mixed'[k] + TalliedAlone'[k] = mixed[k] + TalliedAlone[k] + 1
          \/ k # "weighted" /\ mixed'[k] + TalliedAlone'[k] = mixed[k] + TalliedAlone[k]
      BY <1>4, <3>1, <3>3
    <3>. QED
      BY <1>3, <1>4, <2>0, <2>11, <3>1, <3>2, <3>4, BalanceCount
  <2>5. CASE SetLastBatch(w) \/ SetMixedBatch(w)
    <3>1. /\ pc[w] = "save" /\ UNCHANGED <<ledger, mixed, counters, smart>>
      BY <2>5 DEF SetLastBatch, SetMixedBatch, mixedKeys, weightedKeys
    <3>2. pc'[w] = "idle"
      BY <1>0, <2>5, SaveDoes DEF Closes
    <3>. QED
      BY <1>3, <2>0, <2>11, <3>1, <3>2, BalanceKept DEF CountsFor
  <2>6. CASE SmartIncr(w)
    <3>1. /\ pc[w] = "count" /\ mixed' = mixed /\ counters' = counters /\ ledger' = ledger
          /\ smart' = [smart EXCEPT ![job[w].dimension] = @ + 1]
      BY <2>6 DEF SmartIncr, mixedKeys, weightedKeys
    <3>2. /\ job[w].dimension \in Dimensions /\ pc'[w] # "count"
          /\ \/ job[w].dimension \in DOMAIN ComplexityTiers /\ job[w].row.kind = "payload"
             \/ job[w].dimension \in DOMAIN OverrideRules /\ job[w].row.kind = "override"
      BY <1>0, <2>6, SaveDoes DEF Closes, Dimensions
    <3>3. \/ job[w].row.kind = k /\ TalliedAlone'[k] = TalliedAlone[k] + 1
          \/ job[w].row.kind # k /\ TalliedAlone'[k] = TalliedAlone[k]
      BY <3>1, <3>2, SmartTally DEF Kinds
    <3>4. \/ /\ job[w].row.kind = k
             /\ mixed'[k] + TalliedAlone'[k] = mixed[k] + TalliedAlone[k] + 1
          \/ /\ job[w].row.kind # k
             /\ mixed'[k] + TalliedAlone'[k] = mixed[k] + TalliedAlone[k]
      BY <1>4, <3>1, <3>3
    <3>. QED
      BY <1>3, <1>4, <2>0, <2>11, <3>1, <3>2, <3>4, BalanceCount
  <2>7. CASE MixedIncr(w)
    <3>1. /\ pc[w] = "count" /\ counters' = counters /\ smart' = smart /\ ledger' = ledger
          /\ mixed' = [mixed EXCEPT ![job[w].row.kind] = @ + 1]
      BY <2>7 DEF MixedIncr, weightedKeys
    <3>2. job[w].row.kind \in Kinds /\ pc'[w] # "count"
      BY <1>0, <2>7, MixedDoes
    <3>3. \/ job[w].row.kind = k /\ mixed'[k] = mixed[k] + 1
          \/ job[w].row.kind # k /\ mixed'[k] = mixed[k]
      BY <3>1, <3>2 DEF RoutingType
    <3>4. TalliedAlone' = TalliedAlone
      BY <3>1 DEF TalliedAlone, TotalOf
    <3>5. \/ /\ job[w].row.kind = k
             /\ mixed'[k] + TalliedAlone'[k] = mixed[k] + TalliedAlone[k] + 1
          \/ /\ job[w].row.kind # k
             /\ mixed'[k] + TalliedAlone'[k] = mixed[k] + TalliedAlone[k]
      BY <1>4, <3>3, <3>4
    <3>. QED
      BY <1>3, <1>4, <2>0, <2>11, <3>1, <3>2, <3>5, BalanceCount
  <2>8. CASE ReadSources(w) \/ Decide(w)
    <3>1. UNCHANGED stores
      BY <2>8, ReadDoes, DecideDoes
    <3>2. pc[w] # "count" /\ pc'[w] # "count"
      <4>1. \A at, next, field, value : ReadInto(w, at, next, field, value) =>
              pc[w] = at /\ pc'[w] = next
        BY <1>0 DEF ReadInto
      <4>2. ReadSources(w) => pc[w] \in Reading /\ pc'[w] \in Reading
        BY <4>1, ReadDoes DEF Reading
      <4>3. Decide(w) => pc[w] = "read_policies" /\ pc'[w] = "idle"
        BY <1>0, DecideDoes DEF Decide
      <4>. QED
        BY <2>8, <4>2, <4>3 DEF Reading
    <3>. QED
      BY <1>3, <2>0, <2>11, <3>1, <3>2, BalanceKept DEF CountsFor, stores, weightedKeys, mixedKeys
  <2>. QED
    BY <1>6, <2>1, <2>2, <2>3, <2>4, <2>5, <2>6, <2>7, <2>8 DEF Step, ResetStep
<1>. QED
  BY <1>5, <1>6

(***************************************************************************)
(* Since the last reset: nothing at first, then one mixed batch.           *)
(***************************************************************************)
Fresh == Receipts = {} /\ mixed = NoKinds /\ \A w \in Workers : job[w].op \notin Writers

\* The batch's thread has counted every receipt but the one it holds.
BatchCounts(w) ==
    /\ job[w].tally = mixed
    /\ pc[w] = "count" =>
         /\ CountReceipts = KindTotal(mixed) + 1
         /\ \A k \in Kinds : /\ job[w].row.kind = k => CountByKind[k] = mixed[k] + 1
                             /\ job[w].row.kind # k => CountByKind[k] = mixed[k]
    /\ pc[w] # "count" =>
         /\ CountReceipts = KindTotal(mixed)
         /\ \A k \in Kinds : CountByKind[k] = mixed[k]

OnlyBatch(n) ==
    /\ \A w \in Workers : job[w].op \in Writers =>
         job[w].op = "mixed" /\ job[w].id = n /\ BatchCounts(w)
    /\ ops[n].done =>
         /\ mixedBatch = mixed /\ \A k \in Kinds : CountByKind[k] = mixed[k]
         /\ CountReceipts = KindTotal(mixed) /\ KindTotal(mixed) = Len(MixedPlan)

SinceInv ==
    /\ since.ops <= Len(ops) /\ since.faults <= faults
    /\ faults = since.faults /\ ~Resetting =>
         /\ Len(ops) = since.ops => Fresh
         /\ Len(ops) = since.ops + 1 /\ ops[Len(ops)].op = "mixed" => OnlyBatch(Len(ops))

LEMMA SinceSteps ==
    ASSUME RoutingType, NumbersInv, NEW w \in Workers, Call(w) \/ Step(w) \/ Fail(w)
    PROVE  /\ ResetMixed(w) \/ since' = since
           /\ Len(ops') >= Len(ops) /\ Len(ops) \in Nat /\ Len(ops') \in Nat
           /\ (Call(w) /\ OpensOne(w)) \/ Len(ops') = Len(ops)
<1>1. Call(w) \/ ReadSources(w) \/ Decide(w) \/ Fail(w) => since' = since
  BY CallDoes, ReadDoes, DecideDoes, FailDoes DEF history
<1>2. \/ NextSeq(w) \/ InsertReceipt(w) \/ IncrCount(w) \/ SetLastBatch(w) \/ SmartIncr(w)
      \/ MixedIncr(w) \/ SetMixedBatch(w) \/ ClearReceipts(w) \/ ResetRouting(w)
      \/ ResetSmart(w)
      => since' = since
  BY DEF NextSeq, InsertReceipt, IncrCount, SetLastBatch, SmartIncr, MixedIncr, SetMixedBatch,
         ClearReceipts, ResetRouting, ResetSmart, history
<1>3. Len(ops) \in Nat
  BY DEF RoutingType
<1>4. (Call(w) /\ OpensOne(w)) \/ Len(ops') = Len(ops)
  BY RecordSteps DEF Step, ChangesOne
<1>5. OpensOne(w) => Len(ops') = Len(ops) + 1
  BY DEF OpensOne
<1>. QED
  BY <1>1, <1>2, <1>3, <1>4, <1>5 DEF Step

LEMMA SinceBounds ==
    ASSUME CleanResets, RoutingType, NumbersInv, AloneInv, SinceInv,
           NEW w \in Workers, Call(w) \/ Step(w) \/ Fail(w)
    PROVE  since'.ops <= Len(ops') /\ since'.faults <= faults'
<1>1. since.ops <= Len(ops) /\ since.faults <= faults
  BY DEF SinceInv
<1>2. since.ops \in Nat /\ since.faults \in Nat /\ faults \in Nat
  BY DEF RoutingType
<1>3. faults' >= faults /\ faults' \in Nat
  BY <1>2, FaultsKept, FailDoes
<1>4. CASE ResetMixed(w)
  <2>1. since' = [ops |-> job[w].id, faults |-> faults] /\ job[w].op = "reset"
    BY <1>4, ResetDoes DEF ResetMixed, ResetJob
  <2>2. job[w].id = Len(ops)
    BY <2>1 DEF AloneInv
  <2>. QED
    BY <1>3, <2>1, <2>2, SinceSteps
<1>5. CASE since' = since
  BY <1>1, <1>2, <1>3, <1>5, SinceSteps
<1>. QED
  BY <1>4, <1>5, SinceSteps

\* A step of a thread that writes nothing, before or after
LEMMA SinceKept ==
    ASSUME RoutingType, NumbersInv, NEW w \in Workers,
           \A v \in Workers \ {w} : job'[v] = job[v] /\ pc'[v] = pc[v],
           job[w].op \notin Writers, job'[w].op \notin Writers,
           UNCHANGED <<ledger, mixed, mixedBatch, ops>>
    PROVE  /\ Fresh => Fresh'
           /\ OnlyBatch(Len(ops)) => OnlyBatch(Len(ops))'
<1>1. /\ Receipts' = Receipts /\ CountReceipts' = CountReceipts
      /\ CountByKind' = CountByKind
  BY CountsKept
<1>2. Fresh => Fresh'
  BY <1>1 DEF Fresh
<1>3. \A v \in Workers \ {w} : BatchCounts(v) => BatchCounts(v)'
  BY <1>1 DEF BatchCounts, KindTotal
<1>4. OnlyBatch(Len(ops)) => OnlyBatch(Len(ops))'
  BY <1>1, <1>3 DEF OnlyBatch, KindTotal
<1>. QED
  BY <1>2, <1>4

\* A mixed batch begins on a clean slate.
LEMMA BatchBegins ==
    ASSUME RoutingType, NumbersInv, Fresh,
           NEW w \in Workers, Call(w), OpensOne(w), job'[w].op = "mixed"
    PROVE  OnlyBatch(Len(ops))'
<1>1. UNCHANGED stores
  BY MixedOpens
<1>3. job'[w].id = Len(ops) + 1 /\ job'[w].tally = NoKinds /\ pc'[w] = "insert"
  BY MixedOpens
<1>4. ledger' = ledger /\ mixed' = mixed /\ mixedBatch' = mixedBatch
  BY <1>1 DEF stores, mixedKeys
<1>5. CountReceipts' = 0 /\ \A k \in Kinds : CountByKind'[k] = 0
  BY <1>4, CountsKept, EmptyCounts DEF Fresh
<1>6. mixed' = NoKinds /\ KindTotal(mixed') = 0 /\ \A k \in Kinds : mixed'[k] = 0
  BY <1>4 DEF Fresh, KindTotal, NoKinds, Kinds
<1>7. BatchCounts(w)'
  BY <1>3, <1>5, <1>6 DEF BatchCounts, KindTotal
<1>8. \A v \in Workers \ {w} : job'[v].op \notin Writers
  BY Others DEF Fresh
<1>9. Len(ops') = Len(ops) + 1 /\ ~ops'[Len(ops')].done
  BY DEF OpensOne
<1>. QED
  BY <1>3, <1>7, <1>8, <1>9 DEF OnlyBatch

\* The batch's own steps
LEMMA BatchRuns ==
    ASSUME RoutingType, NumbersInv, TallyInv, OnlyBatch(Len(ops)),
           NEW w \in Workers, InsertReceipt(w) \/ MixedIncr(w) \/ SetMixedBatch(w)
    PROVE  OnlyBatch(Len(ops))'
<1> DEFINE n == Len(ops)
<1>0. \A j, at : Moves(w, j, at) => job'[w] = j /\ pc'[w] = at
  BY DEF Moves, RoutingType
<1>00. Call(w) \/ Step(w) \/ Fail(w)
  BY DEF Step
<1>1. job[w].op \in Writers
  BY InsertDoes, MixedDoes, SaveDoes DEF Closes, Writers
<1>2. job[w].op = "mixed" /\ job[w].id = n /\ BatchCounts(w) /\ ~ops[n].done
  BY <1>1 DEF OnlyBatch, NumbersInv
<1>3. \A v \in Workers \ {w} : job'[v].op \notin Writers
  <2>1. \A v \in Workers \ {w} : job[v].op \notin Writers
    BY <1>1, <1>2 DEF OnlyBatch, NumbersInv
  <2>. QED
    BY <1>00, <2>1, Others
<1>4. /\ mixed \in [Kinds -> Nat] /\ CountByKind \in [Kinds -> Nat]
      /\ CountReceipts \in Nat /\ KindTotal(mixed) \in Nat
  BY RowCounts, Tallied DEF RoutingType, Kinds
<1>5. CASE InsertReceipt(w)
  <2>1. /\ pc[w] = "insert" /\ mixed' = mixed /\ job'[w] = job[w] /\ pc'[w] = "count"
    BY <1>0, <1>2, <1>5, InsertDoes DEF InsertReceipt, mixedKeys
  <2>2. Len(ops') = n /\ ~ops'[n].done
    BY <1>00, <1>2, <1>5, RecordSteps DEF ChangesOne
  <2>3. /\ CountReceipts = KindTotal(mixed)
        /\ \A k \in Kinds : CountByKind[k] = mixed[k]
        /\ job[w].tally = mixed
    BY <1>2, <2>1 DEF BatchCounts
  <2>4. CountReceipts' = KindTotal(mixed) + 1
    BY <1>5, <2>3, InsertCounts
  <2>5. \A k \in Kinds : /\ job[w].row.kind = k => CountByKind'[k] = mixed[k] + 1
                         /\ job[w].row.kind # k => CountByKind'[k] = mixed[k]
    BY <1>5, <2>3, InsertCounts
  <2>6. BatchCounts(w)'
    BY <2>1, <2>3, <2>4, <2>5 DEF BatchCounts, KindTotal
  <2>. QED
    BY <1>2, <1>3, <2>1, <2>2, <2>6 DEF OnlyBatch
<1>6. CASE MixedIncr(w)
  <2> DEFINE k0 == job[w].row.kind
  <2>1. /\ pc[w] = "count" /\ ledger' = ledger /\ ops' = ops
        /\ mixed' = [mixed EXCEPT ![k0] = @ + 1] /\ k0 \in Kinds
    BY <1>6, MixedDoes DEF MixedIncr, history
  <2>2. /\ pc'[w] # "count" /\ job'[w].op = "mixed" /\ job'[w].id = n
        /\ job'[w].tally = [job[w].tally EXCEPT ![k0] = @ + 1]
    BY <1>0, <1>2, <1>6, MixedDoes
  <2>3. /\ job[w].tally = mixed
        /\ CountReceipts = KindTotal(mixed) + 1
        /\ \A k \in Kinds : /\ k0 = k => CountByKind[k] = mixed[k] + 1
                            /\ k0 # k => CountByKind[k] = mixed[k]
    BY <1>2, <2>1 DEF BatchCounts
  <2> HIDE DEF k0
  <2>4. job'[w].tally = mixed'
    BY <2>1, <2>2, <2>3
  <2>5. KindTotal(mixed') = KindTotal(mixed) + 1
    BY <1>4, <2>1, Tallied
  <2>6. \A k \in Kinds : CountByKind[k] = mixed'[k]
    BY <1>4, <2>1, <2>3
  <2>7. CountReceipts' = KindTotal(mixed') /\ \A k \in Kinds : CountByKind'[k] = mixed'[k]
    BY <2>1, <2>3, <2>5, <2>6, CountsKept
  <2>8. BatchCounts(w)'
    BY <2>2, <2>4, <2>7 DEF BatchCounts, KindTotal
  <2>. QED
    BY <1>2, <1>3, <2>1, <2>2, <2>8 DEF OnlyBatch
<1>7. CASE SetMixedBatch(w)
  <2>1. /\ pc[w] = "save" /\ mixedBatch' = job[w].tally /\ mixed' = mixed /\ ledger' = ledger
    BY <1>7 DEF SetMixedBatch
  <2>2. job'[w].op \notin Writers
    BY <1>0, <1>7, SaveDoes DEF Closes, NoJob, Writers
  <2>3. /\ job[w].tally = mixed /\ CountReceipts = KindTotal(mixed)
        /\ \A k \in Kinds : CountByKind[k] = mixed[k]
    BY <1>2, <2>1 DEF BatchCounts
  <2>4. KindTotal(mixed) = Len(MixedPlan)
    BY <1>2, <2>1, <2>3 DEF TallyInv
  <2>5. CountReceipts' = CountReceipts /\ CountByKind' = CountByKind
    BY <2>1, CountsKept
  <2>6. \A v \in Workers : job'[v].op \notin Writers
    BY <1>3, <2>2
  <2>. QED
    BY <2>1, <2>3, <2>4, <2>5, <2>6 DEF OnlyBatch, KindTotal
<1>. QED
  BY <1>5, <1>6, <1>7

LEMMA SinceStep ==
    ASSUME CleanResets, RoutingType, NumbersInv, AloneInv, TallyInv, SinceInv,
           NEW w \in Workers, Call(w) \/ Step(w) \/ Fail(w)
    PROVE  SinceInv'
<1> SUFFICES ASSUME faults' = since'.faults, ~Resetting'
             PROVE  /\ Len(ops') = since'.ops => Fresh'
                    /\ Len(ops') = since'.ops + 1 /\ ops'[Len(ops')].op = "mixed"
                         => OnlyBatch(Len(ops))'
  BY SinceBounds DEF SinceInv
<1>0. \A j, at : Moves(w, j, at) => job'[w] = j /\ pc'[w] = at
  BY DEF Moves, RoutingType
<1>00. \A v \in Workers \ {w} : job'[v] = job[v] /\ pc'[v] = pc[v]
  BY Others
<1>1. CASE ResetStep(w)
  <2>1. job[w].op = "reset" /\ \A v \in Workers \ {w} : pc[v] = "idle"
    BY <1>1, ResetsAlone DEF Idle
  <2>2. ResetMixed(w)
    <3>1. ClearReceipts(w) \/ ResetRouting(w) \/ ResetSmart(w) => job'[w] = job[w]
      BY <1>0, ResetDoes
    <3>. QED
      BY <1>1, <2>1, <3>1 DEF ResetStep, Resetting
  <2>3. /\ pc[w] = "reset_mixed" /\ mixed' = NoKinds /\ ledger' = ledger /\ ops' = ops
        /\ since' = [ops |-> job[w].id, faults |-> faults]
    BY <2>2 DEF ResetMixed
  <2>4. Receipts = {} /\ job[w].id = Len(ops)
    BY <2>1, <2>3 DEF AloneInv
  <2>5. \A v \in Workers : job'[v].op \notin Writers
    <3>1. job'[w] = NoJob
      BY <1>0, <2>2, ResetDoes
    <3>2. \A v \in Workers \ {w} : job[v] = NoJob
      BY <2>1, Places DEF RoutingType
    <3>. QED
      BY <1>00, <3>1, <3>2 DEF NoJob, Writers
  <2>6. Fresh'
    BY <2>3, <2>4, <2>5, CountsKept DEF Fresh
  <2>7. Len(ops') = since'.ops /\ Len(ops) \in Nat
    BY <2>3, <2>4, SinceSteps
  <2>. QED
    BY <2>6, <2>7
<1>2. ASSUME ~ResetStep(w)
      PROVE  /\ Len(ops') = since'.ops => Fresh'
             /\ Len(ops') = since'.ops + 1 /\ ops'[Len(ops')].op = "mixed"
                  => OnlyBatch(Len(ops))'
  <2>1. since' = since /\ Len(ops) \in Nat /\ since.ops \in Nat /\ since.ops <= Len(ops)
    BY <1>2, SinceSteps DEF ResetStep, SinceInv, RoutingType
  <2>2. ~Fail(w) /\ faults = since.faults
    <3>1. faults \in Nat /\ since.faults \in Nat /\ since.faults <= faults
      BY DEF RoutingType, SinceInv
    <3>. QED
      BY <2>1, <3>1, FaultsKept, FailDoes
  <2>3. ~Resetting
    BY <1>2, ResetsAlone
  <2>4. /\ Len(ops) = since.ops => Fresh
        /\ Len(ops) = since.ops + 1 /\ ops[Len(ops)].op = "mixed" => OnlyBatch(Len(ops))
    BY <2>2, <2>3 DEF SinceInv
  <2>5. ASSUME UNCHANGED <<ledger, mixed, mixedBatch, ops>>,
               job[w].op \notin Writers, job'[w].op \notin Writers
        PROVE  /\ Len(ops') = since'.ops => Fresh'
               /\ Len(ops') = since'.ops + 1 /\ ops'[Len(ops')].op = "mixed"
                    => OnlyBatch(Len(ops))'
    BY <1>00, <2>1, <2>4, <2>5, SinceKept
  <2>6. CASE Call(w)
    <3>1. CASE OpensOne(w)
      <4>1. Len(ops') = Len(ops) + 1 /\ ops'[Len(ops')].op = job'[w].op
        BY <3>1 DEF OpensOne
      <4>2. Len(ops') = since'.ops + 1 => Fresh
        BY <2>1, <2>4, <4>1
      <4>3. Len(ops') # since'.ops
        BY <2>1, <4>1
      <4>. QED
        BY <2>6, <3>1, <4>1, <4>2, <4>3, BatchBegins
    <3>2. CASE ~OpensOne(w)
      <4>1. PICK j, at :
               /\ j \in Job
               /\ Moves(w, j, at) /\ job[w] = NoJob /\ UNCHANGED stores
               /\ \/ ops' = ops /\ j.op = "disposition"
                  \/ ops' = Append(ops, [op |-> j.op, rows |-> 0, done |-> FALSE])
        BY <2>6, CallDoes
      <4>2. ops' = ops /\ job'[w] = j
        BY <1>0, <2>6, <3>2, <4>1, RecordSteps
      <4>3. j.op = "disposition"
        <5>1. Len(Append(ops, [op |-> j.op, rows |-> 0, done |-> FALSE])) = Len(ops) + 1
          BY DEF RoutingType
        <5>. QED
          BY <2>1, <4>1, <4>2, <5>1
      <4>. QED
        BY <2>5, <4>1, <4>2, <4>3 DEF NoJob, Writers, stores, mixedKeys
    <3>. QED
      BY <3>1, <3>2
  <2>7. CASE ReadSources(w) \/ Decide(w)
    <3>1. UNCHANGED stores /\ ops' = ops
      BY <2>7, ReadDoes, DecideDoes DEF history
    <3>2. \A at, next, field, value : ReadInto(w, at, next, field, value) =>
            job'[w] \in ReadJob /\ job[w].op = "disposition"
      BY <1>0 DEF ReadInto
    <3>3. ReadSources(w) => job'[w] \in ReadJob /\ job[w].op = "disposition"
      BY <3>2, ReadDoes
    <3>4. Decide(w) => job'[w] = NoJob /\ job[w].op = "disposition"
      BY <1>0, DecideDoes
    <3>5. job[w].op \notin Writers /\ job'[w].op \notin Writers
      BY <2>7, <3>3, <3>4 DEF NoJob, ReadJob, Writers
    <3>. QED
      BY <2>5, <3>1, <3>5 DEF stores, mixedKeys
  <2>8. ASSUME NextSeq(w) \/ InsertReceipt(w) \/ IncrCount(w) \/ SetLastBatch(w)
                  \/ SmartIncr(w) \/ MixedIncr(w) \/ SetMixedBatch(w)
        PROVE  /\ Len(ops') = since'.ops => Fresh'
               /\ Len(ops') = since'.ops + 1 /\ ops'[Len(ops')].op = "mixed"
                    => OnlyBatch(Len(ops))'
    <3>1. job[w].op \in Writers
      BY <2>8, NextSeqDoes, InsertDoes, CountDoes, MixedDoes, SaveDoes DEF Closes, Writers
    <3>2. Len(ops) # since.ops
      BY <2>4, <3>1 DEF Fresh
    <3>3. ~Call(w)
      <4>1. Call(w) => job[w] = NoJob
        BY CallDoes
      <4>. QED
        BY <3>1, <4>1 DEF NoJob, Writers
    <3>4. Len(ops') = Len(ops)
      BY <3>3, SinceSteps
    <3>5. ASSUME Len(ops') = since'.ops + 1, ops'[Len(ops')].op = "mixed"
          PROVE  OnlyBatch(Len(ops))'
      <4>1. ops[Len(ops)].op = "mixed"
        <5>1. ops' = ops \/ \E rows : ChangesOne(w, rows)
          BY <2>8, RecordSteps
        <5>2. ASSUME NEW rows, ChangesOne(w, rows) PROVE ops[Len(ops)].op = "mixed"
          <6>1. Len(ops) \in 1..Len(ops)
            BY <2>1, <3>4, <3>5
          <6>. QED
            BY <3>4, <3>5, <5>2, <6>1 DEF ChangesOne
        <5>. QED
          BY <3>5, <5>1, <5>2
      <4>2. OnlyBatch(Len(ops))
        BY <2>1, <2>4, <3>4, <3>5, <4>1
      <4>3. job[w].op = "mixed"
        BY <3>1, <4>2 DEF OnlyBatch
      <4>4. InsertReceipt(w) \/ MixedIncr(w) \/ SetMixedBatch(w)
        BY <2>8, <4>3, NextSeqDoes DEF IncrCount, SetLastBatch, SmartIncr
      <4>. QED
        BY <4>2, <4>4, BatchRuns
    <3>. QED
      BY <2>1, <3>2, <3>4, <3>5
  <2>. QED
    BY <1>2, <2>2, <2>6, <2>7, <2>8 DEF Step, ResetStep
<1>. QED
  BY <1>1, <1>2

\* A tail of one element is the last element.
LEMMA TailOfOne ==
    ASSUME NEW S, NEW s \in Seq(S), NEW m \in Nat \ {0}, m <= Len(s) + 1,
           Len(SubSeq(s, m, Len(s))) = 1
    PROVE  m = Len(s) /\ SubSeq(s, m, Len(s))[1] = s[Len(s)]
<1> DEFINE n == Len(s)
<1>1. n \in Nat /\ \A i \in m..n : s[i] \in S
  OBVIOUS
<1>2. /\ Len(SubSeq(s, m, n)) = IF m <= n THEN n - m + 1 ELSE 0
      /\ \A i \in 1..(n - m + 1) : SubSeq(s, m, n)[i] = s[m + i - 1]
  <2> HIDE DEF n
  <2>1. m \in Int /\ n \in Int
    BY <1>1
  <2>. QED
    BY <1>1, <2>1, SubSeqProperties
<1>3. m = n
  BY <1>1, <1>2
<1>4. 1 \in 1..(n - m + 1) /\ m + 1 - 1 = n
  BY <1>1, <1>3
<1>. QED
  BY <1>2, <1>3, <1>4

LEMMA CleanConfirms ==
    ASSUME RoutingType, SinceInv PROVE CleanRunConfirms
<1> DEFINE new == SubSeq(ops, since.ops + 1, Len(ops))
<1> SUFFICES ASSUME Quiet, Len(new) = 1, new[1].op = "mixed", new[1].done,
                    faults = since.faults
             PROVE  Confirmed(mixedBatch, mixed, CountByKind, CountReceipts,
                              InconsistentReceipts)
  BY DEF CleanRunConfirms
<1>0. since.ops \in Nat /\ since.ops <= Len(ops)
  BY DEF RoutingType, SinceInv
<1>1. ops \in Seq(Op) /\ Len(ops) \in Nat
  BY DEF RoutingType
<1>2. Len(ops) = since.ops + 1 /\ new[1] = ops[Len(ops)]
  <2> DEFINE m == since.ops + 1
  <2>1. m \in Nat \ {0} /\ m <= Len(ops) + 1
    <3>1. \A a, b \in Nat : a <= b => a + 1 \in Nat \ {0} /\ a + 1 <= b + 1
      OBVIOUS
    <3>. QED
      BY <1>0, <1>1, <3>1
  <2>2. new = SubSeq(ops, m, Len(ops))
    BY Zenon
  <2> HIDE DEF m, new
  <2>4. Len(SubSeq(ops, m, Len(ops))) = 1
    BY <2>2, Zenon
  <2>3. m = Len(ops) /\ SubSeq(ops, m, Len(ops))[1] = ops[Len(ops)]
    BY <1>1, <2>1, <2>4, TailOfOne
  <2>. QED
    BY <2>2, <2>3 DEF m
<1>3. ~Resetting
  <2>1. \A w \in Workers : pc[w] = "idle"
    BY DEF Quiet, Idle
  <2>2. \A w \in Workers : job[w] \in Job /\ JobAt(job[w], pc[w])
    BY DEF RoutingType
  <2>3. \A w \in Workers : job[w] = NoJob
    BY <2>1, <2>2, Places
  <2>4. NoJob.op = "none"
    BY DEF NoJob
  <2>. QED
    BY <2>3, <2>4, Zenon DEF Resetting
<1>4. OnlyBatch(Len(ops)) /\ ops[Len(ops)].done
  BY <1>2, <1>3 DEF SinceInv
<1>5. /\ mixedBatch = mixed /\ \A k \in Kinds : CountByKind[k] = mixed[k]
      /\ CountReceipts = KindTotal(mixed) /\ KindTotal(mixed) = Len(MixedPlan)
  BY <1>4 DEF OnlyBatch
<1>6. KindTotal(mixed) > 0
  BY <1>5, PlanRows
<1>. QED
  BY <1>5, <1>6, RowCounts DEF Confirmed

\* The ledger half of the inductive invariant, when resets run alone
LedgerInv ==
    /\ RoutingType /\ NumbersInv
    /\ AloneInv /\ RowsInv /\ TallyInv /\ BatchInv /\ ReadInv
    /\ ConfirmedIsOneWholeBatch /\ LedgerCounted /\ SinceInv

LEMMA LedgerInit == Init => LedgerInv
<1> SUFFICES ASSUME Init PROVE LedgerInv
  OBVIOUS
<1>1. /\ ops = <<>> /\ reports = {} /\ faults = 0
      /\ since = [ops |-> 0, faults |-> 0] /\ mixed = NoKinds /\ mixedBatch = NoKinds
      /\ counters = NoTiers /\ smart = [d \in Dimensions |-> 0]
      /\ \A w \in Workers : job[w] = NoJob /\ pc[w] = "idle"
  BY DEF Init
<1>2. NoJob.op = "none"
  BY DEF NoJob
<1>3. Len(ops) = 0
  BY <1>1
<1>4. Receipts = {}
  <2>1. \A s \in Rows : {s} \X (1..ledger[s]) = {}
    BY DEF Init
  <2>. QED
    BY <2>1 DEF Receipts
<1>5. RoutingType /\ NumbersInv
  BY InitType
<1>6. AloneInv /\ TallyInv /\ ReadInv
  BY <1>1, <1>2 DEF AloneInv, TallyInv, ReadInv, Reads
<1>7. RowsInv /\ BatchInv
  <2>1. KindTotal(NoKinds) = 0
    BY DEF KindTotal, NoKinds, Kinds
  <2>2. \A i \in 1..Len(ops) : FALSE
    BY <1>3
  <2>. QED
    BY <1>1, <2>1, <2>2 DEF RowsInv, BatchInv
<1>8. ConfirmedIsOneWholeBatch
  BY <1>1 DEF ConfirmedIsOneWholeBatch
<1>9. LedgerCounted
  <2> SUFFICES ASSUME NEW k \in Kinds PROVE KindCounted(k)
    BY LedgerCountedIs
  <2>1. CountByKind[k] = 0 /\ mixed[k] = 0
    BY <1>1, <1>4, EmptyCounts DEF NoKinds
  <2>2. TalliedAlone[k] = 0
    <3>1. /\ DOMAIN ComplexityTiers = {"simple", "moderate", "complex"}
          /\ DOMAIN OverrideRules = {"bulk_batch", "legal_review", "code_generation"}
      BY DEF ComplexityTiers, OverrideRules
    <3>2. \A d \in Dimensions : smart[d] = 0
      BY <1>1
    <3>3. \A m \in Models : counters[m] = 0
      BY <1>1 DEF NoTiers
    <3>. QED
      BY <3>1, <3>2, <3>3, TalliesAre, TiersAre DEF Dimensions, TotalOf
  <2>3. Counting(k) = 0
    <3>1. {w \in Workers : CountsFor(w, k)} = {}
      BY <1>1 DEF CountsFor
    <3>. QED
      BY <3>1, FS_EmptySet DEF Counting, CountsFor
  <2>. QED
    BY <2>1, <2>2, <2>3 DEF KindCounted
<1>10. SinceInv
  <2>1. Fresh
    BY <1>1, <1>2, <1>4 DEF Fresh, Writers
  <2>. QED
    BY <1>1, <1>3, <2>1 DEF SinceInv
<1>. QED
  BY <1>5, <1>6, <1>7, <1>8, <1>9, <1>10 DEF LedgerInv

LEMMA LedgerThread ==
    ASSUME CleanResets, LedgerInv, RoutingType', NumbersInv',
           NEW w \in Workers, Call(w) \/ Step(w) \/ Fail(w), Observe
    PROVE  LedgerInv'
<1>1. AloneInv' /\ RowsInv' /\ TallyInv'
  BY AloneStep, RowsStep, TallyStep DEF LedgerInv
<1>2. BatchInv' /\ ReadInv'
  BY BatchStep, ReadStep DEF LedgerInv
<1>3. ConfirmedIsOneWholeBatch' /\ LedgerCounted' /\ SinceInv'
  BY DecideOk, CountedStep, SinceStep DEF LedgerInv, SinceInv
<1>. QED
  BY <1>1, <1>2, <1>3 DEF LedgerInv

\* A restart drops threads and perhaps tallies, and no receipt.
LEMMA RestartCounted ==
    ASSUME CleanResets, RoutingType, RoutingType', LedgerCounted, since.faults <= faults,
           Restart
    PROVE  LedgerCounted'
<1> SUFFICES ASSUME NEW k \in Kinds PROVE KindCounted(k)'
  BY LedgerCountedIs
<1>1. /\ \A w \in Workers : pc'[w] = "idle"
      /\ UNCHANGED <<ledger, counters, since>> /\ faults' = faults + 1 /\ ~Resetting
      /\ mixed' = mixed \/ mixed' = NoKinds
      /\ smart' = smart \/ smart' = [d \in Dimensions |-> 0]
  BY DEF Restart, mixedKeys, weightedKeys
<1>2. /\ TalliedAlone[k] \in Nat /\ mixed[k] \in Nat /\ CountByKind[k] \in Nat
      /\ \A d \in Dimensions : smart[d] \in Nat
      /\ \A m \in Models : counters[m] \in Nat
  BY TalliesType
<1>3. ~Undisturbed'
  BY <1>1 DEF Undisturbed, RoutingType
<1>4. CountByKind' = CountByKind
  BY <1>1, CountsKept
<1>5. Counting(k)' = 0
  <2>1. {w \in Workers : CountsFor(w, k)'} = {}
    BY <1>1 DEF CountsFor
  <2>. QED
    BY <2>1, FS_EmptySet DEF Counting, CountsFor
<1>6. Counting(k) \in Nat
  <2>1. {w \in Workers : pc[w] = "count" /\ job[w].row.kind = k} \subseteq Workers
    OBVIOUS
  <2>2. IsFiniteSet({w \in Workers : pc[w] = "count" /\ job[w].row.kind = k})
    BY <2>1, FinitePool, FS_Subset
  <2>. QED
    BY <2>2, FS_CardinalityType DEF Counting
<1>7. mixed'[k] \in Nat /\ mixed'[k] <= mixed[k]
  BY <1>1, <1>2 DEF NoKinds
<1>8. TalliedAlone'[k] \in Nat /\ TalliedAlone'[k] <= TalliedAlone[k]
  <2>1. CASE smart' = smart
    <3>1. TalliedAlone' = TalliedAlone
      BY <1>1, <2>1 DEF TalliedAlone, TotalOf
    <3>. QED
      BY <1>2, <3>1
  <2>2. CASE smart' = [d \in Dimensions |-> 0]
    BY <1>1, <1>2, <2>2, ZeroSmart
  <2>. QED
    BY <1>1, <2>1, <2>2
<1>9. CountByKind[k] >= mixed[k] + TalliedAlone[k] + Counting(k)
  BY <1>1, LedgerCountedIs DEF KindCounted
<1>10. CountByKind'[k] >= mixed'[k] + TalliedAlone'[k] + Counting(k)'
  BY <1>2, <1>4, <1>5, <1>6, <1>7, <1>8, <1>9
<1>. QED
  BY <1>3, <1>10 DEF KindCounted, Counting, Undisturbed

LEMMA LedgerRestart ==
    ASSUME CleanResets, LedgerInv, RoutingType', NumbersInv', Restart
    PROVE  LedgerInv'
<1>1. /\ \A w \in Workers : job'[w] = NoJob /\ pc'[w] = "idle"
      /\ UNCHANGED <<ledger, ops, since, reports>>
      /\ faults' = faults + 1 /\ ~Resetting
      /\ mixedBatch' = mixedBatch \/ mixedBatch' = NoKinds
  BY DEF Restart, mixedKeys
<1>2. NoJob.op = "none"
  BY DEF NoJob
<1>3. faults \in Nat /\ since.faults \in Nat /\ since.faults <= faults
  BY DEF LedgerInv, RoutingType, SinceInv
<1>4. AloneInv' /\ TallyInv' /\ ReadInv'
  BY <1>1, <1>2 DEF AloneInv, TallyInv, ReadInv, Reads
<1>5. RowsInv'
  BY <1>1, CountsKept DEF LedgerInv, RowsInv
<1>6. BatchInv'
  <2>1. KindTotal(NoKinds) = 0
    BY DEF KindTotal, NoKinds, Kinds
  <2>2. CASE mixedBatch' = mixedBatch
    BY <1>1, <2>2 DEF LedgerInv, BatchInv, WholeBatch, KindTotal
  <2>3. CASE mixedBatch' = NoKinds
    BY <2>1, <2>3 DEF BatchInv, KindTotal
  <2>. QED
    BY <1>1, <2>2, <2>3
<1>7. ConfirmedIsOneWholeBatch'
  BY <1>1 DEF LedgerInv, ConfirmedIsOneWholeBatch
<1>8. LedgerCounted'
  BY <1>3, RestartCounted DEF LedgerInv
<1>9. SinceInv'
  <2>1. faults' # since'.faults /\ since'.faults <= faults'
    BY <1>1, <1>3
  <2>2. since'.ops <= Len(ops')
    BY <1>1 DEF LedgerInv, SinceInv
  <2>. QED
    BY <2>1, <2>2 DEF SinceInv
<1>. QED
  BY <1>4, <1>5, <1>6, <1>7, <1>8, <1>9 DEF LedgerInv

LEMMA LedgerStutter ==
    ASSUME LedgerInv, RoutingType', NumbersInv', UNCHANGED vars
    PROVE  LedgerInv'
<1>1. /\ seq' = seq /\ counters' = counters /\ smart' = smart /\ mixed' = mixed
      /\ mixedBatch' = mixedBatch /\ ledger' = ledger /\ pc' = pc /\ job' = job /\ ops' = ops
      /\ since' = since /\ reports' = reports /\ faults' = faults /\ seen' = seen
  BY DEF vars, stores, weightedKeys, mixedKeys, history
<1>2. /\ Receipts' = Receipts /\ CountReceipts' = CountReceipts
      /\ CountByKind' = CountByKind
  BY <1>1, CountsKept
<1>3. Resetting' <=> Resetting
  BY <1>1 DEF Resetting
<1>4. AloneInv' /\ RowsInv' /\ TallyInv'
  BY <1>1, <1>2 DEF LedgerInv, AloneInv, RowsInv, TallyInv, Idle, KindTotal
<1>5. BatchInv' /\ ReadInv' /\ ConfirmedIsOneWholeBatch'
  BY <1>1, <1>2, <1>3
     DEF LedgerInv, BatchInv, ReadInv, ConfirmedIsOneWholeBatch, Reads, WholeBatch, KindTotal
<1>6. LedgerCounted'
  <2>1. TalliedAlone' = TalliedAlone
    BY <1>1 DEF TalliedAlone, TotalOf
  <2>. QED
    BY <1>1, <1>2, <1>3, <2>1 DEF LedgerInv, LedgerCounted
<1>7. SinceInv'
  <2>1. Fresh => Fresh'
    BY <1>1, <1>2 DEF Fresh
  <2>2. OnlyBatch(Len(ops)) => OnlyBatch(Len(ops))'
    BY <1>1, <1>2 DEF OnlyBatch, BatchCounts, KindTotal
  <2>. QED
    BY <1>1, <1>3, <2>1, <2>2 DEF LedgerInv, SinceInv
<1>. QED
  BY <1>4, <1>5, <1>6, <1>7 DEF LedgerInv

LEMMA LedgerStep == CleanResets /\ LedgerInv /\ [Next]_vars => LedgerInv'
<1> SUFFICES ASSUME CleanResets, LedgerInv, [Next]_vars PROVE LedgerInv'
  OBVIOUS
<1>1. RoutingType' /\ NumbersInv'
  BY TypeStep DEF LedgerInv
<1>2. CASE Next
  <2>1. CASE \E w \in Workers : Call(w) \/ Step(w) \/ Fail(w)
    BY <1>1, <1>2, <2>1, LedgerThread DEF Next
  <2>2. CASE Restart
    BY <1>1, <2>2, LedgerRestart
  <2>. QED
    BY <1>2, <2>1, <2>2 DEF Next
<1>3. CASE UNCHANGED vars
  BY <1>1, <1>3, LedgerStutter
<1>. QED
  BY <1>2, <1>3

LEMMA LedgerInvariant == CleanResets => (Spec => []LedgerInv)
<1> SUFFICES ASSUME CleanResets PROVE Spec => []LedgerInv
  OBVIOUS
<1>1. Init => LedgerInv
  BY LedgerInit
<1>2. LedgerInv /\ [Next]_vars => LedgerInv'
  BY LedgerStep
<1>. QED
  BY <1>1, <1>2, PTL DEF Spec

\* If resets run alone, every CONFIRMED of /routing/disposition was given by a
\* call during which the ledger held one whole mixed batch and no other row,
\* though its five reads are not one snapshot.
THEOREM ConfirmedIsWhole == CleanResets => (Spec => []ConfirmedIsOneWholeBatch)
<1>1. LedgerInv => ConfirmedIsOneWholeBatch
  BY DEF LedgerInv
<1>. QED
  BY <1>1, LedgerInvariant, PTL

\* If resets run alone, no counter of a policy is ahead of its receipts, whatever
\* fails or restarts, and where nothing failed since the last reset every receipt
\* is in one counter or is about to be (insert_receipt, incr_count, smart_incr,
\* mixed_incr).
THEOREM LedgerIsCounted == CleanResets => (Spec => []LedgerCounted)
<1>1. LedgerInv => LedgerCounted
  BY DEF LedgerInv
<1>. QED
  BY <1>1, LedgerInvariant, PTL

\* If resets run alone, one mixed batch after a reset is CONFIRMED, whatever ran
\* or failed before the reset.
THEOREM CleanRunsConfirm == CleanResets => (Spec => []CleanRunConfirms)
<1>1. LedgerInv => CleanRunConfirms
  BY CleanConfirms DEF LedgerInv
<1>. QED
  BY <1>1, LedgerInvariant, PTL
=============================================================================
