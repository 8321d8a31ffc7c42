--------------------------- MODULE RoutingPolicy ---------------------------
(***************************************************************************)
(* The pure part of routing: the tables of app/providers/registry.py, the  *)
(* weighted sequence built from them, the smart decision of                *)
(* app/routing/payload.py, and what the endpoints of app/main.py compute   *)
(* from counters they have read.                                           *)
(*                                                                         *)
(* The size label and the risk, which select nothing, are left out.        *)
(***************************************************************************)
EXTENDS Integers, Sequences, FiniteSets

\* The order matters: the sequence gives a tie to the earlier tier.
Tiers == <<"econo-mini", "balanced-std", "premium-max">>

Models == {Tiers[i] : i \in DOMAIN Tiers}

\* WEIGHTED_WEIGHTS, in percent
Weight == [m \in Models |-> CASE m = "econo-mini" -> 50
                              [] m = "balanced-std" -> 30
                              [] m = "premium-max" -> 20]

\* Slots of the sequence, for the sum of pct // 10
SequenceLength == 10

Picks(s, m) == Cardinality({i \in DOMAIN s : s[i] = m})

\* How far a tier is behind its share at the next slot, in hundredths
Deficit(s, m) == Weight[m] * (Len(s) + 1) - 100 * Picks(s, m)

Furthest_InBlocks(s) ==
    Tiers[CHOOSE i \in DOMAIN Tiers :
              /\ 10 * Picks(s, Tiers[i]) < Weight[Tiers[i]]
              /\ \A j \in 1..(i - 1) : 10 * Picks(s, Tiers[j]) = Weight[Tiers[j]]]

Furthest(s) ==
    Tiers[CHOOSE i \in DOMAIN Tiers : \A j \in DOMAIN Tiers \ {i} :
              \/ Deficit(s, Tiers[i]) > Deficit(s, Tiers[j])
              \/ Deficit(s, Tiers[i]) = Deficit(s, Tiers[j]) /\ i < j]

SequenceUpTo[n \in 0..SequenceLength] ==
    IF n = 0 THEN <<>>
    ELSE Append(SequenceUpTo[n - 1], Furthest(SequenceUpTo[n - 1]))

WeightedSequence == SequenceUpTo[SequenceLength]

WeightedPick_WrapsEarly(index) ==
    WeightedSequence[(index % (SequenceLength - 1)) + 1]

\* The tier of the request with a 0-based sequence index
WeightedPick(index) == WeightedSequence[(index % SequenceLength) + 1]

\* Python's round: to the nearest, a half to the even neighbour
RoundHundredths(x) ==
    LET q == x \div 100  r == x % 100
    IN  IF r > 50 \/ (r = 50 /\ q % 2 = 1) THEN q + 1 ELSE q

TotalOf(counts) == counts["econo-mini"] + counts["balanced-std"]
                       + counts["premium-max"]

\* GET /routing/validate: all_match
Validate(counts) ==
    \A m \in Models : counts[m] = RoundHundredths(TotalOf(counts) * Weight[m])

----------------------------------------------------------------------------
TaskComplexity == [ticket_tag |-> "simple", doc_summary |-> "simple",
                   data_extract |-> "moderate", bug_triage |-> "complex",
                   incident_analysis |-> "complex"]

ComplexityTiers == [simple |-> "econo-mini", moderate |-> "balanced-std",
                    complex |-> "premium-max"]

\* The tier each override class pins
OverrideRules == [bulk_batch |-> "econo-mini", legal_review |-> "premium-max",
                  code_generation |-> "premium-max"]

\* A declared class that no table has: absent, misspelt, empty
Unknown == "unknown"
TaskClasses == DOMAIN TaskComplexity \union {Unknown}
OverrideClasses == DOMAIN OverrideRules \union {Unknown}

ComplexityOf(task) ==
    IF task \in DOMAIN TaskComplexity THEN TaskComplexity[task] ELSE "simple"

\* smart_decision: the tier, the kind its route_reason starts with, and the
\* dimension the endpoint tallies
SmartDecision(task, override) ==
    IF override \in DOMAIN OverrideRules
    THEN [model |-> OverrideRules[override], kind |-> "override",
          dimension |-> override]
    ELSE [model |-> ComplexityTiers[ComplexityOf(task)], kind |-> "payload",
          dimension |-> ComplexityOf(task)]

Dimensions == DOMAIN ComplexityTiers \union DOMAIN OverrideRules

----------------------------------------------------------------------------
Kinds == {"weighted", "payload", "override"}

NoKinds == [k \in Kinds |-> 0]

KindTotal(counts) == counts["weighted"] + counts["payload"] + counts["override"]

\* GET /routing/disposition, from its five reads: the summary, the counters,
\* the rows per kind, all rows, the rows whose policy contradicts the reason.
Confirmed_RowsMayBeExtra(api, redis, rows, total, inconsistent) ==
    /\ \A k \in Kinds : api[k] = redis[k] /\ redis[k] = rows[k]
    /\ KindTotal(api) > 0
    /\ inconsistent = 0

Confirmed(api, redis, rows, total, inconsistent) ==
    /\ \A k \in Kinds : api[k] = redis[k] /\ redis[k] = rows[k]
    /\ KindTotal(api) > 0 /\ total = KindTotal(api)
    /\ inconsistent = 0
============================================================================
