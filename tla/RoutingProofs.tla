---------------------------- MODULE RoutingProofs ----------------------------
(***************************************************************************)
(* Proofs about Routing, for every pool, mixed plan and request: the types, and*)
(* that each sequence number drawn is counted once on its own tier.        *)
(*                                                                         *)
(* RoutingType and NumbersInv say what the locals of a handler are at each of*)
(* its places.  AccountInv adds the share of a tier in the first n requests of*)
(* the weighted sequence (DrawnInv), who holds a number drawn before a reset*)
(* (StrayInv), and the account itself.                                     *)
(***************************************************************************)
EXTENDS Routing, FiniteSetTheorems, SequenceTheorems, TLAPS

\* The sequence that the weights 50/30/20 give.
FirstTen == <<"econo-mini", "balanced-std", "premium-max", "econo-mini",
              "econo-mini", "balanced-std", "econo-mini", "premium-max",
              "balanced-std", "econo-mini">>

LEMMA TiersAre ==
    /\ Models = {"econo-mini", "balanced-std", "premium-max"}
    /\ DOMAIN Tiers = {1, 2, 3}
    /\ Tiers[1] = "econo-mini" /\ Tiers[2] = "balanced-std" /\ Tiers[3] = "premium-max"
    /\ Weight \in [Models -> Nat]
    /\ Weight["econo-mini"] = 50 /\ Weight["balanced-std"] = 30
    /\ Weight["premium-max"] = 20
<1>1. /\ DOMAIN Tiers = {1, 2, 3}
      /\ Tiers[1] = "econo-mini" /\ Tiers[2] = "balanced-std" /\ Tiers[3] = "premium-max"
  BY DEF Tiers
<1>2. Models = {"econo-mini", "balanced-std", "premium-max"}
  BY <1>1 DEF Models
<1>. QED
  BY <1>1, <1>2 DEF Weight

\* One more slot is one more pick of its tier.
LEMMA PicksAppend ==
    ASSUME NEW s \in Seq(Models), NEW t \in Models
    PROVE  /\ Picks(Append(s, t), t) = Picks(s, t) + 1
           /\ \A m \in Models \ {t} : Picks(Append(s, t), m) = Picks(s, m)
<1> DEFINE n == Len(s)
           longer == Append(s, t)
           of(m) == {i \in DOMAIN s : s[i] = m}
<1>1. /\ n \in Nat /\ DOMAIN s = 1..n /\ DOMAIN longer = (1..n) \union {n + 1}
      /\ longer[n + 1] = t /\ \A i \in 1..n : longer[i] = s[i]
  OBVIOUS
<1>2. IsFiniteSet(of(t)) /\ n + 1 \notin of(t)
  <2>1. IsFiniteSet(1..n)
    BY <1>1, FS_Interval
  <2>. QED
    BY <1>1, <2>1, FS_Subset
<1>3. Cardinality(of(t) \union {n + 1}) = Cardinality(of(t)) + 1
  BY <1>2, FS_AddElement
<1>4. {i \in DOMAIN longer : longer[i] = t} = of(t) \union {n + 1}
  BY <1>1
<1>5. \A m \in Models \ {t} : {i \in DOMAIN longer : longer[i] = m} = of(m)
  BY <1>1
<1>. QED
  BY <1>3, <1>4, <1>5 DEF Picks

\* A slot: the tier furthest behind its share gets it, and a tie goes to the
\* earlier one.
LEMMA FurthestIs ==
    ASSUME NEW s, NEW i \in {1, 2, 3},
           \A j \in {1, 2, 3} \ {i} :
              \/ Deficit(s, Tiers[i]) > Deficit(s, Tiers[j])
              \/ Deficit(s, Tiers[i]) = Deficit(s, Tiers[j]) /\ i < j,
           \A j \in {1, 2, 3} : Deficit(s, Tiers[j]) \in Int
    PROVE  Furthest(s) = Tiers[i]
<1> DEFINE P(k) == \A j \in DOMAIN Tiers \ {k} :
              \/ Deficit(s, Tiers[k]) > Deficit(s, Tiers[j])
              \/ Deficit(s, Tiers[k]) = Deficit(s, Tiers[j]) /\ k < j
<1>1. DOMAIN Tiers = {1, 2, 3} /\ P(i)
  BY TiersAre
<1>2. ASSUME NEW k \in DOMAIN Tiers, P(k) PROVE k = i
  BY <1>1, <1>2
<1>3. (CHOOSE k \in DOMAIN Tiers : P(k)) = i
  BY <1>1, <1>2
<1>. QED
  BY <1>3 DEF Furthest

\* What a prefix of the sequence holds
Holds(s, n, a, b, c) ==
    /\ s \in Seq(Models) /\ Len(s) = n
    /\ Picks(s, "econo-mini") = a /\ Picks(s, "balanced-std") = b
    /\ Picks(s, "premium-max") = c

LEMMA DeficitsOf ==
    ASSUME NEW s, NEW n \in Nat, NEW a \in Nat, NEW b \in Nat, NEW c \in Nat,
           Holds(s, n, a, b, c)
    PROVE  /\ Deficit(s, Tiers[1]) = 50 * (n + 1) - 100 * a
           /\ Deficit(s, Tiers[2]) = 30 * (n + 1) - 100 * b
           /\ Deficit(s, Tiers[3]) = 20 * (n + 1) - 100 * c
BY TiersAre DEF Holds, Deficit

Grow(s) == Append(s, Furthest(s))

\* The recursive function is what its equation says.
LEMMA SequenceUnfolds ==
    /\ SequenceUpTo[0] = <<>>
    /\ \A n \in 1..10 : SequenceUpTo[n] = Grow(SequenceUpTo[n - 1])
<1> DEFINE body(f, n) == IF n = 0 THEN <<>> ELSE Append(f[n - 1], Furthest(f[n - 1]))
           s1 == Grow(<<>>)  s2 == Grow(s1)  s3 == Grow(s2)  s4 == Grow(s3)
           s5 == Grow(s4)    s6 == Grow(s5)  s7 == Grow(s6)  s8 == Grow(s7)
           s9 == Grow(s8)    s10 == Grow(s9)
           g == [n \in 0..10 |->
                   CASE n = 0 -> <<>> [] n = 1 -> s1 [] n = 2 -> s2 [] n = 3 -> s3
                     [] n = 4 -> s4 [] n = 5 -> s5 [] n = 6 -> s6 [] n = 7 -> s7
                     [] n = 8 -> s8 [] n = 9 -> s9 [] n = 10 -> s10]
<1>1. /\ g[0] = <<>> /\ g[1] = s1 /\ g[2] = s2 /\ g[3] = s3 /\ g[4] = s4
      /\ g[5] = s5 /\ g[6] = s6 /\ g[7] = s7 /\ g[8] = s8 /\ g[9] = s9 /\ g[10] = s10
      /\ DOMAIN g = 0..10
  <2> HIDE DEF s1, s2, s3, s4, s5, s6, s7, s8, s9, s10
  <2>. QED
    OBVIOUS
<1>2. \A n \in 1..10 : g[n] = Grow(g[n - 1])
  <2>1. /\ g[1] = Grow(g[0]) /\ g[2] = Grow(g[1]) /\ g[3] = Grow(g[2])
        /\ g[4] = Grow(g[3]) /\ g[5] = Grow(g[4]) /\ g[6] = Grow(g[5])
        /\ g[7] = Grow(g[6]) /\ g[8] = Grow(g[7]) /\ g[9] = Grow(g[8])
        /\ g[10] = Grow(g[9])
    <3> HIDE DEF g
    <3>. QED
      BY <1>1
  <2>2. \A n \in 1..10 : \/ n = 1 \/ n = 2 \/ n = 3 \/ n = 4 \/ n = 5 \/ n = 6
                        \/ n = 7 \/ n = 8 \/ n = 9 \/ n = 10
    OBVIOUS
  <2> HIDE DEF g
  <2>. QED
    BY <2>1, <2>2
<1>3. g = [n \in 0..10 |-> body(g, n)]
  <2>1. g = [n \in 0..10 |-> g[n]]
    OBVIOUS
  <2>2. \A n \in 0..10 : g[n] = body(g, n)
    <3>1. \A n \in 0..10 : n = 0 \/ n \in 1..10
      OBVIOUS
    <3> HIDE DEF g
    <3>2. g[0] = body(g, 0)
      BY <1>1
    <3>3. ASSUME NEW n \in 1..10 PROVE g[n] = body(g, n)
      <4>1. n # 0 /\ g[n] = Grow(g[n - 1])
        BY <1>2
      <4>. QED
        BY <4>1 DEF Grow
    <3> HIDE DEF body
    <3>. QED
      BY <3>1, <3>2, <3>3
  <2> HIDE DEF g, body
  <2>. QED
    BY <2>1, <2>2
<1> HIDE DEF g
<1>4. SequenceUpTo = [n \in 0..10 |-> body(SequenceUpTo, n)]
  BY <1>3 DEF SequenceUpTo, SequenceLength
<1>5. ASSUME NEW n \in 0..10 PROVE SequenceUpTo[n] = body(SequenceUpTo, n)
  <2> HIDE DEF body
  <2>. QED
    BY <1>4
<1>6. 0 \in 0..10 /\ \A n \in 1..10 : n \in 0..10 /\ n # 0
  OBVIOUS
<1>7. SequenceUpTo[0] = <<>>
  BY <1>5, <1>6
<1>8. ASSUME NEW n \in 1..10 PROVE SequenceUpTo[n] = Grow(SequenceUpTo[n - 1])
  <2>1. SequenceUpTo[n] = body(SequenceUpTo, n) /\ n # 0
    BY <1>5, <1>6
  <2>. QED
    BY <2>1 DEF Grow
<1>. QED
  BY <1>7, <1>8

\* The tier furthest behind is appended and picked once more.
LEMMA GrowsBy ==
    ASSUME NEW s, NEW n \in Nat, NEW a \in Nat, NEW b \in Nat, NEW c \in Nat,
           Holds(s, n, a, b, c)
    PROVE  /\ /\ 50 * (n + 1) - 100 * a >= 30 * (n + 1) - 100 * b
              /\ 50 * (n + 1) - 100 * a >= 20 * (n + 1) - 100 * c
              => /\ Grow(s) = Append(s, "econo-mini")
                 /\ Holds(Grow(s), n + 1, a + 1, b, c)
           /\ /\ 30 * (n + 1) - 100 * b > 50 * (n + 1) - 100 * a
              /\ 30 * (n + 1) - 100 * b >= 20 * (n + 1) - 100 * c
              => /\ Grow(s) = Append(s, "balanced-std")
                 /\ Holds(Grow(s), n + 1, a, b + 1, c)
           /\ /\ 20 * (n + 1) - 100 * c > 50 * (n + 1) - 100 * a
              /\ 20 * (n + 1) - 100 * c > 30 * (n + 1) - 100 * b
              => /\ Grow(s) = Append(s, "premium-max")
                 /\ Holds(Grow(s), n + 1, a, b, c + 1)
<1> DEFINE d1 == 50 * (n + 1) - 100 * a
           d2 == 30 * (n + 1) - 100 * b
           d3 == 20 * (n + 1) - 100 * c
<1>1. /\ Deficit(s, Tiers[1]) = d1 /\ Deficit(s, Tiers[2]) = d2
      /\ Deficit(s, Tiers[3]) = d3
  BY DeficitsOf
<1>2. d1 \in Int /\ d2 \in Int /\ d3 \in Int
  OBVIOUS
<1> HIDE DEF d1, d2, d3
<1>3. /\ d1 >= d2 /\ d1 >= d3 => Furthest(s) = Tiers[1]
      /\ d2 > d1 /\ d2 >= d3 => Furthest(s) = Tiers[2]
      /\ d3 > d1 /\ d3 > d2 => Furthest(s) = Tiers[3]
  <2>1. \A j \in {1, 2, 3} : Deficit(s, Tiers[j]) \in Int
    BY <1>1, <1>2
  <2>2. ASSUME d1 >= d2, d1 >= d3 PROVE Furthest(s) = Tiers[1]
    <3>1. \A j \in {1, 2, 3} \ {1} :
            \/ Deficit(s, Tiers[1]) > Deficit(s, Tiers[j])
            \/ Deficit(s, Tiers[1]) = Deficit(s, Tiers[j]) /\ 1 < j
      BY <1>1, <1>2, <2>2
    <3>. QED
      BY <2>1, <3>1, FurthestIs
  <2>3. ASSUME d2 > d1, d2 >= d3 PROVE Furthest(s) = Tiers[2]
    <3>1. \A j \in {1, 2, 3} \ {2} :
            \/ Deficit(s, Tiers[2]) > Deficit(s, Tiers[j])
            \/ Deficit(s, Tiers[2]) = Deficit(s, Tiers[j]) /\ 2 < j
      BY <1>1, <1>2, <2>3
    <3>. QED
      BY <2>1, <3>1, FurthestIs
  <2>4. ASSUME d3 > d1, d3 > d2 PROVE Furthest(s) = Tiers[3]
    <3>1. \A j \in {1, 2, 3} \ {3} :
            \/ Deficit(s, Tiers[3]) > Deficit(s, Tiers[j])
            \/ Deficit(s, Tiers[3]) = Deficit(s, Tiers[j]) /\ 3 < j
      BY <1>1, <1>2, <2>4
    <3>. QED
      BY <2>1, <3>1, FurthestIs
  <2>. QED
    BY <2>2, <2>3, <2>4
<1>4. /\ Holds(Append(s, "econo-mini"), n + 1, a + 1, b, c)
      /\ Holds(Append(s, "balanced-std"), n + 1, a, b + 1, c)
      /\ Holds(Append(s, "premium-max"), n + 1, a, b, c + 1)
  BY TiersAre, PicksAppend DEF Holds
<1>. QED
  BY <1>3, <1>4, TiersAre DEF Grow, d1, d2, d3

\* The same, tier by tier
LEMMA FirstGrows ==
    ASSUME NEW s, NEW n \in Nat, NEW a \in Nat, NEW b \in Nat, NEW c \in Nat,
           Holds(s, n, a, b, c), NEW m, n + 1 = m, NEW d, a + 1 = d,
           50 * (n + 1) - 100 * a >= 30 * (n + 1) - 100 * b,
           50 * (n + 1) - 100 * a >= 20 * (n + 1) - 100 * c
    PROVE  Grow(s) = Append(s, "econo-mini") /\ Holds(Grow(s), m, d, b, c)
BY GrowsBy

LEMMA SecondGrows ==
    ASSUME NEW s, NEW n \in Nat, NEW a \in Nat, NEW b \in Nat, NEW c \in Nat,
           Holds(s, n, a, b, c), NEW m, n + 1 = m, NEW d, b + 1 = d,
           30 * (n + 1) - 100 * b > 50 * (n + 1) - 100 * a,
           30 * (n + 1) - 100 * b >= 20 * (n + 1) - 100 * c
    PROVE  Grow(s) = Append(s, "balanced-std") /\ Holds(Grow(s), m, a, d, c)
BY GrowsBy

LEMMA ThirdGrows ==
    ASSUME NEW s, NEW n \in Nat, NEW a \in Nat, NEW b \in Nat, NEW c \in Nat,
           Holds(s, n, a, b, c), NEW m, n + 1 = m, NEW d, c + 1 = d,
           20 * (n + 1) - 100 * c > 50 * (n + 1) - 100 * a,
           20 * (n + 1) - 100 * c > 30 * (n + 1) - 100 * b
    PROVE  Grow(s) = Append(s, "premium-max") /\ Holds(Grow(s), m, a, b, d)
BY GrowsBy

LEMMA EmptyHolds == Holds(<<>>, 0, 0, 0, 0)
<1>1. \A m : {i \in DOMAIN <<>> : <<>>[i] = m} = {}
  OBVIOUS
<1>. QED
  BY <1>1, FS_EmptySet DEF Holds, Picks

Begins(s, n) == \A i \in 1..n : s[i] = FirstTen[i]

\* The next slot of the sequence
LEMMA NextSlot ==
    ASSUME NEW n \in Nat, NEW k, k = n + 1, NEW t, t = FirstTen[k],
           NEW s \in Seq(Models), Len(s) = n, Begins(s, n)
    PROVE  Begins(Append(s, t), k)
<1>1. \A i \in 1..n : Append(s, t)[i] = FirstTen[i]
  BY DEF Begins
<1>2. Append(s, t)[n + 1] = FirstTen[n + 1]
  OBVIOUS
<1>3. \A i \in 1..k : i \in 1..n \/ i = n + 1
  OBVIOUS
<1>. QED
  BY <1>1, <1>2, <1>3 DEF Begins

LEMMA SequenceIs == \A i \in 1..10 : WeightedSequence[i] = FirstTen[i]
<1>0. Holds(SequenceUpTo[0], 0, 0, 0, 0) /\ Begins(SequenceUpTo[0], 0)
  BY SequenceUnfolds, EmptyHolds DEF Begins
<1>1. Holds(SequenceUpTo[1], 1, 1, 0, 0) /\ Begins(SequenceUpTo[1], 1)
  <2>1. /\ Grow(SequenceUpTo[0]) = Append(SequenceUpTo[0], "econo-mini")
        /\ Holds(Grow(SequenceUpTo[0]), 1, 1, 0, 0)
    <3>1. /\ 50 * (0 + 1) - 100 * 0 >= 30 * (0 + 1) - 100 * 0
          /\ 50 * (0 + 1) - 100 * 0 >= 20 * (0 + 1) - 100 * 0
          /\ 0 + 1 = 1 /\ 0 + 1 = 1
          /\ 0 \in Nat /\ 0 \in Nat /\ 0 \in Nat /\ 0 \in Nat
      OBVIOUS
    <3>. QED
      BY ONLY <1>0, <3>1, FirstGrows
  <2>2. SequenceUpTo[1] = Grow(SequenceUpTo[0]) /\ "econo-mini" = FirstTen[1]
    BY SequenceUnfolds DEF FirstTen
  <2>3. Begins(Append(SequenceUpTo[0], "econo-mini"), 1)
    <3>1. /\ 0 \in Nat /\ 1 = 0 + 1 /\ SequenceUpTo[0] \in Seq(Models)
          /\ Len(SequenceUpTo[0]) = 0 /\ Begins(SequenceUpTo[0], 0)
      BY <1>0 DEF Holds
    <3>. QED
      BY ONLY <2>2, <3>1, NextSlot
  <2>. QED
    BY <2>1, <2>2, <2>3
<1>2. Holds(SequenceUpTo[2], 2, 1, 1, 0) /\ Begins(SequenceUpTo[2], 2)
  <2>1. /\ Grow(SequenceUpTo[1]) = Append(SequenceUpTo[1], "balanced-std")
        /\ Holds(Grow(SequenceUpTo[1]), 2, 1, 1, 0)
    <3>1. /\ 30 * (1 + 1) - 100 * 0 > 50 * (1 + 1) - 100 * 1
          /\ 30 * (1 + 1) - 100 * 0 >= 20 * (1 + 1) - 100 * 0
          /\ 1 + 1 = 2 /\ 0 + 1 = 1
          /\ 1 \in Nat /\ 1 \in Nat /\ 0 \in Nat /\ 0 \in Nat
      OBVIOUS
    <3>. QED
      BY ONLY <1>1, <3>1, SecondGrows
  <2>2. SequenceUpTo[2] = Grow(SequenceUpTo[1]) /\ "balanced-std" = FirstTen[2]
    BY SequenceUnfolds DEF FirstTen
  <2>3. Begins(Append(SequenceUpTo[1], "balanced-std"), 2)
    <3>1. /\ 1 \in Nat /\ 2 = 1 + 1 /\ SequenceUpTo[1] \in Seq(Models)
          /\ Len(SequenceUpTo[1]) = 1 /\ Begins(SequenceUpTo[1], 1)
      BY <1>1 DEF Holds
    <3>. QED
      BY ONLY <2>2, <3>1, NextSlot
  <2>. QED
    BY <2>1, <2>2, <2>3
<1>3. Holds(SequenceUpTo[3], 3, 1, 1, 1) /\ Begins(SequenceUpTo[3], 3)
  <2>1. /\ Grow(SequenceUpTo[2]) = Append(SequenceUpTo[2], "premium-max")
        /\ Holds(Grow(SequenceUpTo[2]), 3, 1, 1, 1)
    <3>1. /\ 20 * (2 + 1) - 100 * 0 > 50 * (2 + 1) - 100 * 1
          /\ 20 * (2 + 1) - 100 * 0 > 30 * (2 + 1) - 100 * 1
          /\ 2 + 1 = 3 /\ 0 + 1 = 1
          /\ 2 \in Nat /\ 1 \in Nat /\ 1 \in Nat /\ 0 \in Nat
      OBVIOUS
    <3>. QED
      BY ONLY <1>2, <3>1, ThirdGrows
  <2>2. SequenceUpTo[3] = Grow(SequenceUpTo[2]) /\ "premium-max" = FirstTen[3]
    BY SequenceUnfolds DEF FirstTen
  <2>3. Begins(Append(SequenceUpTo[2], "premium-max"), 3)
    <3>1. /\ 2 \in Nat /\ 3 = 2 + 1 /\ SequenceUpTo[2] \in Seq(Models)
          /\ Len(SequenceUpTo[2]) = 2 /\ Begins(SequenceUpTo[2], 2)
      BY <1>2 DEF Holds
    <3>. QED
      BY ONLY <2>2, <3>1, NextSlot
  <2>. QED
    BY <2>1, <2>2, <2>3
<1>4. Holds(SequenceUpTo[4], 4, 2, 1, 1) /\ Begins(SequenceUpTo[4], 4)
  <2>1. /\ Grow(SequenceUpTo[3]) = Append(SequenceUpTo[3], "econo-mini")
        /\ Holds(Grow(SequenceUpTo[3]), 4, 2, 1, 1)
    <3>1. /\ 50 * (3 + 1) - 100 * 1 >= 30 * (3 + 1) - 100 * 1
          /\ 50 * (3 + 1) - 100 * 1 >= 20 * (3 + 1) - 100 * 1
          /\ 3 + 1 = 4 /\ 1 + 1 = 2
          /\ 3 \in Nat /\ 1 \in Nat /\ 1 \in Nat /\ 1 \in Nat
      OBVIOUS
    <3>. QED
      BY ONLY <1>3, <3>1, FirstGrows
  <2>2. SequenceUpTo[4] = Grow(SequenceUpTo[3]) /\ "econo-mini" = FirstTen[4]
    BY SequenceUnfolds DEF FirstTen
  <2>3. Begins(Append(SequenceUpTo[3], "econo-mini"), 4)
    <3>1. /\ 3 \in Nat /\ 4 = 3 + 1 /\ SequenceUpTo[3] \in Seq(Models)
          /\ Len(SequenceUpTo[3]) = 3 /\ Begins(SequenceUpTo[3], 3)
      BY <1>3 DEF Holds
    <3>. QED
      BY ONLY <2>2, <3>1, NextSlot
  <2>. QED
    BY <2>1, <2>2, <2>3
<1>5. Holds(SequenceUpTo[5], 5, 3, 1, 1) /\ Begins(SequenceUpTo[5], 5)
  <2>1. /\ Grow(SequenceUpTo[4]) = Append(SequenceUpTo[4], "econo-mini")
        /\ Holds(Grow(SequenceUpTo[4]), 5, 3, 1, 1)
    <3>1. /\ 50 * (4 + 1) - 100 * 2 >= 30 * (4 + 1) - 100 * 1
          /\ 50 * (4 + 1) - 100 * 2 >= 20 * (4 + 1) - 100 * 1
          /\ 4 + 1 = 5 /\ 2 + 1 = 3
          /\ 4 \in Nat /\ 2 \in Nat /\ 1 \in Nat /\ 1 \in Nat
      OBVIOUS
    <3>. QED
      BY ONLY <1>4, <3>1, FirstGrows
  <2>2. SequenceUpTo[5] = Grow(SequenceUpTo[4]) /\ "econo-mini" = FirstTen[5]
    BY SequenceUnfolds DEF FirstTen
  <2>3. Begins(Append(SequenceUpTo[4], "econo-mini"), 5)
    <3>1. /\ 4 \in Nat /\ 5 = 4 + 1 /\ SequenceUpTo[4] \in Seq(Models)
          /\ Len(SequenceUpTo[4]) = 4 /\ Begins(SequenceUpTo[4], 4)
      BY <1>4 DEF Holds
    <3>. QED
      BY ONLY <2>2, <3>1, NextSlot
  <2>. QED
    BY <2>1, <2>2, <2>3
<1>6. Holds(SequenceUpTo[6], 6, 3, 2, 1) /\ Begins(SequenceUpTo[6], 6)
  <2>1. /\ Grow(SequenceUpTo[5]) = Append(SequenceUpTo[5], "balanced-std")
        /\ Holds(Grow(SequenceUpTo[5]), 6, 3, 2, 1)
    <3>1. /\ 30 * (5 + 1) - 100 * 1 > 50 * (5 + 1) - 100 * 3
          /\ 30 * (5 + 1) - 100 * 1 >= 20 * (5 + 1) - 100 * 1
          /\ 5 + 1 = 6 /\ 1 + 1 = 2
          /\ 5 \in Nat /\ 3 \in Nat /\ 1 \in Nat /\ 1 \in Nat
      OBVIOUS
    <3>. QED
      BY ONLY <1>5, <3>1, SecondGrows
  <2>2. SequenceUpTo[6] = Grow(SequenceUpTo[5]) /\ "balanced-std" = FirstTen[6]
    BY SequenceUnfolds DEF FirstTen
  <2>3. Begins(Append(SequenceUpTo[5], "balanced-std"), 6)
    <3>1. /\ 5 \in Nat /\ 6 = 5 + 1 /\ SequenceUpTo[5] \in Seq(Models)
          /\ Len(SequenceUpTo[5]) = 5 /\ Begins(SequenceUpTo[5], 5)
      BY <1>5 DEF Holds
    <3>. QED
      BY ONLY <2>2, <3>1, NextSlot
  <2>. QED
    BY <2>1, <2>2, <2>3
<1>7. Holds(SequenceUpTo[7], 7, 4, 2, 1) /\ Begins(SequenceUpTo[7], 7)
  <2>1. /\ Grow(SequenceUpTo[6]) = Append(SequenceUpTo[6], "econo-mini")
        /\ Holds(Grow(SequenceUpTo[6]), 7, 4, 2, 1)
    <3>1. /\ 50 * (6 + 1) - 100 * 3 >= 30 * (6 + 1) - 100 * 2
          /\ 50 * (6 + 1) - 100 * 3 >= 20 * (6 + 1) - 100 * 1
          /\ 6 + 1 = 7 /\ 3 + 1 = 4
          /\ 6 \in Nat /\ 3 \in Nat /\ 2 \in Nat /\ 1 \in Nat
      OBVIOUS
    <3>. QED
      BY ONLY <1>6, <3>1, FirstGrows
  <2>2. SequenceUpTo[7] = Grow(SequenceUpTo[6]) /\ "econo-mini" = FirstTen[7]
    BY SequenceUnfolds DEF FirstTen
  <2>3. Begins(Append(SequenceUpTo[6], "econo-mini"), 7)
    <3>1. /\ 6 \in Nat /\ 7 = 6 + 1 /\ SequenceUpTo[6] \in Seq(Models)
          /\ Len(SequenceUpTo[6]) = 6 /\ Begins(SequenceUpTo[6], 6)
      BY <1>6 DEF Holds
    <3>. QED
      BY ONLY <2>2, <3>1, NextSlot
  <2>. QED
    BY <2>1, <2>2, <2>3
<1>8. Holds(SequenceUpTo[8], 8, 4, 2, 2) /\ Begins(SequenceUpTo[8], 8)
  <2>1. /\ Grow(SequenceUpTo[7]) = Append(SequenceUpTo[7], "premium-max")
        /\ Holds(Grow(SequenceUpTo[7]), 8, 4, 2, 2)
    <3>1. /\ 20 * (7 + 1) - 100 * 1 > 50 * (7 + 1) - 100 * 4
          /\ 20 * (7 + 1) - 100 * 1 > 30 * (7 + 1) - 100 * 2
          /\ 7 + 1 = 8 /\ 1 + 1 = 2
          /\ 7 \in Nat /\ 4 \in Nat /\ 2 \in Nat /\ 1 \in Nat
      OBVIOUS
    <3>. QED
      BY ONLY <1>7, <3>1, ThirdGrows
  <2>2. SequenceUpTo[8] = Grow(SequenceUpTo[7]) /\ "premium-max" = FirstTen[8]
    BY SequenceUnfolds DEF FirstTen
  <2>3. Begins(Append(SequenceUpTo[7], "premium-max"), 8)
    <3>1. /\ 7 \in Nat /\ 8 = 7 + 1 /\ SequenceUpTo[7] \in Seq(Models)
          /\ Len(SequenceUpTo[7]) = 7 /\ Begins(SequenceUpTo[7], 7)
      BY <1>7 DEF Holds
    <3>. QED
      BY ONLY <2>2, <3>1, NextSlot
  <2>. QED
    BY <2>1, <2>2, <2>3
<1>9. Holds(SequenceUpTo[9], 9, 4, 3, 2) /\ Begins(SequenceUpTo[9], 9)
  <2>1. /\ Grow(SequenceUpTo[8]) = Append(SequenceUpTo[8], "balanced-std")
        /\ Holds(Grow(SequenceUpTo[8]), 9, 4, 3, 2)
    <3>1. /\ 30 * (8 + 1) - 100 * 2 > 50 * (8 + 1) - 100 * 4
          /\ 30 * (8 + 1) - 100 * 2 >= 20 * (8 + 1) - 100 * 2
          /\ 8 + 1 = 9 /\ 2 + 1 = 3
          /\ 8 \in Nat /\ 4 \in Nat /\ 2 \in Nat /\ 2 \in Nat
      OBVIOUS
    <3>. QED
      BY ONLY <1>8, <3>1, SecondGrows
  <2>2. SequenceUpTo[9] = Grow(SequenceUpTo[8]) /\ "balanced-std" = FirstTen[9]
    BY SequenceUnfolds DEF FirstTen
  <2>3. Begins(Append(SequenceUpTo[8], "balanced-std"), 9)
    <3>1. /\ 8 \in Nat /\ 9 = 8 + 1 /\ SequenceUpTo[8] \in Seq(Models)
          /\ Len(SequenceUpTo[8]) = 8 /\ Begins(SequenceUpTo[8], 8)
      BY <1>8 DEF Holds
    <3>. QED
      BY ONLY <2>2, <3>1, NextSlot
  <2>. QED
    BY <2>1, <2>2, <2>3
<1>10. Holds(SequenceUpTo[10], 10, 5, 3, 2) /\ Begins(SequenceUpTo[10], 10)
  <2>1. /\ Grow(SequenceUpTo[9]) = Append(SequenceUpTo[9], "econo-mini")
        /\ Holds(Grow(SequenceUpTo[9]), 10, 5, 3, 2)
    <3>1. /\ 50 * (9 + 1) - 100 * 4 >= 30 * (9 + 1) - 100 * 3
          /\ 50 * (9 + 1) - 100 * 4 >= 20 * (9 + 1) - 100 * 2
          /\ 9 + 1 = 10 /\ 4 + 1 = 5
          /\ 9 \in Nat /\ 4 \in Nat /\ 3 \in Nat /\ 2 \in Nat
      OBVIOUS
    <3>. QED
      BY ONLY <1>9, <3>1, FirstGrows
  <2>2. SequenceUpTo[10] = Grow(SequenceUpTo[9]) /\ "econo-mini" = FirstTen[10]
    BY SequenceUnfolds DEF FirstTen
  <2>3. Begins(Append(SequenceUpTo[9], "econo-mini"), 10)
    <3>1. /\ 9 \in Nat /\ 10 = 9 + 1 /\ SequenceUpTo[9] \in Seq(Models)
          /\ Len(SequenceUpTo[9]) = 9 /\ Begins(SequenceUpTo[9], 9)
      BY <1>9 DEF Holds
    <3>. QED
      BY ONLY <2>2, <3>1, NextSlot
  <2>. QED
    BY <2>1, <2>2, <2>3
<1>. QED
  BY <1>10 DEF WeightedSequence, SequenceLength, Begins

RouteJob == [op : {"route"}, id : Nat, row : Rows]
BatchJob == [op : {"batch"}, id : Nat, row : Rows, count : Nat, left : Int]
SmartJob == [op : {"smart"}, id : Nat, row : Rows, dimension : Dimensions]
MixedJob == [op : {"mixed"}, id : Nat, row : Rows, at : Nat, tally : [Kinds -> Nat]]
ReadJob  == [op : {"disposition"}, api : [Kinds -> Nat], redis : [Kinds -> Nat],
             rows : [Kinds -> Nat], total : Nat]
ResetJob == [op : {"reset"}, id : Nat]

Job == {NoJob} \union RouteJob \union BatchJob \union SmartJob \union MixedJob
         \union ReadJob \union ResetJob

Writing == {"insert", "count"}
Reading == {"read_api", "read_redis", "read_kinds", "read_total", "read_policies"}
Clearing == {"truncate", "reset_routing", "reset_smart", "reset_mixed"}

\* What a thread's locals are at each place of its handler
JobAt(j, at) ==
    \/ at = "idle" /\ j = NoJob
    \/ at = "insert" /\ j \in RouteJob /\ j.row = BaselineRow
    \/ at \in {"seq", "save"} /\ j \in BatchJob
    \/ at \in Writing /\ j \in BatchJob /\ j.row.kind = "weighted"
    \/ /\ at \in Writing /\ j \in SmartJob
       /\ \/ j.dimension \in DOMAIN ComplexityTiers /\ j.row.kind = "payload"
          \/ j.dimension \in DOMAIN OverrideRules /\ j.row.kind = "override"
    \/ /\ at \in Writing \union {"save"} /\ j \in MixedJob
       /\ j.at \in 1..Len(MixedPlan) /\ j.row = MixedPlan[j.at]
    \/ at \in Reading /\ j \in ReadJob
    \/ at \in Clearing /\ j \in ResetJob

Writers == {"route", "batch", "smart", "mixed", "reset"}

Op == [op : Writers, rows : Nat, done : BOOLEAN]

\* A handler that writes has its own number, and its record is open.
NumbersInv == \A w \in Workers : job[w].op \in Writers =>
    /\ job[w].id \in 1..Len(ops)
    /\ ops[job[w].id].op = job[w].op /\ ~ops[job[w].id].done
    /\ \A v \in Workers \ {w} : job[v].op \in Writers => job[v].id # job[w].id

RoutingType ==
    /\ seq \in Nat /\ counters \in [Models -> Nat] /\ lastBatch \in Nat
    /\ smart \in [Dimensions -> Nat]
    /\ mixed \in [Kinds -> Nat] /\ mixedBatch \in [Kinds -> Nat]
    /\ ledger \in [Rows -> Nat]
    /\ job \in [Workers -> Job] /\ DOMAIN pc = Workers
    /\ \A w \in Workers : JobAt(job[w], pc[w])
    /\ ops \in Seq(Op)
    /\ since \in [ops : Nat, faults : Nat]
    /\ lost \in Nat /\ stray \in SUBSET Workers /\ extra \in Nat
    /\ seen \in [Workers -> BOOLEAN]
    /\ reports \in SUBSET [whole : BOOLEAN] /\ faults \in Nat
    /\ IsFiniteSet(Receipts)

(***************************************************************************)
(* The rows.                                                               *)
(***************************************************************************)
LEMMA RowFields ==
    ASSUME NEW r \in Rows
    PROVE  /\ r.model \in Models
           /\ r.kind \in Kinds \/ r = BaselineRow
           /\ r.kind = "weighted" => r.policy = "weighted"
           /\ r.kind \in {"payload", "override"} => r.policy = "payload_smart"
<1>1. CASE \E m \in Models : r = Row("weighted", "weighted", m)
  BY <1>1 DEF Row, Kinds
<1>2. CASE \E t \in TaskClasses, o \in OverrideClasses : r = SmartRow(t, o)
  <2>1. PICK t \in TaskClasses, o \in OverrideClasses : r = SmartRow(t, o)
    BY <1>2
  <2>2. /\ SmartDecision(t, o).kind \in {"payload", "override"}
        /\ SmartDecision(t, o).model \in Models
    BY TiersAre DEF SmartDecision, ComplexityOf, ComplexityTiers, OverrideRules,
                    TaskComplexity
  <2>. QED
    BY <2>1, <2>2 DEF SmartRow, Row, Kinds
<1>3. CASE r = BaselineRow
  BY <1>3, TiersAre DEF BaselineRow, Row
<1>. QED
  BY <1>1, <1>2, <1>3 DEF Rows

LEMMA SmartRows ==
    ASSUME NEW t \in TaskClasses, NEW o \in OverrideClasses
    PROVE  /\ SmartRow(t, o) \in Rows
           /\ SmartDecision(t, o).dimension \in Dimensions
           /\ \/ /\ SmartDecision(t, o).dimension \in DOMAIN ComplexityTiers
                 /\ SmartRow(t, o).kind = "payload"
              \/ /\ SmartDecision(t, o).dimension \in DOMAIN OverrideRules
                 /\ SmartRow(t, o).kind = "override"
<1>1. SmartRow(t, o) \in Rows
  BY DEF Rows
<1>2. SmartRow(t, o).kind = SmartDecision(t, o).kind
  BY DEF SmartRow, Row
<1>3. CASE o \in DOMAIN OverrideRules
  BY <1>1, <1>2, <1>3 DEF SmartDecision, Dimensions
<1>4. CASE o \notin DOMAIN OverrideRules
  <2>1. ComplexityOf(t) \in DOMAIN ComplexityTiers
    BY DEF ComplexityOf, ComplexityTiers, TaskComplexity
  <2>. QED
    BY <1>1, <1>2, <1>4, <2>1 DEF SmartDecision, Dimensions
<1>. QED
  BY <1>3, <1>4

LEMMA WeightedPicks ==
    ASSUME NEW n \in Nat
    PROVE  /\ WeightedPick(n) = FirstTen[(n % 10) + 1]
           /\ WeightedPick(n) \in Models
           /\ WeightedRow(n) \in Rows
           /\ WeightedRow(n).kind = "weighted" /\ WeightedRow(n).model = WeightedPick(n)
<1>1. (n % 10) + 1 \in 1..10
  OBVIOUS
<1>2. WeightedPick(n) = FirstTen[(n % 10) + 1]
  BY <1>1, SequenceIs DEF WeightedPick, SequenceLength
<1>3. \A i \in 1..10 : FirstTen[i] \in Models
  BY TiersAre DEF FirstTen
<1>4. WeightedPick(n) \in Models
  BY <1>1, <1>2, <1>3
<1>. QED
  BY <1>2, <1>4 DEF WeightedRow, Row, Rows

LEMMA PlanRows ==
    /\ Len(MixedPlan) = MixedWeighted + Len(SmartCases)
    /\ Len(MixedPlan) \in Nat \ {0}
    /\ \A i \in 1..Len(MixedPlan) : MixedPlan[i] \in Rows /\ MixedPlan[i].kind \in Kinds
<1> DEFINE n == MixedWeighted + Len(SmartCases)
<1>1. n \in Nat \ {0} /\ SmartCases \in Seq(TaskClasses \X OverrideClasses)
  BY RoutingConstants
<1>2. DOMAIN MixedPlan = 1..n
  BY DEF MixedPlan
<1>3. \A i \in 1..n : MixedPlan[i] \in Rows /\ MixedPlan[i].kind \in Kinds
  <2> SUFFICES ASSUME NEW i \in 1..n
               PROVE  MixedPlan[i] \in Rows /\ MixedPlan[i].kind \in Kinds
    OBVIOUS
  <2>1. CASE i <= MixedWeighted
    <3>1. MixedPlan[i] = WeightedRow(i - 1) /\ i - 1 \in Nat
      BY <2>1 DEF MixedPlan
    <3>. QED
      BY <3>1, WeightedPicks DEF Kinds
  <2>2. CASE ~(i <= MixedWeighted)
    <3> DEFINE c == SmartCases[i - MixedWeighted]
    <3>1. i - MixedWeighted \in 1..Len(SmartCases)
      BY <2>2, <1>1, RoutingConstants
    <3>2. c[1] \in TaskClasses /\ c[2] \in OverrideClasses
      BY <1>1, <3>1
    <3>3. MixedPlan[i] = SmartRow(c[1], c[2])
      BY <2>2 DEF MixedPlan
    <3>. QED
      BY <3>2, <3>3, SmartRows DEF Kinds
  <2>. QED
    BY <2>1, <2>2
<1>4. Len(MixedPlan) = n
  <2>1. MixedPlan \in Seq(Rows)
    BY <1>1, <1>2, <1>3 DEF MixedPlan
  <2>. QED
    BY <1>1, <1>2, <2>1
<1>. QED
  BY <1>1, <1>3, <1>4

\* The operation tells the shape of the locals.
LEMMA Locals ==
    ASSUME NEW j \in Job, NEW at, JobAt(j, at)
    PROVE  /\ j.op \in Writers \union {"none", "disposition"}
           /\ j.op = "none" => j = NoJob /\ at = "idle"
           /\ j.op = "route" => j \in RouteJob /\ at = "insert" /\ j.row = BaselineRow
           /\ j.op = "batch" => /\ j \in BatchJob
                                /\ at \in {"seq", "insert", "count", "save"}
                                /\ at \in Writing => j.row.kind = "weighted"
           /\ j.op = "smart" => /\ j \in SmartJob /\ at \in Writing
                                /\ \/ /\ j.dimension \in DOMAIN ComplexityTiers
                                      /\ j.row.kind = "payload"
                                   \/ /\ j.dimension \in DOMAIN OverrideRules
                                      /\ j.row.kind = "override"
           /\ j.op = "mixed" => /\ j \in MixedJob /\ at \in Writing \union {"save"}
                                /\ j.at \in 1..Len(MixedPlan) /\ j.row = MixedPlan[j.at]
           /\ j.op = "disposition" => j \in ReadJob /\ at \in Reading
           /\ j.op = "reset" => j \in ResetJob /\ at \in Clearing
<1>1. CASE j = NoJob
  BY <1>1 DEF JobAt, NoJob, RouteJob, BatchJob, SmartJob, MixedJob, ReadJob, ResetJob, Writers
<1>2. CASE j \in RouteJob
  BY <1>2 DEF JobAt, NoJob, RouteJob, BatchJob, SmartJob, MixedJob, ReadJob, ResetJob, Writers
<1>3. CASE j \in BatchJob
  BY <1>3 DEF JobAt, NoJob, RouteJob, BatchJob, SmartJob, MixedJob, ReadJob, ResetJob, Writers, Writing
<1>4. CASE j \in SmartJob
  BY <1>4 DEF JobAt, NoJob, RouteJob, BatchJob, SmartJob, MixedJob, ReadJob, ResetJob, Writers
<1>5. CASE j \in MixedJob
  BY <1>5 DEF JobAt, NoJob, RouteJob, BatchJob, SmartJob, MixedJob, ReadJob, ResetJob, Writers
<1>6. CASE j \in ReadJob
  BY <1>6 DEF JobAt, NoJob, RouteJob, BatchJob, SmartJob, MixedJob, ReadJob, ResetJob, Writers
<1>7. CASE j \in ResetJob
  BY <1>7 DEF JobAt, NoJob, RouteJob, BatchJob, SmartJob, MixedJob, ReadJob, ResetJob, Writers
<1>. QED
  BY <1>1, <1>2, <1>3, <1>4, <1>5, <1>6, <1>7 DEF Job

\* The place tells which operations can be there.
LEMMA Places ==
    ASSUME NEW j \in Job, NEW at, JobAt(j, at)
    PROVE  /\ at = "idle" => j = NoJob
           /\ at = "seq" => j \in BatchJob
           /\ at = "insert" => j \in RouteJob \union BatchJob \union SmartJob \union MixedJob
           /\ at = "count" => j \in BatchJob \union SmartJob \union MixedJob
           /\ at = "save" => j \in BatchJob \union MixedJob
           /\ at \in Reading => j \in ReadJob
           /\ at \in Clearing => j \in ResetJob
BY DEF JobAt, Writing, Reading, Clearing

\* One thread moves; the others keep their place and their locals.
Moves(w, j, at) == job' = [job EXCEPT ![w] = j] /\ pc' = [pc EXCEPT ![w] = at]

LEMMA MoveType ==
    ASSUME job \in [Workers -> Job], DOMAIN pc = Workers,
           \A v \in Workers : JobAt(job[v], pc[v]),
           NEW w \in Workers, NEW j \in Job, NEW at, JobAt(j, at), Moves(w, j, at)
    PROVE  /\ job' \in [Workers -> Job] /\ DOMAIN pc' = Workers
           /\ \A v \in Workers : JobAt(job'[v], pc'[v])
           /\ job'[w] = j /\ pc'[w] = at
           /\ \A v \in Workers \ {w} : job'[v] = job[v] /\ pc'[v] = pc[v]
<1>1. /\ job'[w] = j /\ pc'[w] = at
      /\ \A v \in Workers \ {w} : job'[v] = job[v] /\ pc'[v] = pc[v]
      /\ job' \in [Workers -> Job] /\ DOMAIN pc' = Workers
  BY DEF Moves
<1>. QED
  BY <1>1

\* One row more
LEMMA OneMoreRow ==
    ASSUME ledger \in [Rows -> Nat], IsFiniteSet(Receipts),
           NEW r \in Rows, ledger' = [ledger EXCEPT ![r] = @ + 1]
    PROVE  LET x == <<r, ledger[r] + 1>> IN
           /\ ledger' \in [Rows -> Nat] /\ IsFiniteSet(Receipts')
           /\ Receipts' = Receipts \union {x} /\ x \notin Receipts
<1> DEFINE x == <<r, ledger[r] + 1>>
<1>1. ledger' \in [Rows -> Nat] /\ ledger[r] \in Nat
  OBVIOUS
<1>2. x \notin Receipts
  BY <1>1 DEF Receipts
<1>3. \A s \in Rows : {s} \X (1..ledger'[s]) =
        IF s = r THEN ({s} \X (1..ledger[s])) \union {x} ELSE {s} \X (1..ledger[s])
  <2>1. 1..ledger'[r] = 1..ledger[r] \union {ledger[r] + 1}
    BY <1>1
  <2>2. {r} \X (1..ledger'[r]) = ({r} \X (1..ledger[r])) \union {x}
    BY <2>1
  <2>. QED
    BY <2>2
<1>4. Receipts' = UNION {{s} \X (1..ledger'[s]) : s \in Rows}
  BY DEF Receipts
<1>5. Receipts' = Receipts \union {x}
  BY <1>3, <1>4 DEF Receipts
<1>6. IsFiniteSet(Receipts')
  BY <1>5, FS_AddElement
<1>. QED
  BY <1>1, <1>2, <1>5, <1>6

LEMMA NoRows ==
    ASSUME ledger' = [r \in Rows |-> 0]
    PROVE  ledger' \in [Rows -> Nat] /\ Receipts' = {} /\ IsFiniteSet(Receipts')
<1>1. Receipts' = UNION {{s} \X (1..ledger'[s]) : s \in Rows}
  BY DEF Receipts
<1>2. \A s \in Rows : {s} \X (1..ledger'[s]) = {}
  OBVIOUS
<1>3. Receipts' = {}
  BY <1>1, <1>2
<1>. QED
  BY <1>3, FS_EmptySet

LEMMA InitType == Init => RoutingType /\ NumbersInv
<1> SUFFICES ASSUME Init PROVE RoutingType /\ NumbersInv
  OBVIOUS
<1>1. /\ job \in [Workers -> Job] /\ DOMAIN pc = Workers
      /\ \A w \in Workers : JobAt(job[w], pc[w]) /\ job[w].op = "none"
  BY DEF Init, Job, JobAt, NoJob
<1>2. IsFiniteSet(Receipts)
  <2>1. \A s \in Rows : {s} \X (1..ledger[s]) = {}
    BY DEF Init
  <2>2. Receipts = {}
    BY <2>1 DEF Receipts
  <2>. QED
    BY <2>2, FS_EmptySet
<1>3. NumbersInv
  BY <1>1 DEF NumbersInv, Writers
<1>4. /\ counters \in [Models -> Nat] /\ smart \in [Dimensions -> Nat]
      /\ mixed \in [Kinds -> Nat] /\ mixedBatch \in [Kinds -> Nat]
      /\ ledger \in [Rows -> Nat] /\ seen \in [Workers -> BOOLEAN]
  BY DEF Init, NoTiers, NoKinds
<1>5. /\ seq \in Nat /\ lastBatch \in Nat /\ ops \in Seq(Op)
      /\ since \in [ops : Nat, faults : Nat]
      /\ lost \in Nat /\ stray \in SUBSET Workers /\ extra \in Nat
      /\ reports \in SUBSET [whole : BOOLEAN] /\ faults \in Nat
  BY DEF Init
<1>. QED
  BY <1>1, <1>2, <1>3, <1>4, <1>5 DEF RoutingType

(***************************************************************************)
(* How the handlers' records change.                                       *)
(***************************************************************************)
LEMMA Opened ==
    ASSUME ops \in Seq(Op), NumbersInv, job \in [Workers -> Job],
           NEW w \in Workers, job[w] = NoJob,
           NEW e \in Writers, ops' = Append(ops, [op |-> e, rows |-> 0, done |-> FALSE]),
           NEW j, j.op = e, j.id = Len(ops) + 1, job' = [job EXCEPT ![w] = j]
    PROVE  /\ ops' \in Seq(Op) /\ Len(ops') = Len(ops) + 1 /\ NumbersInv'
           /\ \A i \in 1..Len(ops) : ops'[i] = ops[i]
           /\ ops'[Len(ops) + 1] = [op |-> e, rows |-> 0, done |-> FALSE]
<1> DEFINE new == [op |-> e, rows |-> 0, done |-> FALSE]
<1>1. new \in Op
  BY DEF Op
<1>2. /\ ops' \in Seq(Op) /\ Len(ops') = Len(ops) + 1
      /\ \A i \in 1..Len(ops) : ops'[i] = ops[i]
      /\ ops'[Len(ops) + 1] = new
  BY <1>1
<1>3. job'[w] = j /\ \A v \in Workers \ {w} : job'[v] = job[v]
  OBVIOUS
<1>4. NumbersInv'
  <2> SUFFICES ASSUME NEW v \in Workers, job'[v].op \in Writers
               PROVE  /\ job'[v].id \in 1..Len(ops')
                      /\ ops'[job'[v].id].op = job'[v].op /\ ~ops'[job'[v].id].done
                      /\ \A u \in Workers \ {v} :
                            job'[u].op \in Writers => job'[u].id # job'[v].id
    BY DEF NumbersInv
  <2>1. CASE v = w
    <3>1. \A u \in Workers \ {w} : job'[u].op \in Writers => job'[u].id \in 1..Len(ops)
      BY <1>3 DEF NumbersInv
    <3>. QED
      BY <2>1, <1>2, <1>3, <3>1
  <2>2. CASE v # w
    <3>1. /\ job'[v] = job[v] /\ job[v].id \in 1..Len(ops)
          /\ ops[job[v].id].op = job[v].op /\ ~ops[job[v].id].done
          /\ \A u \in Workers \ {v} : job[u].op \in Writers => job[u].id # job[v].id
      BY <2>2, <1>3 DEF NumbersInv
    <3>2. job[v].id # Len(ops) + 1 /\ job[v].id \in 1..Len(ops')
      BY <3>1, <1>2
    <3>3. \A u \in Workers \ {v} : job'[u].op \in Writers => job'[u].id # job'[v].id
      BY <3>1, <3>2, <1>3
    <3>. QED
      BY <3>1, <3>2, <3>3, <1>2
  <2>. QED
    BY <2>1, <2>2
<1>. QED
  BY <1>2, <1>4

LEMMA Recorded ==
    ASSUME ops \in Seq(Op), NumbersInv, job \in [Workers -> Job],
           NEW w \in Workers, job[w].op \in Writers,
           NEW new \in Op, new.op = job[w].op,
           ops' = [ops EXCEPT ![job[w].id] = new],
           NEW j, job' = [job EXCEPT ![w] = j],
           j.op \notin Writers \/ (j.op = job[w].op /\ j.id = job[w].id /\ ~new.done)
    PROVE  /\ ops' \in Seq(Op) /\ Len(ops') = Len(ops) /\ NumbersInv'
           /\ job[w].id \in 1..Len(ops) /\ ops'[job[w].id] = new
           /\ \A i \in 1..Len(ops) \ {job[w].id} : ops'[i] = ops[i]
<1>1. job[w].id \in 1..Len(ops)
  BY DEF NumbersInv
<1>2. /\ ops' \in Seq(Op) /\ Len(ops') = Len(ops)
      /\ ops'[job[w].id] = new
      /\ \A i \in 1..Len(ops) \ {job[w].id} : ops'[i] = ops[i]
  BY <1>1
<1>3. job'[w] = j /\ \A v \in Workers \ {w} : job'[v] = job[v]
  OBVIOUS
<1>4. NumbersInv'
  <2> SUFFICES ASSUME NEW v \in Workers, job'[v].op \in Writers
               PROVE  /\ job'[v].id \in 1..Len(ops')
                      /\ ops'[job'[v].id].op = job'[v].op /\ ~ops'[job'[v].id].done
                      /\ \A u \in Workers \ {v} :
                            job'[u].op \in Writers => job'[u].id # job'[v].id
    BY DEF NumbersInv
  <2>1. CASE v = w
    <3>1. job'[v].op = job[w].op /\ job'[v].id = job[w].id /\ ~new.done
      BY <2>1, <1>3
    <3>2. \A u \in Workers \ {w} : job'[u].op \in Writers => job'[u].id # job[w].id
      BY <1>3 DEF NumbersInv
    <3>. QED
      BY <2>1, <1>1, <1>2, <3>1, <3>2
  <2>2. CASE v # w
    <3>1. /\ job'[v] = job[v] /\ job[v].id \in 1..Len(ops)
          /\ ops[job[v].id].op = job[v].op /\ ~ops[job[v].id].done
          /\ \A u \in Workers \ {v} : job[u].op \in Writers => job[u].id # job[v].id
      BY <2>2, <1>3 DEF NumbersInv
    <3>2. job[w].id # job[v].id
      BY <2>2, <3>1
    <3>3. \A u \in Workers \ {v} : job'[u].op \in Writers => job'[u].id # job'[v].id
      BY <3>1, <3>2, <1>3
    <3>. QED
      BY <3>1, <3>2, <3>3, <1>2
  <2>. QED
    BY <2>1, <2>2
<1>. QED
  BY <1>1, <1>2, <1>4

\* A step that changes no record
LEMMA Unrecorded ==
    ASSUME NumbersInv, ops' = ops,
           \A v \in Workers : \/ job'[v].op \notin Writers
                              \/ job[v].op \in Writers /\ job'[v].op = job[v].op
                                 /\ job'[v].id = job[v].id
    PROVE  NumbersInv'
BY DEF NumbersInv

LEMMA Cleared ==
    ASSUME ops \in Seq(Op), NumbersInv, job' = job,
           ops' = [i \in DOMAIN ops |-> [ops[i] EXCEPT !.rows = 0]]
    PROVE  /\ ops' \in Seq(Op) /\ Len(ops') = Len(ops) /\ NumbersInv'
           /\ \A i \in 1..Len(ops) : ops'[i] = [ops[i] EXCEPT !.rows = 0]
<1>1. DOMAIN ops = 1..Len(ops) /\ Len(ops) \in Nat /\ \A i \in 1..Len(ops) : ops[i] \in Op
  OBVIOUS
<1>2. \A i \in 1..Len(ops) : ops'[i] = [ops[i] EXCEPT !.rows = 0] /\ ops'[i] \in Op
  BY <1>1 DEF Op
<1>3. ops' \in Seq(Op) /\ Len(ops') = Len(ops)
  <2>1. DOMAIN ops' = 1..Len(ops)
    BY <1>1
  <2>. QED
    BY <1>1, <1>2, <2>1, SeqDef
<1>4. \A i \in 1..Len(ops) : ops'[i].op = ops[i].op /\ ops'[i].done = ops[i].done
  BY <1>1, <1>2 DEF Op
<1>5. NumbersInv'
  BY <1>3, <1>4 DEF NumbersInv
<1>. QED
  BY <1>2, <1>3, <1>5

(***************************************************************************)
(* What each action does to the threads: who moves, where, with which      *)
(* locals, and how the handler's record changes.                           *)
(***************************************************************************)
LEMMA StartDoes ==
    ASSUME RoutingType, NumbersInv, NEW w \in Workers, NEW e, NEW j \in Job, NEW at,
           Start(w, e, j, at), JobAt(j, at)
    PROVE  job[w] = NoJob /\ pc[w] = "idle" /\ Moves(w, j, at)
<1>1. pc[w] = "idle" /\ JobAt(job[w], pc[w]) /\ job[w] \in Job
  BY DEF Start, Idle, RoutingType
<1>2. job[w] = NoJob
  BY <1>1, Places
<1>. QED
  BY <1>1, <1>2 DEF Start, Goto, Moves

LEMMA CallDoes ==
    ASSUME RoutingType, NumbersInv, NEW w \in Workers, Call(w)
    PROVE  \E j \in Job : \E at :
              /\ JobAt(j, at) /\ Moves(w, j, at) /\ job[w] = NoJob /\ pc[w] = "idle"
              /\ UNCHANGED <<stores, since, drift, reports, faults>>
              /\ CleanResets => ~Resetting
              /\ \/ ops' = ops /\ j.op = "disposition" /\ at = "read_api" /\ j.api = NoKinds
                 \/ /\ j.op \in Writers /\ j.id = Len(ops) + 1
                    /\ ops' = Append(ops, [op |-> j.op, rows |-> 0, done |-> FALSE])
                    /\ \/ j.op \in {"route", "smart"} /\ at = "insert"
                       \/ j.op = "batch" /\ at = "seq"
                       \/ j.op = "mixed" /\ at = "insert" /\ j.at = 1 /\ j.tally = NoKinds
                       \/ j.op = "reset" /\ at = "truncate"
                          /\ (CleanResets => \A v \in Workers : Idle(v))
<1>0. Len(ops) + 1 \in Nat /\ BaselineRow \in Rows
  BY DEF RoutingType, Rows
<1>1. CASE RouteRequest(w)
  <2> DEFINE j == [op |-> "route", id |-> NextId, row |-> BaselineRow]
  <2>1. j \in RouteJob
    BY <1>0 DEF RouteJob, NextId
  <2>2. j \in Job /\ JobAt(j, "insert")
    BY <2>1 DEF Job, JobAt
  <2>3. job[w] = NoJob /\ pc[w] = "idle" /\ Moves(w, j, "insert")
    BY <1>1, <2>2, StartDoes DEF RouteRequest
  <2>. QED
    BY <1>1, <2>2, <2>3 DEF RouteRequest, Numbered, Start, NextId, Writers
<1>2. CASE RouteMixed(w)
  <2> DEFINE j == [op |-> "mixed", id |-> NextId, row |-> MixedPlan[1],
                   at |-> 1, tally |-> NoKinds]
  <2>1. j \in MixedJob /\ j.at \in 1..Len(MixedPlan)
    BY <1>0, PlanRows DEF MixedJob, NextId, NoKinds
  <2>2. j \in Job /\ JobAt(j, "insert")
    BY <2>1 DEF Job, JobAt, Writing
  <2>3. job[w] = NoJob /\ pc[w] = "idle" /\ Moves(w, j, "insert")
    BY <1>2, <2>2, StartDoes DEF RouteMixed
  <2>. QED
    BY <1>2, <2>2, <2>3 DEF RouteMixed, Numbered, Start, NextId, Writers
<1>3. CASE RoutingDisposition(w)
  <2> DEFINE j == [op |-> "disposition", api |-> NoKinds,
                   redis |-> NoKinds, rows |-> NoKinds, total |-> 0]
  <2>1. j \in ReadJob
    BY DEF ReadJob, NoKinds
  <2>2. j \in Job /\ JobAt(j, "read_api")
    BY <2>1 DEF Job, JobAt, Reading
  <2>3. job[w] = NoJob /\ pc[w] = "idle" /\ Moves(w, j, "read_api")
    BY <1>3, <2>2, StartDoes DEF RoutingDisposition
  <2>. QED
    BY <1>3, <2>2, <2>3 DEF RoutingDisposition, Start
<1>4. CASE AdminReset(w)
  <2> DEFINE j == [op |-> "reset", id |-> NextId]
  <2>1. j \in ResetJob
    BY <1>0 DEF ResetJob, NextId
  <2>2. j \in Job /\ JobAt(j, "truncate")
    BY <2>1 DEF Job, JobAt, Clearing
  <2>3. job[w] = NoJob /\ pc[w] = "idle" /\ Moves(w, j, "truncate")
    BY <1>4, <2>2, StartDoes DEF AdminReset
  <2>. QED
    BY <1>4, <2>2, <2>3 DEF AdminReset, Numbered, Start, NextId, Writers
<1>5. CASE \E n \in BatchSizes : RouteBatch(w, n)
  <2>0. PICK n \in BatchSizes : RouteBatch(w, n)
    BY <1>5
  <2> DEFINE j == [op |-> "batch", id |-> NextId, row |-> BaselineRow,
                   count |-> n, left |-> n]
  <2>1. j \in BatchJob
    <3>1. n \in Nat
      BY RoutingConstants
    <3>. QED
      BY <1>0, <3>1 DEF BatchJob, NextId
  <2>2. j \in Job /\ JobAt(j, "seq")
    BY <2>1 DEF Job, JobAt
  <2>3. job[w] = NoJob /\ pc[w] = "idle" /\ Moves(w, j, "seq")
    BY <2>0, <2>2, StartDoes DEF RouteBatch
  <2>. QED
    BY <2>0, <2>2, <2>3 DEF RouteBatch, Numbered, Start, NextId, Writers
<1>6. CASE \E r \in SmartRequests : RouteSmart(w, r[1], r[2])
  <2>0. PICK r \in SmartRequests : RouteSmart(w, r[1], r[2])
    BY <1>6
  <2>00. r[1] \in TaskClasses /\ r[2] \in OverrideClasses
    BY RoutingConstants
  <2> DEFINE j == [op |-> "smart", id |-> NextId, row |-> SmartRow(r[1], r[2]),
                   dimension |-> SmartDecision(r[1], r[2]).dimension]
  <2>1. j \in SmartJob
    BY <1>0, <2>00, SmartRows DEF SmartJob, NextId
  <2>2. j \in Job /\ JobAt(j, "insert")
    <3>1. \/ /\ j.dimension \in DOMAIN ComplexityTiers
             /\ j.row.kind = "payload"
          \/ /\ j.dimension \in DOMAIN OverrideRules
             /\ j.row.kind = "override"
      BY <2>00, SmartRows
    <3> HIDE DEF j
    <3>2. "insert" \in Writing /\ j \in Job
      BY <2>1 DEF Writing, Job
    <3>. QED
      BY <2>1, <3>1, <3>2 DEF JobAt
  <2>3. job[w] = NoJob /\ pc[w] = "idle" /\ Moves(w, j, "insert")
    BY <2>0, <2>2, StartDoes DEF RouteSmart
  <2>. QED
    BY <2>0, <2>2, <2>3 DEF RouteSmart, Numbered, Start, NextId, Writers
<1>. QED
  BY <1>1, <1>2, <1>3, <1>4, <1>5, <1>6 DEF Call

NoJobAtHome == NoJob \in Job /\ JobAt(NoJob, "idle") /\ NoJob.op = "none"

LEMMA IdleThread == NoJobAtHome
BY DEF NoJobAtHome, Job, JobAt, NoJob

LEMMA NextSeqDoes ==
    ASSUME RoutingType, NEW w \in Workers, NextSeq(w)
    PROVE  LET j == [job[w] EXCEPT !.row = WeightedRow(seq)] IN
           /\ job[w] \in BatchJob /\ job[w].op = "batch"
           /\ j \in Job /\ JobAt(j, "insert") /\ Moves(w, j, "insert")
           /\ j.op = "batch" /\ j.id = job[w].id /\ j.row = WeightedRow(seq)
<1> DEFINE j == [job[w] EXCEPT !.row = WeightedRow(seq)]
<1>1. job[w] \in BatchJob /\ seq \in Nat
  BY Places DEF NextSeq, RoutingType
<1>2. WeightedRow(seq) \in Rows /\ WeightedRow(seq).kind = "weighted"
  BY <1>1, WeightedPicks
<1>3. j \in BatchJob /\ j.row = WeightedRow(seq) /\ j.op = "batch" /\ j.id = job[w].id
      /\ job[w].op = "batch"
  BY <1>1, <1>2 DEF BatchJob
<1>4. j \in Job /\ JobAt(j, "insert")
  BY <1>2, <1>3 DEF Job, JobAt, Writing
<1>5. Moves(w, j, "insert")
  BY DEF NextSeq, Goto, Moves, RoutingType
<1>. QED
  BY <1>1, <1>3, <1>4, <1>5

LEMMA InsertDoes ==
    ASSUME RoutingType, NumbersInv, NEW w \in Workers, InsertReceipt(w)
    PROVE  /\ job[w].op \in Writers \ {"reset"} /\ job[w].row \in Rows
           /\ \E new \in Op :
                /\ new.op = job[w].op /\ new.rows = ops[job[w].id].rows + 1
                /\ new.done <=> job[w].op = "route"
                /\ ops' = [ops EXCEPT ![job[w].id] = new]
           /\ \/ /\ job[w].op = "route" /\ Moves(w, NoJob, "idle")
                 /\ job[w].row = BaselineRow
              \/ /\ job[w].op \in {"batch", "smart", "mixed"} /\ job[w].row.kind \in Kinds
                 /\ Moves(w, job[w], "count") /\ JobAt(job[w], "count")
<1>1. /\ job[w] \in RouteJob \union BatchJob \union SmartJob \union MixedJob
      /\ job[w] \in Job /\ JobAt(job[w], pc[w]) /\ pc[w] = "insert"
  BY Places DEF InsertReceipt, RoutingType
<1>2. job[w].op \in {"route", "batch", "smart", "mixed"} /\ job[w].row \in Rows
  BY <1>1 DEF RouteJob, BatchJob, SmartJob, MixedJob
<1>3. /\ job[w].id \in 1..Len(ops) /\ ops[job[w].id].op = job[w].op
      /\ ops \in Seq(Op)
  BY <1>2 DEF NumbersInv, Writers, RoutingType
<1>4. ops[job[w].id] \in Op
  BY <1>3
<1>5. \E new \in Op : /\ new.op = job[w].op /\ new.rows = ops[job[w].id].rows + 1
                      /\ new.done <=> job[w].op = "route"
                      /\ ops' = [ops EXCEPT ![job[w].id] = new]
  <2> DEFINE b == job[w].op = "route"
             i == job[w].id
             r == [ops[i] EXCEPT !.rows = @ + 1]
             new == [r EXCEPT !.done = b]
  <2>1. b \in BOOLEAN /\ (b <=> job[w].op = "route")
    OBVIOUS
  <2>2. ops' = [ops EXCEPT ![i].rows = @ + 1, ![i].done = b]
    BY DEF InsertReceipt
  <2> HIDE DEF b
  <2>3. /\ r \in Op /\ r.op = job[w].op /\ r.rows = ops[i].rows + 1
    <3> DEFINE e == ops[i]
    <3>1. e \in Op /\ e.op = job[w].op
      BY <1>3, <1>4
    <3> HIDE DEF e
    <3>2. LET x == [e EXCEPT !.rows = @ + 1] IN
          x \in Op /\ x.op = e.op /\ x.rows = e.rows + 1
      BY <3>1 DEF Op
    <3>. QED
      BY <3>1, <3>2 DEF e
  <2>4. ops' = [ops EXCEPT ![i] = new]
    BY <1>3, <2>2
  <2> HIDE DEF r
  <2>5. new \in Op /\ new.op = r.op /\ new.rows = r.rows /\ new.done = b
    BY <2>1, <2>3 DEF Op
  <2> HIDE DEF new
  <2>. QED
    BY <2>1, <2>3, <2>4, <2>5
<1>6. CASE job[w].op = "route"
  <2>1. Moves(w, NoJob, "idle")
    BY <1>6 DEF InsertReceipt, Done, Goto, Moves
  <2>2. job[w].row = BaselineRow
    BY <1>1, <1>6, Locals
  <2>. QED
    BY <1>2, <1>5, <1>6, <2>1, <2>2 DEF Writers
<1>7. CASE job[w].op # "route"
  <2>1. Moves(w, job[w], "count")
    <3>1. job' = job /\ pc' = [pc EXCEPT ![w] = "count"]
      BY <1>7 DEF InsertReceipt, Goto
    <3>2. job = [job EXCEPT ![w] = job[w]]
      BY DEF RoutingType
    <3>. QED
      BY <3>1, <3>2 DEF Moves
  <2>2. JobAt(job[w], "count")
    BY <1>1, <1>7 DEF JobAt, Writing, Reading, Clearing, RouteJob
  <2>3. job[w].row.kind \in Kinds
    BY <1>1, <1>2, <1>7, Locals, PlanRows DEF Kinds, Writing
  <2>. QED
    BY <1>2, <1>5, <1>7, <2>1, <2>2, <2>3 DEF Writers
<1>. QED
  BY <1>6, <1>7

LEMMA CountDoes ==
    ASSUME RoutingType, NEW w \in Workers, IncrCount(w)
    PROVE  /\ job[w] \in BatchJob /\ job[w].op = "batch" /\ job[w].row \in Rows
           /\ job[w].row.kind = "weighted"
           /\ \E j \in Job, at \in {"seq", "save"} :
                /\ JobAt(j, at) /\ Moves(w, j, at)
                /\ j.op = "batch" /\ j.id = job[w].id
<1> DEFINE j == [job[w] EXCEPT !.left = @ - 1]
           at == IF job[w].left > 1 THEN "seq" ELSE "save"
<1>1. /\ job[w] \in Job /\ JobAt(job[w], "count") /\ job[w].op = "batch"
  BY DEF IncrCount, RoutingType
<1>2. job[w] \in BatchJob /\ job[w].row.kind = "weighted"
  BY <1>1, Locals DEF Writing
<1>3. j \in BatchJob /\ j.op = "batch" /\ j.id = job[w].id
  BY <1>2 DEF BatchJob
<1>4. Moves(w, j, at) /\ at \in {"seq", "save"}
  BY DEF IncrCount, Moves, Goto
<1> HIDE DEF j, at
<1>5. j \in Job /\ JobAt(j, at)
  BY <1>3, <1>4 DEF Job, JobAt
<1>. QED
  BY <1>1, <1>2, <1>3, <1>4, <1>5 DEF BatchJob

\* A handler that returns: its record is closed.
Closes(w) ==
    /\ job[w].op \in Writers /\ Moves(w, NoJob, "idle")
    /\ \E new \in Op : /\ new.op = job[w].op /\ new.done
                       /\ new.rows = ops[job[w].id].rows
                       /\ ops' = [ops EXCEPT ![job[w].id] = new]

LEMMA CloseDoes ==
    ASSUME RoutingType, NumbersInv, NEW w \in Workers, job[w].op \in Writers,
           ops' = [ops EXCEPT ![job[w].id].done = TRUE], Done(w)
    PROVE  Closes(w)
<1> DEFINE i == job[w].id
           new == [ops[i] EXCEPT !.done = TRUE]
<1>1. ops[i] \in Op /\ ops[i].op = job[w].op
  BY DEF RoutingType, NumbersInv
<1>2. new \in Op /\ new.op = job[w].op /\ new.done /\ new.rows = ops[i].rows
  BY <1>1 DEF Op
<1>3. ops' = [ops EXCEPT ![i] = new]
  BY <1>1
<1>4. Moves(w, NoJob, "idle")
  BY DEF Done, Goto, Moves
<1> HIDE DEF new
<1>. QED
  BY <1>2, <1>3, <1>4 DEF Closes

LEMMA SaveDoes ==
    ASSUME RoutingType, NumbersInv, NEW w \in Workers
    PROVE  /\ SetLastBatch(w) => job[w] \in BatchJob /\ Closes(w)
           /\ SetMixedBatch(w) => /\ job[w] \in MixedJob /\ Closes(w)
                                  /\ job[w].at \in 1..Len(MixedPlan)
           /\ SmartIncr(w) =>
                /\ job[w] \in SmartJob /\ Closes(w)
                /\ \/ job[w].dimension \in DOMAIN ComplexityTiers /\ job[w].row.kind = "payload"
                   \/ job[w].dimension \in DOMAIN OverrideRules /\ job[w].row.kind = "override"
<1>1. /\ job[w] \in Job /\ JobAt(job[w], pc[w])
      /\ {"batch", "smart", "mixed"} \subseteq Writers
  BY DEF RoutingType, Writers
<1>2. ASSUME SetLastBatch(w) PROVE job[w] \in BatchJob /\ Closes(w)
  BY <1>1, <1>2, Locals, CloseDoes DEF SetLastBatch
<1>3. ASSUME SetMixedBatch(w) PROVE /\ job[w] \in MixedJob /\ Closes(w)
                                    /\ job[w].at \in 1..Len(MixedPlan)
  BY <1>1, <1>3, Locals, CloseDoes DEF SetMixedBatch
<1>4. ASSUME SmartIncr(w)
      PROVE  /\ job[w] \in SmartJob /\ Closes(w)
             /\ \/ job[w].dimension \in DOMAIN ComplexityTiers /\ job[w].row.kind = "payload"
                \/ job[w].dimension \in DOMAIN OverrideRules /\ job[w].row.kind = "override"
  BY <1>1, <1>4, Locals, CloseDoes DEF SmartIncr
<1>. QED
  BY <1>2, <1>3, <1>4

\* A tally with one more of a kind
LEMMA Tallied ==
    ASSUME NEW f \in [Kinds -> Nat], NEW k \in Kinds
    PROVE  /\ [f EXCEPT ![k] = @ + 1] \in [Kinds -> Nat]
           /\ KindTotal([f EXCEPT ![k] = @ + 1]) = KindTotal(f) + 1
           /\ KindTotal(f) \in Nat
<1>1. k = "weighted" \/ k = "payload" \/ k = "override"
  BY DEF Kinds
<1>2. /\ "weighted" \in Kinds /\ "payload" \in Kinds /\ "override" \in Kinds
  BY DEF Kinds
<1>3. f["weighted"] \in Nat /\ f["payload"] \in Nat /\ f["override"] \in Nat
  BY <1>2
<1>. QED
  BY <1>1, <1>2, <1>3 DEF KindTotal

LEMMA MixedDoes ==
    ASSUME RoutingType, NEW w \in Workers, MixedIncr(w)
    PROVE  /\ job[w] \in MixedJob /\ job[w].op = "mixed" /\ job[w].at \in 1..Len(MixedPlan)
           /\ job[w].row = MixedPlan[job[w].at] /\ job[w].row.kind \in Kinds
           /\ \E j \in MixedJob, at \in {"insert", "save"} :
                /\ j \in Job /\ JobAt(j, at) /\ Moves(w, j, at)
                /\ j.op = "mixed" /\ j.id = job[w].id
                /\ j.tally = [job[w].tally EXCEPT ![job[w].row.kind] = @ + 1]
                /\ \/ at = "insert" /\ j.at = job[w].at + 1
                   \/ at = "save" /\ j.at = job[w].at /\ j.at = Len(MixedPlan)
<1> DEFINE k == job[w].row.kind
<1>1. /\ job[w] \in Job /\ JobAt(job[w], "count") /\ job[w].op = "mixed"
  BY DEF MixedIncr, RoutingType
<1>2. /\ job[w] \in MixedJob /\ job[w].at \in 1..Len(MixedPlan)
      /\ job[w].row = MixedPlan[job[w].at]
  BY <1>1, Locals
<1>3. k \in Kinds /\ Len(MixedPlan) \in Nat
  BY <1>2, PlanRows
<1>4. CASE job[w].at < Len(MixedPlan)
  <2> DEFINE n == job[w].at + 1
             j1 == [job[w] EXCEPT !.tally[k] = @ + 1]
             j2 == [j1 EXCEPT !.at = @ + 1]
             j == [j2 EXCEPT !.row = MixedPlan[n]]
  <2>1. n \in 1..Len(MixedPlan) /\ MixedPlan[n] \in Rows
    BY <1>2, <1>3, <1>4, PlanRows
  <2>2. /\ job' = [job EXCEPT ![w].tally[k] = @ + 1, ![w].at = @ + 1,
                              ![w].row = MixedPlan[n]]
        /\ Goto(w, "insert")
    <3>1. job[w].at # Len(MixedPlan)
      BY <1>2, <1>3, <1>4
    <3>. QED
      BY <3>1, Zenon DEF MixedIncr
  <2>3. Moves(w, j, "insert")
    <3>1. job' = [job EXCEPT ![w] = j]
      <4>1. w \in DOMAIN job
        BY DEF RoutingType
      <4>3. [job EXCEPT ![w].tally[k] = @ + 1] = [job EXCEPT ![w] = j1]
        BY <4>1
      <4>4. job' = [[[job EXCEPT ![w].tally[k] = @ + 1] EXCEPT ![w].at = @ + 1]
                      EXCEPT ![w].row = MixedPlan[n]]
        <5> HIDE DEF k
        <5>. QED
          BY <2>2
      <4>2. job' = [[[job EXCEPT ![w] = j1] EXCEPT ![w].at = @ + 1]
                      EXCEPT ![w].row = MixedPlan[n]]
        BY <4>3, <4>4
      <4> HIDE DEF j1, n
      <4>. QED
        BY <4>1, <4>2
    <3>. QED
      BY <2>2, <3>1 DEF Moves, Goto
  <2>4. /\ j1 \in MixedJob /\ j1.op = "mixed" /\ j1.id = job[w].id /\ j1.at = job[w].at
        /\ j1.tally = [job[w].tally EXCEPT ![k] = @ + 1]
    BY <1>2, <1>3, Tallied DEF MixedJob
  <2>5. j2 \in MixedJob /\ j2.op = "mixed" /\ j2.id = j1.id /\ j2.at = n
        /\ j2.tally = j1.tally
    <3> HIDE DEF j1
    <3>. QED
      BY <1>2, <2>1, <2>4 DEF MixedJob
  <2>6. /\ j \in MixedJob /\ j.op = "mixed" /\ j.id = job[w].id /\ j.at = n
        /\ j.row = MixedPlan[n] /\ j.tally = [job[w].tally EXCEPT ![k] = @ + 1]
    <3> HIDE DEF j2
    <3>. QED
      BY <2>1, <2>4, <2>5 DEF MixedJob
  <2> HIDE DEF j
  <2>7. j \in Job /\ JobAt(j, "insert")
    BY <2>1, <2>6 DEF Job, JobAt, Writing
  <2>. QED
    BY <1>1, <1>2, <1>3, <2>3, <2>6, <2>7
<1>5. CASE ~(job[w].at < Len(MixedPlan))
  <2> DEFINE j == [job[w] EXCEPT !.tally[k] = @ + 1]
  <2>1. job[w].at = Len(MixedPlan)
    BY <1>2, <1>3, <1>5
  <2>2. job' = [job EXCEPT ![w].tally[k] = @ + 1] /\ Goto(w, "save")
    BY <1>2, <1>3, <1>5 DEF MixedIncr
  <2>3. Moves(w, j, "save")
    BY <2>2 DEF Moves, Goto, RoutingType
  <2>4. /\ j \in MixedJob /\ j.op = "mixed" /\ j.id = job[w].id /\ j.at = job[w].at
        /\ j.row = job[w].row /\ j.tally = [job[w].tally EXCEPT ![k] = @ + 1]
    BY <1>2, <1>3, Tallied DEF MixedJob
  <2> HIDE DEF j
  <2>5. j \in Job /\ JobAt(j, "save")
    BY <1>2, <2>4 DEF Job, JobAt, Writing
  <2>. QED
    BY <1>1, <1>2, <1>3, <2>1, <2>3, <2>4, <2>5
<1>. QED
  BY <1>4, <1>5

\* The steps of a reset keep the thread's locals, the last one drops them.
LEMMA ResetDoes ==
    ASSUME RoutingType, NEW w \in Workers
    PROVE  /\ ClearReceipts(w) => /\ job[w] \in ResetJob /\ Moves(w, job[w], "reset_routing")
                                  /\ JobAt(job[w], "reset_routing")
           /\ ResetRouting(w) => /\ job[w] \in ResetJob /\ Moves(w, job[w], "reset_smart")
                                 /\ JobAt(job[w], "reset_smart")
           /\ ResetSmart(w) => /\ job[w] \in ResetJob /\ Moves(w, job[w], "reset_mixed")
                               /\ JobAt(job[w], "reset_mixed")
           /\ ResetMixed(w) => job[w] \in ResetJob /\ Moves(w, NoJob, "idle")
<1>1. /\ job[w] \in Job /\ JobAt(job[w], pc[w])
      /\ job = [job EXCEPT ![w] = job[w]]
  BY DEF RoutingType
<1>2. \A at \in Clearing : pc[w] = at => job[w] \in ResetJob
  BY <1>1, Places
<1>3. job[w] \in ResetJob => \A at \in Clearing : JobAt(job[w], at)
  BY DEF JobAt
<1>4. Clearing = {"truncate", "reset_routing", "reset_smart", "reset_mixed"}
  BY DEF Clearing
<1>5. ClearReceipts(w) => job[w] \in ResetJob /\ Moves(w, job[w], "reset_routing")
  BY <1>1, <1>2, <1>4 DEF ClearReceipts, Goto, Moves
<1>6. ResetRouting(w) => job[w] \in ResetJob /\ Moves(w, job[w], "reset_smart")
  BY <1>1, <1>2, <1>4 DEF ResetRouting, Goto, Moves
<1>7. ResetSmart(w) => job[w] \in ResetJob /\ Moves(w, job[w], "reset_mixed")
  BY <1>1, <1>2, <1>4 DEF ResetSmart, Goto, Moves
<1>8. ResetMixed(w) => job[w] \in ResetJob /\ Moves(w, NoJob, "idle")
  BY <1>1, <1>2, <1>4 DEF ResetMixed, Done, Goto, Moves
<1>. QED
  BY <1>3, <1>4, <1>5, <1>6, <1>7, <1>8

LEMMA RowCounts ==
    ASSUME RoutingType
    PROVE  /\ CountReceipts \in Nat /\ CountByKind \in [Kinds -> Nat]
           /\ InconsistentReceipts = 0
<1>1. IsFiniteSet(Receipts)
  BY DEF RoutingType
<1>2. CountReceipts \in Nat
  BY <1>1, FS_CardinalityType DEF CountReceipts
<1>3. \A k \in Kinds : Cardinality({x \in Receipts : x[1].kind = k}) \in Nat
  <2> SUFFICES ASSUME NEW k \in Kinds
               PROVE  Cardinality({x \in Receipts : x[1].kind = k}) \in Nat
    OBVIOUS
  <2>1. IsFiniteSet({x \in Receipts : x[1].kind = k})
    BY <1>1, FS_Subset
  <2>. QED
    BY <2>1, FS_CardinalityType
<1>4. \A x \in Receipts : x[1] \in Rows
  BY DEF Receipts
<1>5. {x \in Receipts : Inconsistent(x[1])} = {}
  BY <1>4, RowFields DEF Inconsistent
<1>. QED
  BY <1>2, <1>3, <1>5, FS_EmptySet DEF CountByKind, InconsistentReceipts

\* A read of the disposition
ReadInto(w, at, next, field, value) ==
    /\ pc[w] = at /\ job[w] \in ReadJob /\ job[w].op = "disposition"
    /\ Moves(w, [job[w] EXCEPT ![field] = value], next)
    /\ [job[w] EXCEPT ![field] = value] \in ReadJob
    /\ JobAt([job[w] EXCEPT ![field] = value], next)

LEMMA ReadDoes ==
    ASSUME RoutingType, NEW w \in Workers, ReadSources(w)
    PROVE  /\ UNCHANGED <<stores, history>>
           /\ \/ ReadInto(w, "read_api", "read_redis", "api", mixedBatch)
              \/ ReadInto(w, "read_redis", "read_kinds", "redis", mixed)
              \/ ReadInto(w, "read_kinds", "read_total", "rows", CountByKind)
              \/ ReadInto(w, "read_total", "read_policies", "total", CountReceipts)
<1>1. /\ job[w] \in Job /\ JobAt(job[w], pc[w])
      /\ mixedBatch \in [Kinds -> Nat] /\ mixed \in [Kinds -> Nat]
  BY DEF RoutingType
<1>2. \A j \in ReadJob : \A at \in Reading : JobAt(j, at)
  BY DEF JobAt
<1>3. pc[w] \in Reading => job[w] \in ReadJob /\ job[w].op = "disposition"
  BY <1>1, Places DEF ReadJob
<1>4. Reading = {"read_api", "read_redis", "read_kinds", "read_total", "read_policies"}
  BY DEF Reading
<1>5. \A at, next, field, value : Read(w, at, field, value, next) =>
        /\ UNCHANGED <<stores, history>> /\ pc[w] = at
        /\ Moves(w, [job[w] EXCEPT ![field] = value], next)
  BY DEF Read, Moves, Goto, RoutingType
<1>6. ASSUME Read(w, "read_api", "api", mixedBatch, "read_redis")
      PROVE  ReadInto(w, "read_api", "read_redis", "api", mixedBatch)
  <2>1. job[w] \in ReadJob /\ [job[w] EXCEPT !["api"] = mixedBatch] \in ReadJob
    BY <1>1, <1>3, <1>4, <1>5, <1>6 DEF ReadJob
  <2>. QED
    BY <1>2, <1>3, <1>4, <1>5, <1>6, <2>1 DEF ReadInto
<1>7. ASSUME Read(w, "read_redis", "redis", mixed, "read_kinds")
      PROVE  ReadInto(w, "read_redis", "read_kinds", "redis", mixed)
  <2>1. job[w] \in ReadJob /\ [job[w] EXCEPT !["redis"] = mixed] \in ReadJob
    BY <1>1, <1>3, <1>4, <1>5, <1>7 DEF ReadJob
  <2>. QED
    BY <1>2, <1>3, <1>4, <1>5, <1>7, <2>1 DEF ReadInto
<1>8. ASSUME Read(w, "read_kinds", "rows", CountByKind, "read_total")
      PROVE  ReadInto(w, "read_kinds", "read_total", "rows", CountByKind)
  <2>1. job[w] \in ReadJob /\ [job[w] EXCEPT !["rows"] = CountByKind] \in ReadJob
    BY <1>1, <1>3, <1>4, <1>5, <1>8, RowCounts DEF ReadJob
  <2>. QED
    BY <1>2, <1>3, <1>4, <1>5, <1>8, <2>1 DEF ReadInto
<1>9. ASSUME Read(w, "read_total", "total", CountReceipts, "read_policies")
      PROVE  ReadInto(w, "read_total", "read_policies", "total", CountReceipts)
  <2>1. job[w] \in ReadJob /\ [job[w] EXCEPT !["total"] = CountReceipts] \in ReadJob
    BY <1>1, <1>3, <1>4, <1>5, <1>9, RowCounts DEF ReadJob
  <2>. QED
    BY <1>2, <1>3, <1>4, <1>5, <1>9, <2>1 DEF ReadInto
<1>. QED
  BY <1>5, <1>6, <1>7, <1>8, <1>9 DEF ReadSources

LEMMA DecideDoes ==
    ASSUME RoutingType, NEW w \in Workers, Decide(w)
    PROVE  /\ job[w] \in ReadJob /\ job[w].op = "disposition" /\ Moves(w, NoJob, "idle")
           /\ reports' \in SUBSET [whole : BOOLEAN]
           /\ UNCHANGED <<stores, ops, since, drift, faults>>
<1>1. job[w] \in Job /\ JobAt(job[w], pc[w]) /\ pc[w] \in Reading /\ seen[w] \in BOOLEAN
  BY DEF RoutingType, Decide, Reading
<1>2. job[w] \in ReadJob
  BY <1>1, Places
<1>3. reports' = reports \/ reports' = reports \union {[whole |-> seen[w]]}
  BY DEF Decide
<1>4. reports' \in SUBSET [whole : BOOLEAN]
  BY <1>1, <1>3 DEF RoutingType
<1>. QED
  BY <1>2, <1>4 DEF Decide, Done, Goto, Moves, ReadJob

LEMMA FailDoes ==
    ASSUME RoutingType, NEW w \in Workers, Fail(w)
    PROVE  /\ Moves(w, NoJob, "idle") /\ job[w].op # "none" /\ pc[w] # "idle"
           /\ faults' = faults + 1 /\ stray' = stray \ {w}
           /\ lost' \in Nat
           /\ UNCHANGED <<stores, ops, since, extra, reports>>
<1>1. job[w] \in Job /\ JobAt(job[w], pc[w]) /\ pc[w] # "idle"
  BY DEF RoutingType, Fail, Idle
<1>2. job[w].op # "none"
  BY <1>1, Locals
<1>3. lost' \in Nat
  BY DEF RoutingType, Fail
<1>. QED
  BY <1>1, <1>2, <1>3 DEF Fail, Done, Goto, Moves

\* The parts of the type that a move of one thread can disturb
LocalsType ==
    /\ job \in [Workers -> Job] /\ DOMAIN pc = Workers
    /\ \A w \in Workers : JobAt(job[w], pc[w])

StoresType ==
    /\ seq \in Nat /\ counters \in [Models -> Nat] /\ lastBatch \in Nat
    /\ smart \in [Dimensions -> Nat]
    /\ mixed \in [Kinds -> Nat] /\ mixedBatch \in [Kinds -> Nat]
    /\ ledger \in [Rows -> Nat] /\ IsFiniteSet(Receipts)

HistoryType ==
    /\ ops \in Seq(Op)
    /\ since \in [ops : Nat, faults : Nat]
    /\ lost \in Nat /\ stray \in SUBSET Workers /\ extra \in Nat
    /\ reports \in SUBSET [whole : BOOLEAN] /\ faults \in Nat

LEMMA TypeParts ==
    RoutingType <=> LocalsType /\ StoresType /\ HistoryType /\ seen \in [Workers -> BOOLEAN]
BY DEF RoutingType, LocalsType, StoresType, HistoryType

LEMMA LocalsStep ==
    ASSUME LocalsType, NEW w \in Workers, NEW j \in Job, NEW at, JobAt(j, at), Moves(w, j, at)
    PROVE  /\ LocalsType' /\ job'[w] = j /\ pc'[w] = at
           /\ \A v \in Workers \ {w} : job'[v] = job[v] /\ pc'[v] = pc[v]
BY MoveType DEF LocalsType

LEMMA StoresKept == StoresType /\ UNCHANGED stores => StoresType'
BY DEF StoresType, stores, weightedKeys, mixedKeys, Receipts

LEMMA Numbers ==
    ASSUME RoutingType, NumbersInv, NEW w \in Workers
    PROVE  /\ Call(w) \/ InsertReceipt(w) \/ Closes(w) \/ ClearReceipts(w)
                => ops' \in Seq(Op) /\ NumbersInv'
           /\ ops' = ops /\ (\E j, at : /\ j \in Job /\ Moves(w, j, at)
                                       /\ \/ j.op \notin Writers
                                          \/ j.op = job[w].op /\ j.id = job[w].id)
              => NumbersInv'
<1>1. /\ ops \in Seq(Op) /\ job \in [Workers -> Job]
      /\ NoJob.op \notin Writers /\ "disposition" \notin Writers
  BY DEF RoutingType, NoJob, Writers
<1>2. ASSUME ops' = ops, NEW j \in Job, NEW at, Moves(w, j, at),
             \/ j.op \notin Writers
             \/ j.op = job[w].op /\ j.id = job[w].id
      PROVE  NumbersInv'
  <2>1. job'[w] = j /\ \A v \in Workers \ {w} : job'[v] = job[v]
    BY <1>1, <1>2 DEF Moves
  <2>. QED
    BY <1>2, <2>1, Unrecorded
<1>3. ASSUME Call(w) PROVE ops' \in Seq(Op) /\ NumbersInv'
  <2>1. PICK j, at :
              /\ j \in Job
              /\ JobAt(j, at) /\ Moves(w, j, at) /\ job[w] = NoJob
              /\ \/ ops' = ops /\ j.op = "disposition"
                 \/ /\ j.op \in Writers /\ j.id = Len(ops) + 1
                    /\ ops' = Append(ops, [op |-> j.op, rows |-> 0, done |-> FALSE])
    BY <1>3, CallDoes
  <2>2. CASE ops' = ops /\ j.op = "disposition"
    BY <1>1, <1>2, <2>1, <2>2
  <2>3. CASE /\ j.op \in Writers /\ j.id = Len(ops) + 1
             /\ ops' = Append(ops, [op |-> j.op, rows |-> 0, done |-> FALSE])
    BY <1>1, <2>1, <2>3, Opened DEF Moves
  <2>. QED
    BY <2>1, <2>2, <2>3
<1>4. ASSUME InsertReceipt(w) PROVE ops' \in Seq(Op) /\ NumbersInv'
  <2>1. PICK new \in Op : /\ new.op = job[w].op
                          /\ new.done <=> job[w].op = "route"
                          /\ ops' = [ops EXCEPT ![job[w].id] = new]
    BY <1>4, InsertDoes
  <2>2. /\ job[w].op \in Writers
        /\ \/ job[w].op = "route" /\ Moves(w, NoJob, "idle")
           \/ job[w].op \in {"batch", "smart", "mixed"} /\ Moves(w, job[w], "count")
    BY <1>4, InsertDoes
  <2>3. CASE Moves(w, NoJob, "idle")
    BY <1>1, <2>1, <2>2, <2>3, Recorded DEF Moves
  <2>4. CASE job[w].op \in {"batch", "smart", "mixed"} /\ Moves(w, job[w], "count")
    BY <1>1, <2>1, <2>2, <2>4, Recorded DEF Moves
  <2>. QED
    BY <2>2, <2>3, <2>4
<1>5. ASSUME Closes(w) PROVE ops' \in Seq(Op) /\ NumbersInv'
  <2>1. PICK new \in Op : /\ new.op = job[w].op
                          /\ ops' = [ops EXCEPT ![job[w].id] = new]
    BY <1>5 DEF Closes
  <2>. QED
    BY <1>1, <1>5, <2>1, Recorded DEF Moves, Closes
<1>6. ASSUME ClearReceipts(w) PROVE ops' \in Seq(Op) /\ NumbersInv'
  BY <1>1, <1>6, Cleared DEF ClearReceipts
<1>. QED
  BY <1>2, <1>3, <1>4, <1>5, <1>6

\* Counters count up or start over.
LEMMA CountedOnce ==
    ASSUME RoutingType, NumbersInv, NEW w \in Workers
    PROVE  /\ IncrCount(w) => counters' \in [Models -> Nat] /\ extra' \in Nat
           /\ SmartIncr(w) => smart' \in [Dimensions -> Nat]
           /\ MixedIncr(w) => mixed' \in [Kinds -> Nat]
           /\ SetLastBatch(w) => lastBatch' \in Nat
           /\ SetMixedBatch(w) => mixedBatch' \in [Kinds -> Nat]
<1>1. ASSUME IncrCount(w) PROVE counters' \in [Models -> Nat] /\ extra' \in Nat
  <2>1. job[w].row.model \in Models
    BY <1>1, CountDoes, RowFields
  <2>2. /\ counters' = [counters EXCEPT ![job[w].row.model] = @ + 1]
        /\ extra' = IF w \in stray THEN extra + 1 ELSE extra
    BY <1>1 DEF IncrCount
  <2>. QED
    BY <2>1, <2>2 DEF RoutingType
<1>2. ASSUME SmartIncr(w) PROVE smart' \in [Dimensions -> Nat]
  <2>1. job[w].dimension \in Dimensions
    BY <1>2, SaveDoes DEF SmartJob
  <2>2. smart' = [smart EXCEPT ![job[w].dimension] = @ + 1]
    BY <1>2 DEF SmartIncr
  <2>. QED
    BY <2>1, <2>2 DEF RoutingType
<1>3. ASSUME MixedIncr(w) PROVE mixed' \in [Kinds -> Nat]
  <2>1. job[w].row.kind \in Kinds
    BY <1>3, MixedDoes
  <2>2. mixed' = [mixed EXCEPT ![job[w].row.kind] = @ + 1]
    BY <1>3 DEF MixedIncr
  <2>. QED
    BY <2>1, <2>2, Tallied DEF RoutingType
<1>4. job[w] \in Job /\ JobAt(job[w], pc[w])
  BY DEF RoutingType
<1>5. SetLastBatch(w) => job[w] \in BatchJob
  BY <1>4, Locals DEF SetLastBatch
<1>6. SetMixedBatch(w) => job[w] \in MixedJob
  BY <1>4, Locals DEF SetMixedBatch
<1>7. SetLastBatch(w) => lastBatch' \in Nat
  BY <1>5 DEF SetLastBatch, BatchJob
<1>8. SetMixedBatch(w) => mixedBatch' \in [Kinds -> Nat]
  BY <1>6 DEF SetMixedBatch, MixedJob
<1>. QED
  BY <1>1, <1>2, <1>3, <1>7, <1>8

LEMMA ThreadTypes ==
    ASSUME RoutingType, NumbersInv, NEW w \in Workers, Call(w) \/ Step(w) \/ Fail(w)
    PROVE  LocalsType' /\ NumbersInv'
<1>0. LocalsType /\ NoJob \in Job /\ JobAt(NoJob, "idle") /\ NoJob.op \notin Writers
  BY TypeParts, IdleThread DEF NoJobAtHome, Writers
<1>1. CASE Call(w)
  BY <1>0, <1>1, CallDoes, LocalsStep, Numbers
<1>2. CASE NextSeq(w)
  <2>1. ops' = ops
    BY <1>2 DEF NextSeq, history
  <2>2. PICK j \in Job : /\ JobAt(j, "insert") /\ Moves(w, j, "insert")
                         /\ j.op = job[w].op /\ j.id = job[w].id
    BY <1>2, NextSeqDoes
  <2>. QED
    BY <1>0, <2>1, <2>2, LocalsStep, Numbers
<1>3. CASE InsertReceipt(w)
  <2>1. job[w] \in Job
    BY DEF RoutingType
  <2>. QED
    BY <1>0, <1>3, <2>1, InsertDoes, LocalsStep, Numbers
<1>4. CASE IncrCount(w)
  <2>1. ops' = ops
    BY <1>4 DEF IncrCount
  <2>. QED
    BY <1>0, <1>4, <2>1, CountDoes, LocalsStep, Numbers
<1>5. CASE SetLastBatch(w) \/ SmartIncr(w) \/ SetMixedBatch(w)
  <2>1. Closes(w)
    BY <1>5, SaveDoes
  <2>. QED
    BY <1>0, <2>1, LocalsStep, Numbers DEF Closes
<1>6. CASE MixedIncr(w)
  <2>1. ops' = ops
    BY <1>6 DEF MixedIncr, history
  <2>2. PICK j \in MixedJob, at \in {"insert", "save"} :
              /\ j \in Job /\ JobAt(j, at) /\ Moves(w, j, at)
              /\ j.op = "mixed" /\ j.id = job[w].id
    BY <1>6, MixedDoes
  <2>3. job[w].op = "mixed"
    BY <1>6 DEF MixedIncr
  <2>. QED
    BY <1>0, <2>1, <2>2, <2>3, LocalsStep, Numbers
<1>7. CASE ClearReceipts(w)
  <2>1. job[w] \in Job
    BY DEF RoutingType
  <2>. QED
    BY <1>0, <1>7, <2>1, ResetDoes, LocalsStep, Numbers
<1>8. CASE ResetRouting(w) \/ ResetSmart(w)
  <2>1. job[w] \in Job /\ ops' = ops
    BY <1>8 DEF RoutingType, ResetRouting, ResetSmart, history
  <2>. QED
    BY <1>0, <1>8, <2>1, ResetDoes, LocalsStep, Numbers
<1>9. CASE ResetMixed(w)
  <2>1. ops' = ops
    BY <1>9 DEF ResetMixed
  <2>. QED
    BY <1>0, <1>9, <2>1, ResetDoes, LocalsStep, Numbers
<1>10. CASE ReadSources(w)
  <2>1. PICK at, next, field, value :
           ReadInto(w, at, next, field, value)
    BY <1>10, ReadDoes
  <2> DEFINE j == [job[w] EXCEPT ![field] = value]
  <2>2. ops' = ops
    BY <1>10, ReadDoes DEF history
  <2>3. j \in ReadJob /\ Moves(w, j, next) /\ JobAt(j, next)
    BY <2>1 DEF ReadInto
  <2> HIDE DEF j
  <2>4. j \in Job /\ j.op \notin Writers
    BY <2>3 DEF Job, ReadJob, Writers
  <2>. QED
    BY <1>0, <2>2, <2>3, <2>4, LocalsStep, Numbers
<1>11. CASE Decide(w)
  <2>1. ops' = ops /\ Moves(w, NoJob, "idle")
    BY <1>11, DecideDoes
  <2>. QED
    BY <1>0, <2>1, LocalsStep, Numbers
<1>12. CASE Fail(w)
  <2>1. ops' = ops /\ Moves(w, NoJob, "idle")
    BY <1>12, FailDoes
  <2>. QED
    BY <1>0, <2>1, LocalsStep, Numbers
<1>. QED
  BY <1>1, <1>2, <1>3, <1>4, <1>5, <1>6, <1>7, <1>8, <1>9, <1>10, <1>11, <1>12 DEF Step

LEMMA StoreTypes ==
    ASSUME RoutingType, NumbersInv, NEW w \in Workers, Call(w) \/ Step(w) \/ Fail(w)
    PROVE  StoresType'
<1>0. StoresType
  BY TypeParts
<1>1. CASE Call(w) \/ ReadSources(w) \/ Decide(w) \/ Fail(w)
  <2>1. UNCHANGED stores
    BY <1>1, CallDoes, ReadDoes, DecideDoes, FailDoes
  <2>. QED
    BY <1>0, <2>1, StoresKept
<1>2. CASE InsertReceipt(w)
  <2>1. job[w].row \in Rows /\ ledger' = [ledger EXCEPT ![job[w].row] = @ + 1]
    BY <1>2, InsertDoes DEF InsertReceipt
  <2>2. ledger' \in [Rows -> Nat] /\ IsFiniteSet(Receipts')
    BY <1>0, <2>1, OneMoreRow DEF StoresType
  <2>. QED
    BY <1>0, <1>2, <2>2 DEF StoresType, InsertReceipt, weightedKeys, mixedKeys
<1>3. CASE ClearReceipts(w)
  <2>1. ledger' \in [Rows -> Nat] /\ IsFiniteSet(Receipts')
    BY <1>3, NoRows DEF ClearReceipts
  <2>. QED
    BY <1>0, <1>3, <2>1 DEF StoresType, ClearReceipts, weightedKeys, mixedKeys
<1>4. CASE \/ NextSeq(w) \/ IncrCount(w) \/ SetLastBatch(w) \/ SmartIncr(w)
           \/ MixedIncr(w) \/ SetMixedBatch(w)
           \/ ResetRouting(w) \/ ResetSmart(w) \/ ResetMixed(w)
  <2>1. ledger' = ledger
    BY <1>4 DEF NextSeq, IncrCount, SetLastBatch, SmartIncr, MixedIncr, SetMixedBatch,
                ResetRouting, ResetSmart, ResetMixed
  <2>2. Receipts' = Receipts
    BY <2>1 DEF Receipts
  <2>3. IncrCount(w) => StoresType'
    BY <1>0, <2>1, <2>2, CountedOnce DEF StoresType, IncrCount, weightedKeys, mixedKeys
  <2>4. SetLastBatch(w) => StoresType'
    BY <1>0, <2>1, <2>2, CountedOnce DEF StoresType, SetLastBatch, weightedKeys, mixedKeys
  <2>5. SmartIncr(w) => StoresType'
    BY <1>0, <2>1, <2>2, CountedOnce DEF StoresType, SmartIncr, weightedKeys, mixedKeys
  <2>6. MixedIncr(w) => StoresType'
    BY <1>0, <2>1, <2>2, CountedOnce DEF StoresType, MixedIncr, weightedKeys, mixedKeys
  <2>7. SetMixedBatch(w) => StoresType'
    BY <1>0, <2>1, <2>2, CountedOnce DEF StoresType, SetMixedBatch, weightedKeys, mixedKeys
  <2>8. NextSeq(w) => StoresType'
    BY <1>0, <2>1, <2>2 DEF StoresType, NextSeq, weightedKeys, mixedKeys
  <2>9. ResetRouting(w) => StoresType'
    BY <1>0, <2>1, <2>2 DEF StoresType, ResetRouting, NoTiers, weightedKeys, mixedKeys
  <2>10. ResetSmart(w) => StoresType'
    BY <1>0, <2>1, <2>2 DEF StoresType, ResetSmart, weightedKeys, mixedKeys
  <2>11. ResetMixed(w) => StoresType'
    BY <1>0, <2>1, <2>2 DEF StoresType, ResetMixed, NoKinds, weightedKeys, mixedKeys
  <2>. QED
    BY <1>4, <2>3, <2>4, <2>5, <2>6, <2>7, <2>8, <2>9, <2>10, <2>11
<1>. QED
  BY <1>1, <1>2, <1>3, <1>4 DEF Step

LEMMA HistoryTypes ==
    ASSUME RoutingType, NumbersInv, NEW w \in Workers, Call(w) \/ Step(w) \/ Fail(w)
    PROVE  HistoryType'
<1>0. HistoryType
  BY TypeParts
<1>1. CASE Call(w)
  BY <1>0, <1>1, CallDoes, Numbers DEF HistoryType, drift
<1>2. CASE InsertReceipt(w)
  <2>1. ops' \in Seq(Op)
    BY <1>2, Numbers
  <2>. QED
    BY <1>0, <1>2, <2>1 DEF HistoryType, InsertReceipt, drift
<1>3. CASE SetLastBatch(w) \/ SmartIncr(w) \/ SetMixedBatch(w)
  <2>1. ops' \in Seq(Op)
    BY <1>3, SaveDoes, Numbers
  <2>2. UNCHANGED <<since, drift, reports, faults>>
    BY <1>3 DEF SetLastBatch, SmartIncr, SetMixedBatch
  <2>. QED
    BY <1>0, <2>1, <2>2 DEF HistoryType, drift
<1>4. CASE ClearReceipts(w)
  <2>1. ops' \in Seq(Op)
    BY <1>4, Numbers
  <2>. QED
    BY <1>0, <1>4, <2>1 DEF HistoryType, ClearReceipts, drift
<1>5. CASE IncrCount(w)
  BY <1>0, <1>5, CountedOnce DEF HistoryType, IncrCount
<1>6. CASE NextSeq(w) \/ MixedIncr(w) \/ ResetSmart(w) \/ ReadSources(w)
  <2>1. UNCHANGED history
    BY <1>6, ReadDoes DEF NextSeq, MixedIncr, ResetSmart
  <2>. QED
    BY <1>0, <2>1 DEF HistoryType, history, drift
<1>7. CASE ResetRouting(w)
  BY <1>0, <1>7 DEF HistoryType, ResetRouting
<1>8. CASE ResetMixed(w)
  <2>1. job[w].id \in Nat
    BY <1>8, ResetDoes DEF ResetJob
  <2>. QED
    BY <1>0, <1>8, <2>1 DEF HistoryType, ResetMixed, drift
<1>9. CASE Decide(w)
  BY <1>0, <1>9, DecideDoes DEF HistoryType, drift
<1>10. CASE Fail(w)
  BY <1>0, <1>10, FailDoes DEF HistoryType
<1>. QED
  BY <1>1, <1>2, <1>3, <1>4, <1>5, <1>6, <1>7, <1>8, <1>9, <1>10 DEF Step

HeldPicks == {w \in Workers : HoldsPick(w)}

LEMMA RestartDoes ==
    ASSUME RoutingType, NumbersInv, Restart
    PROVE  /\ LocalsType' /\ StoresType' /\ HistoryType' /\ NumbersInv'
           /\ \A w \in Workers : job'[w] = NoJob /\ pc'[w] = "idle"
           /\ IsFiniteSet(HeldPicks \ stray)
           /\ lost' = lost + Cardinality(HeldPicks \ stray)
<1>1. \A w \in Workers : job'[w] = NoJob /\ pc'[w] = "idle"
  BY DEF Restart
<1>2. LocalsType'
  BY <1>1, IdleThread DEF Restart, LocalsType, NoJobAtHome
<1>3. StoresType'
  <2>1. Receipts' = Receipts
    BY DEF Restart, Receipts
  <2>2. /\ UNCHANGED <<weightedKeys, ledger>>
        /\ \/ UNCHANGED <<smart, mixedKeys>>
           \/ smart' = [d \in Dimensions |-> 0] /\ UNCHANGED mixedKeys
           \/ /\ smart' = [d \in Dimensions |-> 0]
              /\ mixed' = NoKinds /\ mixedBatch' = NoKinds
    BY DEF Restart
  <2>3. /\ smart' \in [Dimensions -> Nat] /\ mixed' \in [Kinds -> Nat]
        /\ mixedBatch' \in [Kinds -> Nat]
    BY <2>2 DEF RoutingType, NoKinds, mixedKeys
  <2>. QED
    BY <2>1, <2>2, <2>3 DEF RoutingType, StoresType, weightedKeys
<1>4. IsFiniteSet(HeldPicks \ stray)
  BY FinitePool, FS_Subset DEF HeldPicks
<1>5. lost' = lost + Cardinality(HeldPicks \ stray)
  BY DEF Restart, HeldPicks
<1>6. Cardinality(HeldPicks \ stray) \in Nat
  BY <1>4, FS_CardinalityType
<1>7. HistoryType'
  <2>1. lost' \in Nat
    BY <1>5, <1>6 DEF RoutingType
  <2>. QED
    BY <2>1 DEF Restart, RoutingType, HistoryType
<1>8. NumbersInv'
  BY <1>1 DEF NumbersInv, NoJob, Writers
<1>. QED
  BY <1>1, <1>2, <1>3, <1>4, <1>5, <1>7, <1>8

LEMMA TypeStep == RoutingType /\ NumbersInv /\ [Next]_vars => RoutingType' /\ NumbersInv'
<1> SUFFICES ASSUME RoutingType, NumbersInv, [Next]_vars PROVE RoutingType' /\ NumbersInv'
  OBVIOUS
<1>1. CASE Next
  <2>1. seen' \in [Workers -> BOOLEAN]
    <3>1. Observe
      BY <1>1 DEF Next
    <3>. QED
      BY <3>1 DEF Observe, Reads
  <2>2. CASE Restart
    BY <2>1, <2>2, RestartDoes, TypeParts DEF RoutingType, LocalsType, StoresType, HistoryType
  <2>3. CASE \E w \in Workers : Call(w) \/ Step(w) \/ Fail(w)
    <3>1. LocalsType' /\ StoresType' /\ HistoryType' /\ NumbersInv'
      BY <2>3, ThreadTypes, StoreTypes, HistoryTypes
    <3>. QED
      BY <2>1, <3>1 DEF RoutingType, LocalsType, StoresType, HistoryType
  <2>. QED
    BY <1>1, <2>2, <2>3 DEF Next
<1>2. CASE UNCHANGED vars
  <2>1. Receipts' = Receipts
    BY <1>2 DEF vars, stores, Receipts
  <2>. QED
    BY <1>2, <2>1 DEF vars, stores, weightedKeys, mixedKeys, history, drift,
                      RoutingType, NumbersInv
<1>. QED
  BY <1>1, <1>2

\* Draws of a tier in the first slots of a round
Slots == [m \in Models |->
    CASE m = "econo-mini"   -> <<0, 1, 1, 1, 2, 3, 3, 4, 4, 4>>
      [] m = "balanced-std" -> <<0, 0, 1, 1, 1, 1, 2, 2, 2, 3>>
      [] m = "premium-max"  -> <<0, 0, 0, 1, 1, 1, 1, 1, 2, 2>>]

\* Draws of a tier in whole rounds and the slots of the next one
Share(m, n) == (n \div 10) * (Weight[m] \div 10) + Slots[m][(n % 10) + 1]

\* Each number drawn is one draw of its own tier.
DrawnInv == \A m \in Models : Drawn(m, seq) = Share(m, seq)

LEMMA SlotsAre ==
    /\ Slots["econo-mini"] = <<0, 1, 1, 1, 2, 3, 3, 4, 4, 4>>
    /\ Slots["balanced-std"] = <<0, 0, 1, 1, 1, 1, 2, 2, 2, 3>>
    /\ Slots["premium-max"] = <<0, 0, 0, 1, 1, 1, 1, 1, 2, 2>>
BY TiersAre DEF Slots

LEMMA TenthsAre ==
    /\ Weight["econo-mini"] \div 10 = 5 /\ Weight["balanced-std"] \div 10 = 3
    /\ Weight["premium-max"] \div 10 = 2
BY TiersAre

\* A slot is one draw more of its tier, and the last one ends the round.
NextSlotIs(m, r) ==
    /\ Slots[m][r + 1] \in Nat
    /\ r < 9 => /\ FirstTen[r + 1] = m => Slots[m][r + 2] = Slots[m][r + 1] + 1
                /\ FirstTen[r + 1] # m => Slots[m][r + 2] = Slots[m][r + 1]
    /\ r = 9 => /\ FirstTen[r + 1] = m => Weight[m] \div 10 = Slots[m][r + 1] + 1
                /\ FirstTen[r + 1] # m => Weight[m] \div 10 = Slots[m][r + 1]
    /\ 100 * Slots[m][r + 1] - Weight[m] * r \in -99..99

LEMMA SlotSteps == \A m \in Models, r \in 0..9 : NextSlotIs(m, r)
<1>1. \A r \in 0..9 : \/ r = 0 \/ r = 1 \/ r = 2 \/ r = 3 \/ r = 4
                      \/ r = 5 \/ r = 6 \/ r = 7 \/ r = 8 \/ r = 9
  OBVIOUS
<1>2. \A r \in 0..9 : NextSlotIs("econo-mini", r)
  BY <1>1, SlotsAre, TenthsAre, TiersAre DEF NextSlotIs, FirstTen
<1>3. \A r \in 0..9 : NextSlotIs("balanced-std", r)
  BY <1>1, SlotsAre, TenthsAre, TiersAre DEF NextSlotIs, FirstTen
<1>4. \A r \in 0..9 : NextSlotIs("premium-max", r)
  BY <1>1, SlotsAre, TenthsAre, TiersAre DEF NextSlotIs, FirstTen
<1>. QED
  BY <1>2, <1>3, <1>4, TiersAre

LEMMA ShareMore ==
    ASSUME NEW n \in Nat, NEW m \in Models
    PROVE  /\ Share(m, n) \in Nat
           /\ WeightedPick(n) = m => Share(m, n + 1) = Share(m, n) + 1
           /\ WeightedPick(n) # m => Share(m, n + 1) = Share(m, n)
<1> DEFINE q == n \div 10
           r == n % 10
           t == Weight[m] \div 10
           s(i) == Slots[m][i + 1]
<1>1. q \in Nat /\ r \in 0..9 /\ n = 10 * q + r
  OBVIOUS
<1>2. t \in Nat
  BY TiersAre
<1>3. /\ s(r) \in Nat
      /\ r < 9 => /\ WeightedPick(n) = m => s(r + 1) = s(r) + 1
                  /\ WeightedPick(n) # m => s(r + 1) = s(r)
      /\ r = 9 => /\ WeightedPick(n) = m => t = s(r) + 1
                  /\ WeightedPick(n) # m => t = s(r)
  <2>1. NextSlotIs(m, r) /\ WeightedPick(n) = FirstTen[r + 1]
    BY <1>1, SlotSteps, WeightedPicks
  <2>2. (r + 1) + 1 = r + 2
    BY <1>1
  <2> HIDE DEF r
  <2>. QED
    BY <2>1, <2>2 DEF NextSlotIs
<1>4. Share(m, n) = q * t + s(r)
  BY DEF Share
<1>5. s(0) = 0
  BY TiersAre, SlotsAre
<1>6. CASE r < 9
  <2>1. (n + 1) \div 10 = q /\ (n + 1) % 10 = r + 1
    BY <1>1, <1>6
  <2>2. Share(m, n + 1) = q * t + s(r + 1)
    BY <2>1 DEF Share
  <2>3. q * t \in Nat
    BY <1>1, <1>2
  <2> HIDE DEF q, r, t, s
  <2>. QED
    BY <1>3, <1>4, <1>6, <2>2, <2>3
<1>7. CASE r = 9
  <2>1. (n + 1) \div 10 = q + 1 /\ (n + 1) % 10 = 0
    BY <1>1, <1>7
  <2>2. Share(m, n + 1) = (q + 1) * t + s(0)
    BY <2>1 DEF Share
  <2>3. q * t \in Nat /\ (q + 1) * t = q * t + t
    BY <1>1, <1>2
  <2> HIDE DEF q, r, t, s
  <2>. QED
    BY <1>2, <1>3, <1>4, <1>5, <1>7, <2>2, <2>3
<1>. QED
  BY <1>1, <1>6, <1>7

LEMMA DrawnMore ==
    ASSUME NEW n \in Nat, NEW m \in Models
    PROVE  /\ Drawn(m, 0) = 0
           /\ Drawn(m, n) \in Nat
           /\ WeightedPick(n) = m => Drawn(m, n + 1) = Drawn(m, n) + 1
           /\ WeightedPick(n) # m => Drawn(m, n + 1) = Drawn(m, n)
<1> DEFINE of(k) == {i \in 0..(k - 1) : WeightedPick(i) = m}
<1>1. IsFiniteSet(of(n)) /\ n \notin of(n)
  <2>1. IsFiniteSet(0..(n - 1))
    BY FS_Interval
  <2>. QED
    BY <2>1, FS_Subset
<1>2. of(0) = {}
  OBVIOUS
<1>3. 0..((n + 1) - 1) = (0..(n - 1)) \union {n}
  OBVIOUS
<1>4. WeightedPick(n) = m => of(n + 1) = of(n) \union {n}
  BY <1>3
<1>5. WeightedPick(n) # m => of(n + 1) = of(n)
  BY <1>3
<1>6. Cardinality(of(n)) \in Nat /\ Cardinality(of(n) \union {n}) = Cardinality(of(n)) + 1
  BY <1>1, FS_CardinalityType, FS_AddElement
<1>. QED
  BY <1>2, <1>4, <1>5, <1>6, FS_EmptySet DEF Drawn

\* A property of how a tier is drawn so far, by the step of the counter
LEMMA DrawnStep ==
    ASSUME RoutingType, DrawnInv, seq' \in {seq, seq + 1, 0}
    PROVE  DrawnInv'
<1>1. seq \in Nat
  BY DEF RoutingType
<1>2. CASE seq' = seq
  BY <1>2 DEF DrawnInv
<1>3. CASE seq' = seq + 1
  BY <1>1, <1>3, ShareMore, DrawnMore DEF DrawnInv
<1>4. CASE seq' = 0
  <2>1. \A m \in Models : Share(m, 0) = 0 /\ Drawn(m, 0) = 0
    <3>1. \A m \in Models : Slots[m][1] = 0 /\ Weight[m] \div 10 \in Nat
      BY TiersAre, SlotsAre
    <3>2. 0 \div 10 = 0 /\ 0 % 10 = 0
      OBVIOUS
    <3>. QED
      BY <3>1, <3>2, DrawnMore DEF Share
  <2>. QED
    BY <1>4, <2>1 DEF DrawnInv
<1>. QED
  BY <1>2, <1>3, <1>4

StrayInv == \A w \in stray : HoldsPick(w)

\* A thread whose number is still to be counted on a tier
InFlightOn(w, m) == w \notin stray /\ HoldsPick(w) /\ job[w].row.model = m

LEMMA FlightType ==
    ASSUME NEW m \in Models
    PROVE  InFlight(m) \in Nat /\ InFlight(m)' \in Nat
<1>1. IsFiniteSet({w \in Workers \ stray : HoldsPick(w) /\ job[w].row.model = m})
  BY FinitePool, FS_Subset
<1>2. IsFiniteSet({w \in Workers \ stray : HoldsPick(w) /\ job[w].row.model = m})'
  BY FinitePool, FS_Subset
<1>. QED
  BY <1>1, <1>2, FS_CardinalityType DEF InFlight

\* One thread takes or drops a number.
LEMMA FlightStep ==
    ASSUME NEW m \in Models, NEW w \in Workers,
           \A v \in Workers \ {w} : InFlightOn(v, m)' <=> InFlightOn(v, m)
    PROVE  /\ (InFlightOn(w, m)' <=> InFlightOn(w, m)) => InFlight(m)' = InFlight(m)
           /\ InFlightOn(w, m)' /\ ~InFlightOn(w, m) => InFlight(m)' = InFlight(m) + 1
           /\ ~InFlightOn(w, m)' /\ InFlightOn(w, m) => InFlight(m) = InFlight(m)' + 1
<1> DEFINE old == {v \in Workers : InFlightOn(v, m)}
           new == {v \in Workers : InFlightOn(v, m)'}
<1>1. InFlight(m) = Cardinality(old)
  <2>1. {v \in Workers \ stray : HoldsPick(v) /\ job[v].row.model = m} = old
    BY DEF InFlightOn
  <2>. QED
    BY <2>1 DEF InFlight
<1>2. InFlight(m)' = Cardinality(new)
  <2>1. {v \in Workers \ stray : HoldsPick(v) /\ job[v].row.model = m}' = new
    BY DEF InFlightOn
  <2>. QED
    BY <2>1 DEF InFlight
<1>3. IsFiniteSet(old) /\ IsFiniteSet(new)
  BY FinitePool, FS_Subset
<1>4. w \in old <=> InFlightOn(w, m)
  OBVIOUS
<1>5. w \in new <=> InFlightOn(w, m)'
  OBVIOUS
<1>6. \A v \in Workers \ {w} : v \in new <=> v \in old
  OBVIOUS
<1>7. old \subseteq Workers /\ new \subseteq Workers
  OBVIOUS
<1> HIDE DEF old, new
<1>8. w \notin old => Cardinality(old \union {w}) = Cardinality(old) + 1
  BY <1>3, FS_AddElement
<1>9. w \notin new => Cardinality(new \union {w}) = Cardinality(new) + 1
  BY <1>3, FS_AddElement
<1>10. /\ (w \in new <=> w \in old) => new = old
       /\ w \in new /\ w \notin old => new = old \union {w}
       /\ w \notin new /\ w \in old => old = new \union {w}
  BY <1>6, <1>7
<1>. QED
  BY <1>1, <1>2, <1>4, <1>5, <1>8, <1>9, <1>10

LEMMA UncountedType ==
    ASSUME RoutingType
    PROVE  /\ \A m \in Models : /\ Uncounted[m] = Drawn(m, seq) - counters[m] - InFlight(m)
                                /\ Uncounted[m] \in Int
                                /\ Drawn(m, seq) \in Nat /\ counters[m] \in Nat
                                /\ InFlight(m) \in Nat
           /\ TotalOf(Uncounted) \in Int
<1>1. \A m \in Models : Drawn(m, seq) \in Nat /\ counters[m] \in Nat /\ InFlight(m) \in Nat
  BY DrawnMore, FlightType DEF RoutingType
<1>2. \A m \in Models : Uncounted[m] = Drawn(m, seq) - counters[m] - InFlight(m)
  BY DEF Uncounted
<1>. QED
  BY <1>1, <1>2, TiersAre DEF TotalOf

\* What is not counted changes on one tier at a time.
LEMMA TotalStep ==
    ASSUME NEW f, NEW g, \A m \in Models : f[m] \in Int /\ g[m] \in Int
    PROVE  /\ (\A m \in Models : g[m] = f[m]) => TotalOf(g) = TotalOf(f)
           /\ \A t \in Models, d \in Int :
                g[t] = f[t] + d /\ (\A m \in Models \ {t} : g[m] = f[m])
                  => TotalOf(g) = TotalOf(f) + d
BY TiersAre DEF TotalOf

StrayCount == Cardinality(stray)

LEMMA StrayType ==
    ASSUME RoutingType
    PROVE  /\ IsFiniteSet(stray) /\ StrayCount \in Nat /\ Cardinality(Workers) \in Nat
           /\ \A w \in Workers :
                stray' = stray \ {w} =>
                  /\ w \in stray => StrayCount' = StrayCount - 1
                  /\ w \notin stray => StrayCount' = StrayCount
<1>1. IsFiniteSet(stray) /\ StrayCount \in Nat /\ Cardinality(Workers) \in Nat
  BY FinitePool, FS_Subset, FS_CardinalityType DEF RoutingType, StrayCount
<1>2. ASSUME NEW w \in Workers, stray' = stray \ {w}
      PROVE  /\ w \in stray => StrayCount' = StrayCount - 1
             /\ w \notin stray => StrayCount' = StrayCount
  <2>1. w \in stray => Cardinality(stray \ {w}) = Cardinality(stray) - 1
    BY <1>1, FS_RemoveElement
  <2>2. w \notin stray => stray \ {w} = stray
    OBVIOUS
  <2>. QED
    BY <1>2, <2>1, <2>2 DEF StrayCount
<1>. QED
  BY <1>1, <1>2

AccountInv == DrawnInv /\ StrayInv /\ SequenceAccounted

\* The thread holds the same number before and after.
SameHold(v) == /\ HoldsPick(v)' <=> HoldsPick(v)
               /\ HoldsPick(v) => job'[v].row = job[v].row

LEMMA AccountKept ==
    ASSUME RoutingType, RoutingType', AccountInv, UNCHANGED <<seq, counters, drift>>,
           \A v \in Workers : SameHold(v)
    PROVE  AccountInv'
<1>1. seq' = seq /\ counters' = counters /\ lost' = lost /\ extra' = extra /\ stray' = stray
  BY DEF drift
<1>2. DrawnInv'
  BY <1>1, DrawnStep DEF AccountInv
<1>3. StrayInv'
  BY <1>1 DEF AccountInv, StrayInv, SameHold, RoutingType
<1>4. \A m \in Models, v \in Workers : InFlightOn(v, m)' <=> InFlightOn(v, m)
  BY <1>1 DEF InFlightOn, SameHold
<1>5. \A m \in Models : InFlight(m)' = InFlight(m)
  BY <1>4, FlightStep, FinitePool
<1>6. \A m \in Models : Uncounted'[m] = Uncounted[m]
  BY <1>1, <1>5 DEF Uncounted
<1>7. TotalOf(Uncounted') = TotalOf(Uncounted)
  BY <1>6, TiersAre DEF TotalOf
<1>8. TotalOf(Uncounted)' = TotalOf(Uncounted')
  BY DEF TotalOf
<1>9. SequenceAccounted'
  BY <1>1, <1>6, <1>7, <1>8 DEF AccountInv, SequenceAccounted
<1>. QED
  BY <1>2, <1>3, <1>9 DEF AccountInv

\* A thread that is not in a batch holds no number.
LEMMA NotHolding ==
    ASSUME RoutingType, NEW v \in Workers
    PROVE  /\ job[v].op # "batch" => ~HoldsPick(v)
           /\ pc[v] \notin {"insert", "count"} => ~HoldsPick(v)
           /\ pc[v] \in {"insert", "count"} /\ job[v].op = "batch" => HoldsPick(v)
           /\ HoldsPick(v) => /\ job[v].row \in Rows /\ job[v].row.model \in Models
                              /\ job[v].op = "batch"
<1>1. HoldsPick(v) => job[v].row \in Rows
  <2>1. job[v] \in Job /\ JobAt(job[v], pc[v])
    BY DEF RoutingType
  <2>. QED
    BY <2>1, Locals DEF HoldsPick, BatchJob
<1>. QED
  BY <1>1, RowFields DEF HoldsPick

\* One thread moves, and holds the same number or none before and after.
LEMMA AccountMove ==
    ASSUME RoutingType, RoutingType', AccountInv, UNCHANGED <<seq, counters, drift>>,
           NEW w \in Workers, NEW j \in Job, NEW at, JobAt(j, at), Moves(w, j, at),
           \/ ~HoldsPick(w) /\ (j.op # "batch" \/ at \notin {"insert", "count"})
           \/ HoldsPick(w) /\ j = job[w] /\ at \in {"insert", "count"}
    PROVE  AccountInv'
<1>1. /\ job'[w] = j /\ pc'[w] = at
      /\ \A v \in Workers \ {w} : job'[v] = job[v] /\ pc'[v] = pc[v]
  BY LocalsStep, TypeParts
<1>2. \A v \in Workers \ {w} : SameHold(v)
  BY <1>1 DEF SameHold, HoldsPick
<1>3. SameHold(w)
  BY <1>1 DEF SameHold, HoldsPick
<1>. QED
  BY <1>2, <1>3, AccountKept

LEMMA AccountDraw ==
    ASSUME RoutingType, RoutingType', AccountInv, NEW w \in Workers, NextSeq(w)
    PROVE  AccountInv'
<1> DEFINE t == WeightedPick(seq)
<1>1. /\ seq' = seq + 1 /\ counters' = counters
      /\ lost' = lost /\ extra' = extra /\ stray' = stray /\ seq \in Nat
  BY DEF NextSeq, history, drift, RoutingType
<1>2. PICK j \in Job : /\ JobAt(j, "insert") /\ Moves(w, j, "insert")
                       /\ j.op = "batch" /\ j.row = WeightedRow(seq)
  BY NextSeqDoes
<1>3. /\ job'[w] = j /\ pc'[w] = "insert"
      /\ \A v \in Workers \ {w} : job'[v] = job[v] /\ pc'[v] = pc[v]
  BY <1>2, LocalsStep, TypeParts
<1>4. t \in Models /\ job'[w].row.model = t
  BY <1>1, <1>2, <1>3, WeightedPicks
<1>5. ~HoldsPick(w) /\ HoldsPick(w)' /\ w \notin stray
  BY <1>2, <1>3 DEF NextSeq, HoldsPick, AccountInv, StrayInv
<1>6. DrawnInv'
  BY <1>1, DrawnStep DEF AccountInv
<1>7. StrayInv'
  BY <1>1, <1>3, <1>5 DEF AccountInv, StrayInv, HoldsPick, RoutingType
<1>8. \A m \in Models, v \in Workers \ {w} : InFlightOn(v, m)' <=> InFlightOn(v, m)
  BY <1>1, <1>3 DEF InFlightOn, HoldsPick
<1>9. \A m \in Models : ~InFlightOn(w, m) /\ (InFlightOn(w, m)' <=> m = t)
  BY <1>1, <1>4, <1>5 DEF InFlightOn
<1>10. \A m \in Models : /\ m = t => InFlight(m)' = InFlight(m) + 1
                         /\ m # t => InFlight(m)' = InFlight(m)
  BY <1>8, <1>9, FlightStep
<1>11. \A m \in Models : Uncounted'[m] = Uncounted[m]
  <2>1. \A m \in Models : Uncounted'[m] = Drawn(m, seq + 1) - counters[m] - InFlight(m)'
    BY <1>1 DEF Uncounted
  <2>2. \A m \in Models : /\ t = m => Drawn(m, seq + 1) = Drawn(m, seq) + 1
                          /\ t # m => Drawn(m, seq + 1) = Drawn(m, seq)
    BY <1>1, DrawnMore
  <2> HIDE DEF t
  <2>. QED
    BY <1>10, <2>1, <2>2, UncountedType
<1>12. TotalOf(Uncounted)' = TotalOf(Uncounted)
  BY <1>11, TiersAre DEF TotalOf
<1>13. SequenceAccounted'
  BY <1>1, <1>11, <1>12 DEF AccountInv, SequenceAccounted
<1>. QED
  BY <1>6, <1>7, <1>13 DEF AccountInv

LEMMA AccountCount ==
    ASSUME RoutingType, RoutingType', AccountInv, NEW w \in Workers, IncrCount(w)
    PROVE  AccountInv'
<1> DEFINE t == job[w].row.model
<1>1. /\ seq' = seq /\ lost' = lost /\ stray' = stray \ {w}
      /\ counters' = [counters EXCEPT ![t] = @ + 1]
      /\ extra' = IF w \in stray THEN extra + 1 ELSE extra
  BY DEF IncrCount
<1>2. PICK j \in Job, at \in {"seq", "save"} : JobAt(j, at) /\ Moves(w, j, at)
  BY CountDoes
<1>3. /\ job'[w] = j /\ pc'[w] = at
      /\ \A v \in Workers \ {w} : job'[v] = job[v] /\ pc'[v] = pc[v]
  BY <1>2, LocalsStep, TypeParts
<1>4. HoldsPick(w) /\ ~HoldsPick(w)' /\ t \in Models
  <2>1. HoldsPick(w)
    BY CountDoes DEF HoldsPick, IncrCount
  <2>. QED
    BY <1>3, <2>1, NotHolding DEF HoldsPick
<1>6. DrawnInv'
  BY <1>1, DrawnStep DEF AccountInv
<1>7. StrayInv'
  BY <1>1, <1>3, <1>4 DEF AccountInv, StrayInv, HoldsPick, RoutingType
<1>8. \A m \in Models, v \in Workers \ {w} : InFlightOn(v, m)' <=> InFlightOn(v, m)
  BY <1>1, <1>3 DEF InFlightOn, HoldsPick
<1>9. \A m \in Models : /\ ~InFlightOn(w, m)'
                        /\ InFlightOn(w, m) <=> w \notin stray /\ m = t
  BY <1>1, <1>4 DEF InFlightOn
<1>10. \A m \in Models : /\ m = t /\ w \notin stray => InFlight(m) = InFlight(m)' + 1
                         /\ m # t \/ w \in stray => InFlight(m)' = InFlight(m)
  BY <1>8, <1>9, FlightStep
<1>11. \A m \in Models : Uncounted'[m] = Drawn(m, seq) - counters'[m] - InFlight(m)'
  BY <1>1 DEF Uncounted
<1>12. \A m \in Models : /\ m = t => counters'[m] = counters[m] + 1
                         /\ m # t => counters'[m] = counters[m]
  BY <1>1, <1>4 DEF RoutingType
<1>13. \A m \in Models : /\ Uncounted[m] \in Int /\ Uncounted'[m] \in Int
                         /\ m # t \/ w \notin stray => Uncounted'[m] = Uncounted[m]
                         /\ m = t /\ w \in stray => Uncounted'[m] = Uncounted[m] + (-1)
  <2> HIDE DEF t
  <2>1. \A m \in Models : InFlight(m)' \in Nat
    BY FlightType
  <2>. QED
    BY <1>10, <1>11, <1>12, <2>1, UncountedType
<1>14. /\ lost \in Nat /\ extra \in Nat /\ TotalOf(Uncounted) \in Int
       /\ StrayCount \in Nat /\ Cardinality(Workers) \in Nat
  BY UncountedType, StrayType DEF RoutingType
<1>15. CASE w \in stray
  <2>1. TotalOf(Uncounted') = TotalOf(Uncounted) + (-1)
    <3> HIDE DEF t
    <3>. QED
      BY <1>4, <1>13, <1>15, TotalStep
  <2>2. extra' = extra + 1 /\ StrayCount' = StrayCount - 1
    BY <1>1, <1>15, StrayType
  <2>. QED
    BY <1>1, <1>6, <1>7, <1>14, <2>1, <2>2 DEF AccountInv, SequenceAccounted, StrayCount, TotalOf
<1>16. CASE w \notin stray
  <2>1. \A m \in Models : Uncounted'[m] = Uncounted[m]
    BY <1>13, <1>16
  <2>2. TotalOf(Uncounted') = TotalOf(Uncounted)
    BY <1>13, <2>1, TotalStep
  <2>3. extra' = extra /\ StrayCount' = StrayCount
    BY <1>1, <1>16, StrayType
  <2>. QED
    BY <1>1, <1>6, <1>7, <2>1, <2>2, <2>3 DEF AccountInv, SequenceAccounted, StrayCount, TotalOf
<1>. QED
  BY <1>15, <1>16

\* A reset starts the accounts over: the numbers in flight become stray.
LEMMA AccountReset ==
    ASSUME RoutingType, RoutingType', AccountInv, NEW w \in Workers, ResetRouting(w)
    PROVE  AccountInv'
<1>1. /\ seq' = 0 /\ counters' = NoTiers /\ lost' = 0 /\ extra' = 0
      /\ stray' = {v \in Workers : HoldsPick(v)}
  BY DEF ResetRouting
<1>2. job[w] \in Job /\ JobAt(job[w], "reset_smart") /\ Moves(w, job[w], "reset_smart")
      /\ job[w].op = "reset"
  BY ResetDoes DEF RoutingType, ResetJob
<1>3. /\ job'[w] = job[w] /\ pc'[w] = "reset_smart"
      /\ \A v \in Workers \ {w} : job'[v] = job[v] /\ pc'[v] = pc[v]
  BY <1>2, LocalsStep, TypeParts
<1>4. \A v \in Workers : HoldsPick(v)' <=> HoldsPick(v)
  BY <1>2, <1>3 DEF HoldsPick
<1>5. DrawnInv'
  BY <1>1, DrawnStep DEF AccountInv
<1>6. StrayInv'
  BY <1>1, <1>4 DEF StrayInv
<1>7. \A m \in Models : InFlight(m)' = 0
  <2> SUFFICES ASSUME NEW m \in Models PROVE InFlight(m)' = 0
    OBVIOUS
  <2>1. {v \in Workers \ stray : HoldsPick(v) /\ job[v].row.model = m}' = {}
    BY <1>1, <1>4
  <2>. QED
    BY <2>1, FS_EmptySet DEF InFlight
<1>8. \A m \in Models : Uncounted'[m] = 0
  BY <1>1, <1>7, DrawnMore DEF Uncounted, NoTiers
<1>9. StrayCount' < Cardinality(Workers)
  <2>1. stray' \subseteq Workers \ {w}
    BY <1>1, <1>2 DEF HoldsPick
  <2>2. /\ IsFiniteSet(Workers \ {w})
        /\ Cardinality(Workers \ {w}) = Cardinality(Workers) - 1
        /\ Cardinality(Workers) \in Nat
    BY FinitePool, FS_RemoveElement, FS_CardinalityType
  <2>3. Cardinality(stray') <= Cardinality(Workers \ {w}) /\ Cardinality(stray') \in Nat
    <3>1. IsFiniteSet(stray')
      BY <2>1, <2>2, FS_Subset
    <3>. QED
      BY <2>1, <2>2, <3>1, FS_Subset, FS_CardinalityType
  <2>. QED
    BY <2>2, <2>3 DEF StrayCount
<1>10. TotalOf(Uncounted') = 0
  BY <1>8, TiersAre DEF TotalOf
<1>11. StrayCount' \in Nat
  BY StrayType, FinitePool, FS_Subset, FS_CardinalityType DEF StrayCount, RoutingType
<1>. QED
  BY <1>1, <1>5, <1>6, <1>8, <1>9, <1>10, <1>11
     DEF AccountInv, SequenceAccounted, StrayCount, TotalOf

\* A thread that fails with a number loses it.
LEMMA AccountFail ==
    ASSUME RoutingType, RoutingType', AccountInv, NEW w \in Workers, Fail(w)
    PROVE  AccountInv'
<1> DEFINE t == job[w].row.model
<1>1. /\ UNCHANGED stores /\ extra' = extra /\ stray' = stray \ {w}
      /\ lost' = IF HoldsPick(w) /\ w \notin stray THEN lost + 1 ELSE lost
  BY DEF Fail
<1>2. Moves(w, NoJob, "idle") /\ NoJob \in Job /\ JobAt(NoJob, "idle")
  BY FailDoes, IdleThread DEF NoJobAtHome
<1>3. /\ job'[w] = NoJob /\ pc'[w] = "idle" /\ seq' = seq /\ counters' = counters
      /\ \A v \in Workers \ {w} : job'[v] = job[v] /\ pc'[v] = pc[v]
  BY <1>1, <1>2, LocalsStep, TypeParts DEF stores, weightedKeys
<1>4. ~HoldsPick(w)' /\ (HoldsPick(w) => t \in Models) /\ (w \in stray => HoldsPick(w))
  BY <1>3, NotHolding DEF HoldsPick, AccountInv, StrayInv
<1>5. DrawnInv'
  BY <1>3, DrawnStep DEF AccountInv
<1>6. StrayInv'
  BY <1>1, <1>3, <1>4 DEF AccountInv, StrayInv, HoldsPick, RoutingType
<1>7. \A m \in Models, v \in Workers \ {w} : InFlightOn(v, m)' <=> InFlightOn(v, m)
  BY <1>1, <1>3 DEF InFlightOn, HoldsPick
<1> DEFINE loses == HoldsPick(w) /\ w \notin stray
<1>8. \A m \in Models : /\ ~InFlightOn(w, m)'
                        /\ InFlightOn(w, m) <=> loses /\ m = t
  BY <1>4 DEF InFlightOn
<1>9. \A m \in Models : /\ m = t /\ loses => InFlight(m) = InFlight(m)' + 1
                        /\ m # t \/ ~loses => InFlight(m)' = InFlight(m)
  <2> HIDE DEF loses, t
  <2>. QED
    BY <1>7, <1>8, FlightStep
<1>10. \A m \in Models : Uncounted'[m] = Drawn(m, seq) - counters[m] - InFlight(m)'
  BY <1>3 DEF Uncounted
<1>11. \A m \in Models : /\ Uncounted[m] \in Int /\ Uncounted'[m] \in Int
                         /\ m # t \/ ~loses => Uncounted'[m] = Uncounted[m]
                         /\ m = t /\ loses => Uncounted'[m] = Uncounted[m] + 1
  <2> HIDE DEF t, loses
  <2>1. \A m \in Models : InFlight(m)' \in Nat
    BY FlightType
  <2>. QED
    BY <1>9, <1>10, <2>1, UncountedType
<1>12. /\ lost \in Nat /\ extra \in Nat /\ TotalOf(Uncounted) \in Int
       /\ StrayCount \in Nat /\ Cardinality(Workers) \in Nat /\ StrayCount' <= StrayCount
       /\ StrayCount' \in Nat
  BY <1>1, UncountedType, StrayType, FinitePool, FS_Subset, FS_CardinalityType
     DEF RoutingType, StrayCount
<1>13. CASE loses
  <2>1. TotalOf(Uncounted') = TotalOf(Uncounted) + 1
    <3>1. t \in Models
      BY <1>4, <1>13
    <3> HIDE DEF t
    <3>. QED
      BY <1>11, <1>13, <3>1, TotalStep
  <2>2. lost' = lost + 1
    BY <1>1, <1>13
  <2>. QED
    BY <1>1, <1>5, <1>6, <1>12, <2>1, <2>2 DEF AccountInv, SequenceAccounted, StrayCount, TotalOf
<1>14. CASE ~loses
  <2>1. \A m \in Models : Uncounted'[m] = Uncounted[m]
    BY <1>11, <1>14
  <2>2. TotalOf(Uncounted') = TotalOf(Uncounted)
    BY <1>11, <2>1, TotalStep
  <2>3. lost' = lost
    BY <1>1, <1>14
  <2>. QED
    BY <1>1, <1>5, <1>6, <1>12, <2>1, <2>2, <2>3
       DEF AccountInv, SequenceAccounted, StrayCount, TotalOf
<1>. QED
  BY <1>13, <1>14

\* The threads that hold a number, by its tier
LEMMA FlightTotal ==
    ASSUME RoutingType
    PROVE  TotalOf([m \in Models |-> InFlight(m)]) = Cardinality(HeldPicks \ stray)
<1> DEFINE on(m) == {w \in Workers \ stray : HoldsPick(w) /\ job[w].row.model = m}
           a == on("econo-mini")  b == on("balanced-std")  c == on("premium-max")
<1>1. \A w \in Workers : HoldsPick(w) => \/ job[w].row.model = "econo-mini"
                                         \/ job[w].row.model = "balanced-std"
                                         \/ job[w].row.model = "premium-max"
  BY NotHolding, TiersAre
<1>2. HeldPicks \ stray = (a \union b) \union c
  BY <1>1 DEF HeldPicks
<1>3. IsFiniteSet(a) /\ IsFiniteSet(b) /\ IsFiniteSet(c)
  BY FinitePool, FS_Subset
<1>4. a \cap b = {} /\ (a \union b) \cap c = {}
  OBVIOUS
<1>5. /\ Cardinality(a) = InFlight("econo-mini")
      /\ Cardinality(b) = InFlight("balanced-std")
      /\ Cardinality(c) = InFlight("premium-max")
  BY DEF InFlight
<1> HIDE DEF a, b, c
<1>50. /\ Cardinality(a \cap b) = 0 /\ Cardinality((a \union b) \cap c) = 0
       /\ Cardinality(a) \in Nat /\ Cardinality(b) \in Nat /\ Cardinality(c) \in Nat
  <2>1. Cardinality(a \cap b) = 0 /\ Cardinality((a \union b) \cap c) = 0
    BY <1>4, FS_EmptySet
  <2>. QED
    BY <1>3, <2>1, FS_CardinalityType
<1>6. Cardinality(a \union b) = Cardinality(a) + Cardinality(b) /\ IsFiniteSet(a \union b)
  <2>1. Cardinality(a \union b) = Cardinality(a) + Cardinality(b) - Cardinality(a \cap b)
    BY <1>3, FS_Union
  <2>2. IsFiniteSet(a \union b)
    BY <1>3, FS_Union
  <2>. QED
    BY <1>50, <2>1, <2>2
<1>7. Cardinality((a \union b) \union c) = Cardinality(a \union b) + Cardinality(c)
  <2>1. Cardinality((a \union b) \union c) =
          Cardinality(a \union b) + Cardinality(c) - Cardinality((a \union b) \cap c)
    BY <1>3, <1>6, FS_Union
  <2>. QED
    BY <1>50, <1>6, <2>1
<1>. QED
  BY <1>2, <1>5, <1>6, <1>7, TiersAre DEF TotalOf

\* A restart loses every number in flight.
LEMMA AccountRestart ==
    ASSUME RoutingType, NumbersInv, RoutingType', AccountInv, Restart
    PROVE  AccountInv'
<1> DEFINE n == Cardinality(HeldPicks \ stray)
<1>1. /\ UNCHANGED <<seq, counters>> /\ extra' = extra /\ stray' = {} /\ lost' = lost + n
  BY RestartDoes DEF Restart, weightedKeys
<1>2. \A v \in Workers : ~HoldsPick(v)'
  BY RestartDoes DEF HoldsPick
<1>3. DrawnInv'
  BY <1>1, DrawnStep DEF AccountInv
<1>4. StrayInv'
  BY <1>1 DEF StrayInv
<1>5. \A m \in Models : InFlight(m)' = 0
  <2> SUFFICES ASSUME NEW m \in Models PROVE InFlight(m)' = 0
    OBVIOUS
  <2>1. {v \in Workers \ stray : HoldsPick(v) /\ job[v].row.model = m}' = {}
    BY <1>1, <1>2
  <2>. QED
    BY <2>1, FS_EmptySet DEF InFlight
<1>6. \A m \in Models : Uncounted'[m] = Uncounted[m] + InFlight(m)
  <2>1. \A m \in Models : Uncounted'[m] = Drawn(m, seq) - counters[m] - 0
    BY <1>1, <1>5 DEF Uncounted
  <2>. QED
    BY <2>1, UncountedType
<1>7. /\ InFlight("econo-mini") + InFlight("balanced-std") + InFlight("premium-max") = n
      /\ InFlight("econo-mini") \in Nat /\ InFlight("balanced-std") \in Nat
      /\ InFlight("premium-max") \in Nat
  BY FlightTotal, FlightType, TiersAre DEF TotalOf
<1> HIDE DEF n
<1>8. TotalOf(Uncounted') = TotalOf(Uncounted) + n
  BY <1>6, <1>7, UncountedType, TiersAre DEF TotalOf
<1>9. n = 0 => \A m \in Models : Uncounted'[m] = Uncounted[m]
  <2>1. n = 0 => \A m \in Models : InFlight(m) = 0
    BY <1>7, TiersAre
  <2>. QED
    BY <1>6, <2>1, UncountedType
<1>10. /\ lost \in Nat /\ extra \in Nat /\ TotalOf(Uncounted) \in Int /\ n \in Nat
       /\ StrayCount \in Nat /\ Cardinality(Workers) \in Nat
  <2>1. n \in Nat
    BY <1>7
  <2>2. TotalOf(Uncounted) \in Int /\ StrayCount \in Nat /\ Cardinality(Workers) \in Nat
    BY UncountedType, StrayType
  <2>. QED
    BY <2>1, <2>2 DEF RoutingType
<1>11. StrayCount' = 0
  BY <1>1, FS_EmptySet DEF StrayCount
<1>12. /\ TotalOf(Uncounted) = lost - extra
       /\ lost = 0 /\ extra = 0 => \A m \in Models : Uncounted[m] = 0
       /\ extra + StrayCount < Cardinality(Workers)
  BY DEF AccountInv, SequenceAccounted, StrayCount
<1>13. TotalOf(Uncounted') = lost' - extra'
  BY <1>1, <1>8, <1>10, <1>12
<1>14. lost' = 0 /\ extra' = 0 => \A m \in Models : Uncounted'[m] = 0
  <2>1. lost' = 0 => n = 0 /\ lost = 0
    BY <1>1, <1>10
  <2>. QED
    BY <1>1, <1>9, <1>12, <2>1
<1>15. extra' + StrayCount' < Cardinality(Workers)
  BY <1>1, <1>10, <1>11, <1>12
<1>16. SequenceAccounted'
  BY <1>13, <1>14, <1>15 DEF SequenceAccounted, StrayCount, TotalOf
<1>. QED
  BY <1>3, <1>4, <1>16 DEF AccountInv

LEMMA AccountInit == Init => AccountInv
<1> SUFFICES ASSUME Init PROVE AccountInv
  OBVIOUS
<1>1. /\ seq = 0 /\ lost = 0 /\ extra = 0 /\ stray = {}
      /\ \A m \in Models : counters[m] = 0
      /\ \A w \in Workers : pc[w] = "idle"
  BY DEF Init, NoTiers
<1>2. \A m \in Models : Drawn(m, seq) = 0 /\ Share(m, seq) = 0
  <2>1. \A m \in Models : Slots[m][1] = 0 /\ Weight[m] \div 10 \in Nat
    BY TiersAre, SlotsAre
  <2>2. 0 \div 10 = 0 /\ 0 % 10 = 0
    OBVIOUS
  <2>. QED
    BY <1>1, <2>1, <2>2, DrawnMore DEF Share
<1>3. \A m \in Models : InFlight(m) = 0
  <2> SUFFICES ASSUME NEW m \in Models PROVE InFlight(m) = 0
    OBVIOUS
  <2>1. {v \in Workers \ stray : HoldsPick(v) /\ job[v].row.model = m} = {}
    BY <1>1 DEF HoldsPick
  <2>. QED
    BY <2>1, FS_EmptySet DEF InFlight
<1>4. \A m \in Models : Uncounted[m] = 0
  BY <1>1, <1>2, <1>3 DEF Uncounted
<1>5. TotalOf(Uncounted) = 0
  BY <1>4, TiersAre DEF TotalOf
<1>6. Cardinality(stray) = 0
  BY <1>1, FS_EmptySet
<1>7. Cardinality(Workers) \in Nat /\ Cardinality(Workers) # 0
  BY FinitePool, FS_EmptySet, FS_CardinalityType
<1>8. SequenceAccounted
  BY <1>1, <1>4, <1>5, <1>6, <1>7 DEF SequenceAccounted
<1>. QED
  BY <1>1, <1>2, <1>8 DEF AccountInv, DrawnInv, StrayInv

LEMMA AccountStep ==
    RoutingType /\ NumbersInv /\ AccountInv /\ [Next]_vars /\ RoutingType' => AccountInv'
<1> SUFFICES ASSUME RoutingType, NumbersInv, AccountInv, [Next]_vars, RoutingType'
             PROVE  AccountInv'
  OBVIOUS
<1>0. NoJob \in Job /\ JobAt(NoJob, "idle") /\ NoJob.op = "none"
  BY IdleThread DEF NoJobAtHome
<1>1. ASSUME NEW w \in Workers, Call(w) PROVE AccountInv'
  <2>1. PICK j, at :
           /\ j \in Job
           /\ JobAt(j, at) /\ Moves(w, j, at) /\ job[w] = NoJob
           /\ j.op # "batch" \/ at = "seq"
    BY <1>1, CallDoes
  <2>2. UNCHANGED <<seq, counters, drift>>
    BY <1>1, CallDoes DEF stores, weightedKeys
  <2>3. ~HoldsPick(w)
    BY <1>0, <2>1, NotHolding
  <2>. QED
    BY <2>1, <2>2, <2>3, AccountMove
<1>2. ASSUME NEW w \in Workers, InsertReceipt(w) PROVE AccountInv'
  <2>1. UNCHANGED <<seq, counters, drift>>
    BY <1>2 DEF InsertReceipt, weightedKeys
  <2>2. job[w] \in Job /\ pc[w] = "insert"
    BY <1>2 DEF RoutingType, InsertReceipt
  <2>3. CASE job[w].op = "route" /\ Moves(w, NoJob, "idle")
    BY <1>0, <2>1, <2>3, NotHolding, AccountMove
  <2>4. CASE Moves(w, job[w], "count") /\ JobAt(job[w], "count")
    BY <2>1, <2>2, <2>4, NotHolding, AccountMove
  <2>. QED
    BY <1>2, <2>3, <2>4, InsertDoes
<1>3. ASSUME NEW w \in Workers, SetLastBatch(w) \/ SmartIncr(w) \/ SetMixedBatch(w)
      PROVE  AccountInv'
  <2>1. UNCHANGED <<seq, counters, drift>>
    BY <1>3 DEF SetLastBatch, SmartIncr, SetMixedBatch, weightedKeys
  <2>2. Moves(w, NoJob, "idle")
    BY <1>3, SaveDoes DEF Closes
  <2>3. ~HoldsPick(w)
    BY <1>3 DEF SetLastBatch, SmartIncr, SetMixedBatch, HoldsPick
  <2>. QED
    BY <1>0, <2>1, <2>2, <2>3, AccountMove
<1>4. ASSUME NEW w \in Workers, MixedIncr(w) PROVE AccountInv'
  <2>1. UNCHANGED <<seq, counters, drift>>
    BY <1>4 DEF MixedIncr, weightedKeys, history
  <2>2. PICK j, at : j \in Job /\ JobAt(j, at) /\ Moves(w, j, at) /\ j.op = "mixed"
    BY <1>4, MixedDoes
  <2>3. ~HoldsPick(w)
    BY <1>4 DEF MixedIncr, HoldsPick
  <2>. QED
    BY <2>1, <2>2, <2>3, AccountMove
<1>5. ASSUME NEW w \in Workers, ClearReceipts(w) \/ ResetSmart(w) \/ ResetMixed(w)
      PROVE  AccountInv'
  <2>1. UNCHANGED <<seq, counters, drift>>
    BY <1>5 DEF ClearReceipts, ResetSmart, ResetMixed, weightedKeys, history
  <2>2. job[w] \in Job /\ job[w].op = "reset"
    BY <1>5, ResetDoes DEF RoutingType, ResetJob
  <2>3. \E j, at : j \in Job /\ JobAt(j, at) /\ Moves(w, j, at) /\ j.op # "batch"
    BY <1>0, <1>5, <2>2, ResetDoes
  <2>. QED
    BY <2>1, <2>2, <2>3, NotHolding, AccountMove
<1>6. ASSUME NEW w \in Workers, ReadSources(w) PROVE AccountInv'
  <2>1. UNCHANGED <<seq, counters, drift>>
    BY <1>6, ReadDoes DEF stores, weightedKeys, history
  <2>2. PICK at, next, field, value : ReadInto(w, at, next, field, value)
    BY <1>6, ReadDoes
  <2> DEFINE j == [job[w] EXCEPT ![field] = value]
  <2>3. j \in ReadJob /\ Moves(w, j, next) /\ JobAt(j, next) /\ job[w].op = "disposition"
    BY <2>2 DEF ReadInto
  <2> HIDE DEF j
  <2>4. j \in Job /\ j.op # "batch"
    BY <2>3 DEF Job, ReadJob
  <2>. QED
    BY <2>1, <2>3, <2>4, NotHolding, AccountMove
<1>7. ASSUME NEW w \in Workers, Decide(w) PROVE AccountInv'
  <2>1. /\ UNCHANGED <<seq, counters, drift>> /\ Moves(w, NoJob, "idle")
        /\ job[w].op = "disposition"
    BY <1>7, DecideDoes DEF stores, weightedKeys
  <2>. QED
    BY <1>0, <2>1, NotHolding, AccountMove
<1>8. CASE UNCHANGED vars
  <2>1. /\ UNCHANGED <<seq, counters, drift>> /\ pc' = pc /\ job' = job
    BY <1>8 DEF vars, stores, weightedKeys, history
  <2>2. \A v \in Workers : SameHold(v)
    BY <2>1 DEF SameHold, HoldsPick
  <2>. QED
    BY <2>1, <2>2, AccountKept
<1>9. CASE Next
  <2>1. CASE Restart
    BY <2>1, AccountRestart
  <2>2. ASSUME NEW w \in Workers, Call(w) \/ Step(w) \/ Fail(w) PROVE AccountInv'
    BY <2>2, <1>1, <1>2, <1>3, <1>4, <1>5, <1>6, <1>7,
       AccountDraw, AccountCount, AccountReset, AccountFail DEF Step
  <2>. QED
    BY <1>9, <2>1, <2>2 DEF Next
<1>. QED
  BY <1>8, <1>9

\* The sequence half of the inductive invariant
SequenceInv == RoutingType /\ NumbersInv /\ AccountInv

LEMMA SequenceInvariant == Spec => []SequenceInv
<1>1. Init => SequenceInv
  BY InitType, AccountInit DEF SequenceInv
<1>2. SequenceInv /\ [Next]_vars => SequenceInv'
  BY TypeStep, AccountStep DEF SequenceInv
<1>. QED
  BY <1>1, <1>2, PTL DEF Spec

\* Whatever batches, failures, restarts and resets overlap, the tiers' counts
\* and the numbers in flight account for every number drawn, up to those lost
\* with a dead thread and those a reset turned into extra counts (next_seq,
\* incr_count, reset_routing).
THEOREM SequenceIsAccounted == Spec => []SequenceAccounted
<1>1. SequenceInv => SequenceAccounted
  BY DEF SequenceInv, AccountInv
<1>. QED
  BY <1>1, SequenceInvariant, PTL

\* Between batches the counters are the shares of the sequence.
LEMMA CountersAre ==
    ASSUME SequenceInv, Quiet, lost = 0, extra = 0
    PROVE  /\ seq \in Nat /\ TotalOf(counters) = seq
           /\ \A m \in Models : counters[m] = Share(m, seq)
<1>1. seq \in Nat
  BY DEF SequenceInv, RoutingType
<1>2. \A m \in Models : InFlight(m) = 0
  <2> SUFFICES ASSUME NEW m \in Models PROVE InFlight(m) = 0
    OBVIOUS
  <2>1. {v \in Workers \ stray : HoldsPick(v) /\ job[v].row.model = m} = {}
    BY DEF Quiet, Idle, HoldsPick
  <2>. QED
    BY <2>1, FS_EmptySet DEF InFlight
<1>3. \A m \in Models : counters[m] = Share(m, seq)
  <2>1. /\ \A m \in Models : Uncounted[m] = 0
        /\ \A m \in Models : Drawn(m, seq) = Share(m, seq)
    BY DEF SequenceInv, AccountInv, SequenceAccounted, DrawnInv
  <2>2. \A m \in Models : /\ Uncounted[m] = Drawn(m, seq) - counters[m] - InFlight(m)
                          /\ Drawn(m, seq) \in Nat /\ counters[m] \in Nat
    BY UncountedType DEF SequenceInv
  <2>. QED
    BY <1>2, <2>1, <2>2
<1>4. Share("econo-mini", seq) + Share("balanced-std", seq) + Share("premium-max", seq) = seq
  <2> DEFINE r == seq % 10
  <2>1. r \in 0..9 /\ seq = 10 * (seq \div 10) + r /\ seq \div 10 \in Nat
    BY <1>1
  <2>2. \A i \in 0..9 :
          Slots["econo-mini"][i + 1] + Slots["balanced-std"][i + 1]
            + Slots["premium-max"][i + 1] = i
    <3>1. \A i \in 0..9 : \/ i = 0 \/ i = 1 \/ i = 2 \/ i = 3 \/ i = 4
                          \/ i = 5 \/ i = 6 \/ i = 7 \/ i = 8 \/ i = 9
      OBVIOUS
    <3>. QED
      BY <3>1, SlotsAre
  <2>3. \A m \in Models, i \in 0..9 : Slots[m][i + 1] \in Nat
    BY SlotSteps DEF NextSlotIs
  <2> DEFINE q == seq \div 10
             a == Slots["econo-mini"][r + 1]
             b == Slots["balanced-std"][r + 1]
             c == Slots["premium-max"][r + 1]
  <2>4. /\ Share("econo-mini", seq) = q * 5 + a
        /\ Share("balanced-std", seq) = q * 3 + b
        /\ Share("premium-max", seq) = q * 2 + c
    BY TenthsAre DEF Share
  <2>5. a + b + c = r /\ a \in Nat /\ b \in Nat /\ c \in Nat
    <3> HIDE DEF r
    <3>. QED
      BY <2>1, <2>2, <2>3, TiersAre
  <2> HIDE DEF q, r, a, b, c
  <2>6. q \in Nat /\ seq = 10 * q + r /\ r \in Nat
    BY <2>1 DEF q
  <2>. QED
    BY <2>4, <2>5, <2>6
<1>. QED
  BY <1>1, <1>3, <1>4, TiersAre DEF TotalOf

LEMMA DriftBounded == SequenceInv => SplitNeverDrifts
<1> SUFFICES ASSUME SequenceInv, Quiet, lost = 0, extra = 0, NEW m \in Models
             PROVE  Abs(100 * counters[m] - Weight[m] * TotalOf(counters)) < 100
  BY DEF SplitNeverDrifts
<1> DEFINE q == seq \div 10
           r == seq % 10
           d == 100 * counters[m] - Weight[m] * TotalOf(counters)
           s == Slots[m][r + 1]
<1>1. seq \in Nat /\ TotalOf(counters) = seq /\ counters[m] = Share(m, seq)
  BY CountersAre
<1>2. q \in Nat /\ r \in 0..9 /\ seq = 10 * q + r
  BY <1>1
<1>3. s \in Nat /\ 100 * s - Weight[m] * r \in -99..99
  BY <1>2, SlotSteps DEF NextSlotIs
<1>4. d = 100 * s - Weight[m] * r
  <2>1. d = 100 * (q * (Weight[m] \div 10) + s) - Weight[m] * (10 * q + r)
    BY <1>1, <1>2 DEF Share
  <2>2. \/ Weight[m] = 50 /\ Weight[m] \div 10 = 5
        \/ Weight[m] = 30 /\ Weight[m] \div 10 = 3
        \/ Weight[m] = 20 /\ Weight[m] \div 10 = 2
    BY TiersAre, TenthsAre
  <2> HIDE DEF q, r, s, d
  <2>. QED
    BY <1>2, <1>3, <2>1, <2>2
<1> HIDE DEF d
<1>. QED
  BY <1>3, <1>4 DEF Abs, d

\* Between batches, with nothing lost or extra, no tier is a whole request away
\* from its weight's share of the counted requests (weighted_sequence).
THEOREM SplitHolds == Spec => []SplitNeverDrifts
BY DriftBounded, SequenceInvariant, PTL

LEMMA WholeRounds == SequenceInv => TensValidate
<1> SUFFICES ASSUME SequenceInv, Quiet, lost = 0, extra = 0, TotalOf(counters) % 10 = 0,
                    NEW m \in Models
             PROVE  counters[m] = RoundHundredths(TotalOf(counters) * Weight[m])
  BY DEF TensValidate, Validate
<1> DEFINE q == seq \div 10
<1>1. seq \in Nat /\ TotalOf(counters) = seq /\ counters[m] = Share(m, seq)
  BY CountersAre
<1>2. q \in Nat /\ seq = 10 * q /\ seq % 10 = 0
  BY <1>1
<1>3. Slots[m][1] = 0
  BY TiersAre, SlotsAre
<1>4. counters[m] = q * (Weight[m] \div 10)
  BY <1>1, <1>2, <1>3, TiersAre DEF Share
<1>5. \/ Weight[m] = 50 /\ Weight[m] \div 10 = 5
      \/ Weight[m] = 30 /\ Weight[m] \div 10 = 3
      \/ Weight[m] = 20 /\ Weight[m] \div 10 = 2
  BY TiersAre, TenthsAre
<1>6. TotalOf(counters) * Weight[m] = 100 * counters[m] /\ counters[m] \in Nat
  BY <1>1, <1>2, <1>4, <1>5
<1>7. (100 * counters[m]) \div 100 = counters[m] /\ (100 * counters[m]) % 100 = 0
  BY <1>6
<1>. QED
  BY <1>6, <1>7 DEF RoundHundredths

\* Between batches, with nothing lost or extra and a multiple of ten counted,
\* /routing/validate answers all_match.
THEOREM TensAlwaysValidate == Spec => []TensValidate
BY WholeRounds, SequenceInvariant, PTL
=============================================================================
