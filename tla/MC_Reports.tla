----------------------------- MODULE MC_Reports -----------------------------
(***************************************************************************)
(* The shipped tables, and tables on the edge: a candidate on every bar,   *)
(* one a unit below one bar, canary windows that do not divide evenly, one *)
(* that rounds to even, and one that leaves a lane empty.                  *)
(***************************************************************************)
EXTENDS Reports, TLC

CONSTANTS w1, w2, v1, v2, v3

Shipped ==
    [candidates |->
        [passing |-> [quality |-> 93, latency |-> 760, cost |-> 32,
                      failure |-> 4, contract |-> 1000],
         failing |-> [quality |-> 86, latency |-> 900, cost |-> 30,
                      failure |-> 21, contract |-> 965]],
     window |-> 50, pct |-> 10,
     healthy |-> [quality |-> 91, latency |-> 835, cost |-> 34,
                  failure |-> 7, contract |-> 994],
     degraded |-> [quality |-> 84, latency |-> 1300, cost |-> 33,
                   failure |-> 32, contract |-> 950]]

OnTheBars == [quality |-> 90, latency |-> 800, cost |-> 35, failure |-> 10,
              contract |-> 990]

AllSettings ==
    {Shipped,
     [Shipped EXCEPT !.candidates = [passing |-> OnTheBars,
                                  failing |-> [OnTheBars EXCEPT !.failure = 11]],
                         !.window = 19],
     [Shipped EXCEPT !.window = 8, !.pct = 12],
     [Shipped EXCEPT !.window = 3],
     [Shipped EXCEPT !.window = 1]}

\* Three requests of 29 are 10.3%.
OddWindow == {[Shipped EXCEPT !.window = 29]}

MCRegistry == [approved |-> v2,
               status |-> v1 :> "superseded" @@ v2 :> "approved" @@ v3 :> "candidate"]

Threads == Permutations(Workers)
=============================================================================
