---------------------------- MODULE MC_Admission ----------------------------
(***************************************************************************)
(* Small instances of Admission for TLC.  Tier m1 has a limit and a queue, *)
(* m2 sheds at once when its limit is used up: together they reach every   *)
(* branch of the Lua script, boundaries included.                          *)
(***************************************************************************)
EXTENDS Admission, TLC

CONSTANTS w1, w2, w3, m1, m2

MCRateLimit == m1 :> 1 @@ m2 :> 1
MCQueueCapacity == m1 :> 1 @@ m2 :> 0

\* One tier with room for one of each, for spikes that cross both boundaries.
MCRateLimitOne == m1 :> 1
MCQueueCapacityOne == m1 :> 1

\* Threads are interchangeable: no definition names one.
Threads == Permutations(Workers)
=============================================================================
