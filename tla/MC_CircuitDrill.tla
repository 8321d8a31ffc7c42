-------------------------- MODULE MC_CircuitDrill --------------------------
(***************************************************************************)
(* The script and the thresholds the repository ships.                     *)
(***************************************************************************)
EXTENDS CircuitViews, TLC

CONSTANTS w1, w2

ShippedScript == <<"slow", "error", "quota", "error", "quota", "slow",
                   "healthy", "healthy">>

Threads == Permutations(Workers)
=============================================================================
