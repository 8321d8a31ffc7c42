---------------------------- MODULE MC_Migration ----------------------------
(***************************************************************************)
(* A small instance of Migration for TLC.                                  *)
(***************************************************************************)
EXTENDS Migration, TLC

CONSTANTS w1, w2, a, b, c, none

\* A migration, the next one of its replacement, and the way back
ChainAndBack == {<<a, b>>, <<b, c>>, <<b, a>>}

Threads == Permutations(Workers)
=============================================================================
