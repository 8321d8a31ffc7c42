--------------------------- MODULE MC_LiveReplay ---------------------------
(***************************************************************************)
(* The shipped timeline in ticks of 2.5 seconds: a scrape every 2 ticks,   *)
(* rules that must hold for 12 instead of the shipped 24 (one minute).     *)
(***************************************************************************)
EXTENDS LiveReplay

CONSTANTS t1, t2
=============================================================================
