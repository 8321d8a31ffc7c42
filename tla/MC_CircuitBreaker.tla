------------------------- MODULE MC_CircuitBreaker -------------------------
(***************************************************************************)
(* Every script of ScriptLength requests: enough for a trip, a failed probe,*)
(* a recovery and a second outage.                                         *)
(***************************************************************************)
EXTENDS CircuitBreaker

CONSTANT ScriptLength

AllScripts == [1..ScriptLength -> Conditions]
=============================================================================
