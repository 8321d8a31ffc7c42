----------------------------- MODULE MC_Routing -----------------------------
(***************************************************************************)
(* Small instances of Routing for TLC.                                     *)
(***************************************************************************)
EXTENDS Routing, TLC

CONSTANTS w1, w2

\* One payload and one override request
ShortCases == << <<"bug_triage", Unknown>>, <<"ticket_tag", "legal_review">> >>

\* A complexity decision, and an override that changes the tier
TwoRequests == {<<"bug_triage", Unknown>>, <<"ticket_tag", "legal_review">>}

Threads == Permutations(Workers)
=============================================================================
