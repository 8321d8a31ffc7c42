------------------------- MODULE MC_AdmissionViews -------------------------
(***************************************************************************)
(* The instances of MC_Admission with a reader of the GET handlers.        *)
(***************************************************************************)
EXTENDS MC_Admission, AdmissionViews
============================================================================
