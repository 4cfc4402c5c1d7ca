------------------------------ MODULE MCSearch ------------------------------
(***************************************************************************)
(* Limits for SearchParts: below, at and above the safety limit.           *)
(***************************************************************************)
EXTENDS SearchParts

SampleLimits == {-1, 0, 1, 3}
=============================================================================
