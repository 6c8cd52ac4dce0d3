------------------------------- MODULE MCSearch -------------------------------
(* SearchFusion for TLC, over the indexes and requests of LookupCases.          *)
EXTENDS SearchFusion

Words == INSTANCE LookupCases

MCCases == Words!MCCases
=============================================================================
