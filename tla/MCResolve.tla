------------------------------ MODULE MCResolve ------------------------------
(* ResolveService for TLC, over the graphs and requests of LookupCases.         *)
EXTENDS ResolveService

Words == INSTANCE LookupCases

MCGraphs   == Words!MCGraphs
MCRequests == Words!MCRequests
=============================================================================
