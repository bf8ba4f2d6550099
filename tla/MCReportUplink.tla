--------------------------- MODULE MCReportUplink ---------------------------
(***************************************************************************)
(* Model values for ReportUplink: one address family, two member prefixes   *)
(* (so that a snapshot may go up in two chunks) and a canary that is no host *)
(* route.                                                                   *)
(***************************************************************************)
EXTENDS ReportUplink, TLC, FiniteSets

CONSTANTS e1, v4, h4, k4, c4

MCFamilyOf == [p \in Prefixes |-> v4]

HostSymmetry == Permutations(HostPrefixes)

\* Bound: an edge is followed up to the second kind of flaw, not beyond it.
OneFlaw == \A e \in Edges : Cardinality(flaw[e]) <= 1
=============================================================================
