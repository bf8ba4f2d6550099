------------------------------ MODULE MCRibTap ------------------------------
(***************************************************************************)
(* Model values and bounds for RibTap: one address family (a view keeps its *)
(* EOR marks and hosts per family; peerUp and the canary are shared), up to *)
(* two edges, a member prefix and a canary that is no host route.           *)
(***************************************************************************)
EXTENDS RibTap, TLC

CONSTANTS e1, e2, v4, h4, c4

MCFamilyOf == [p \in Prefixes |-> v4]

EdgeSymmetry == Permutations(Edges)
=============================================================================
