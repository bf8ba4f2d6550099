----------------------------- MODULE MCRibGuard -----------------------------
(***************************************************************************)
(* Three edges, so that a prefix may have none, one, two or three sources;  *)
(* one host prefix, and one prefix that is no host and serves as a canary   *)
(* (the host prefix may be announced as one too).                           *)
(***************************************************************************)
EXTENDS RibGuard, TLC

CONSTANTS e1, e2, e3, v4, h4, c4

MCFamilyOf == (h4 :> v4) @@ (c4 :> v4)

EdgeSymmetry == Permutations(Edges)
=============================================================================
