---------------------------- MODULE MCAgentPush -----------------------------
(***************************************************************************)
(* A chunk weighs two bytes, everything else one.  With a channel of three  *)
(* directives and a cap of three bytes either bound may be the one reached,  *)
(* and the bound on the queue is below what the channel could hold.         *)
(* OverBudget keeps the fair run small: with a cap of one byte its delta is *)
(* over budget whatever is queued, so every delta is dropped.               *)
(***************************************************************************)
EXTENDS AgentPush, TLC

CONSTANTS w1, w2

Directive(kind, gen, size) == [kind |-> kind, gen |-> gen, size |-> size]

StateOf(g) == Directive("DESIRED_STATE", g, 1)
Delta      == Directive("DESIRED_DELTA", 2, 1)
Chunk      == Directive("CHUNK", 2, 2)

Mixed      == {StateOf(1), Delta, Chunk}
OverBudget == {Directive("DESIRED_DELTA", 2, 2), Chunk}

PusherSymmetry == Permutations(Pushers)
=============================================================================
