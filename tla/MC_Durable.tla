----------------------------- MODULE MC_Durable -----------------------------
(* Calls of each kind at once, with crashes. *)
EXTENDS DurableStore, TLC

CONSTANTS b1, b2, b3, u1, p1

MCLimited == {b1, b2, b3}
MCPlain   == {u1}

Symmetry == Permutations(MCLimited)
=============================================================================
