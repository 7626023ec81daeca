----------------------------- MODULE MC_Client -----------------------------
(* One client, its streams and its queue. *)
EXTENDS RealtimeClient, TLC

CONSTANTS i1, i2, own

MCItems == {i1, i2}

Symmetry == Permutations(MCItems)
=============================================================================
