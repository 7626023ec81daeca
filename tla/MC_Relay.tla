------------------------------ MODULE MC_Relay ------------------------------
(* Two devices of one group: pushes, queues, acknowledgements, policies, time. *)
EXTENDS SharePasteStore, TLC

CONSTANTS d1, d2, g1, i1, i2, i3

MCDevices == {d1, d2}
MCItems   == {i1, i2, i3}
MCKind    == [i \in MCItems |-> "bigfile"]
MCSinkOf  == [d \in MCDevices |-> {d}]

Symmetry == Permutations(MCDevices) \cup Permutations(MCItems)
=============================================================================
