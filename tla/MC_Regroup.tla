---------------------------- MODULE MC_Regroup -----------------------------
(* The store when devices change groups and are removed while an item is under way. *)
EXTENDS SharePasteStore, TLC

CONSTANTS d1, d2, d3, g1, g2, i1

MCDevices == {d1, d2, d3}
MCGroups  == {g1, g2}
MCItems   == {i1}
MCKind    == [i \in MCItems |-> "text"]
MCSinkOf  == [d \in MCDevices |-> {d}]

Symmetry == Permutations(MCDevices) \cup Permutations(MCGroups)
=============================================================================
