----------------------------- MODULE MC_Pairing -----------------------------
(* The store with no clipboard items: registration, removal, pairing. *)
EXTENDS SharePasteStore, TLC

CONSTANTS d1, d2, d3, g1, g2

MCDevices == {d1, d2, d3}
MCGroups  == {g1, g2}
MCKind    == <<>>
MCSinkOf  == [d \in MCDevices |-> {d}]

Symmetry == Permutations(MCDevices) \cup Permutations(MCGroups)
=============================================================================
