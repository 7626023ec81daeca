---------------------------- MODULE MC_Clipboard ----------------------------
(* Two ends, two texts, two polls of the watcher that may overlap. *)
EXTENDS ClipboardLoop, TLC

CONSTANTS t1, t2, p1, p2

Symmetry == Permutations({t1, t2}) \cup Permutations({p1, p2})
=============================================================================
