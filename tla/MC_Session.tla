----------------------------- MODULE MC_Session -----------------------------
(* One command at a time beside the process of realtime sync. *)
EXTENDS ClientState, TLC

CONSTANTS command, run, h1, h2

Symmetry == Permutations({h1, h2})
=============================================================================
