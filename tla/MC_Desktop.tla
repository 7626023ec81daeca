----------------------------- MODULE MC_Desktop -----------------------------
(* A page with three things to do, and two requests that may overlap. *)
EXTENDS DesktopBridge

CONSTANTS k1, k2, i1, i2, i3
=============================================================================
