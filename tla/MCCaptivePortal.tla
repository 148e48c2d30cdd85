--------------------------- MODULE MCCaptivePortal ---------------------------
(* Tabs and handles are interchangeable. *)
EXTENDS CaptivePortal, TLC

Symmetry == Permutations(Tabs) \cup Permutations(Handles)
=============================================================================
