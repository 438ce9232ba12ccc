--------------------------- MODULE MCNodeTraffic ---------------------------
(***************************************************************************)
(* Model checking of NodeTraffic.                                          *)
(***************************************************************************)
EXTENDS NodeTraffic, TLC

\* Nodes and tags are interchangeable.
Symmetry == Permutations(Nodes) \cup Permutations(Tags)
=============================================================================
