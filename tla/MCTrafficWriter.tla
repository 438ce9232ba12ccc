-------------------------- MODULE MCTrafficWriter --------------------------
(***************************************************************************)
(* Model checking of TrafficWriter.                                        *)
(***************************************************************************)
EXTENDS TrafficWriter, TLC

\* The callers are interchangeable.
Symmetry == Permutations(Callers)
=============================================================================
