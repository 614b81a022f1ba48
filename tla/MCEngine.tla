------------------------------ MODULE MCEngine ------------------------------
(* Engine for TLC: children and edges are interchangeable.                  *)
EXTENDS Engine, TLC

Symmetry == Permutations(Seeds) \cup Permutations(Children) \cup Permutations(Edges)
=============================================================================
