-------------------------- MODULE MCDynamicCorpus --------------------------
(* DynamicCorpus for TLC: ids are interchangeable.                          *)
EXTENDS DynamicCorpus, TLC

Symmetry == Permutations(Ids)
=============================================================================
