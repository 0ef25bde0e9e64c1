-------------------------- MODULE MCKnowledgeIndex --------------------------
(* Instances of KnowledgeIndex for TLC. *)
EXTENDS KnowledgeIndex, TLC

Symmetry == Permutations(Revisions) \cup Permutations(Workers)
=============================================================================
