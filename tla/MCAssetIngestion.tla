-------------------------- MODULE MCAssetIngestion --------------------------
(* Instances of AssetIngestion for TLC. *)
EXTENDS AssetIngestion, TLC

Symmetry == Permutations(Uploads) \cup Permutations(Workers)
=============================================================================
