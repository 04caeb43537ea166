-------------------------- MODULE MCAssetPipeline --------------------------
(***************************************************************************)
(* Instances of AssetPipeline for TLC.                                     *)
(***************************************************************************)
EXTENDS AssetPipeline, TLC

Symmetry == Permutations(Assets) \cup Permutations(Workers) \cup Permutations(Requests)
=============================================================================
