---------------------------- MODULE MCBrandJobs ----------------------------
(***************************************************************************)
(* Instances of BrandJobs for TLC.                                         *)
(***************************************************************************)
EXTENDS BrandJobs, TLC

Symmetry == Permutations(Brands) \cup Permutations(Workers) \cup Permutations(Requests)
=============================================================================
