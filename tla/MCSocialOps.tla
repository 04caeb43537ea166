---------------------------- MODULE MCSocialOps ----------------------------
(***************************************************************************)
(* Instances of SocialOps for TLC.                                         *)
(***************************************************************************)
EXTENDS SocialOps, TLC

\* Nothing tells two workers, requests, approvals or comments apart.
Symmetry ==
    Permutations(Comments) \cup Permutations(Workers) \cup Permutations(Requests)
      \cup Permutations(Reviewers)
=============================================================================
