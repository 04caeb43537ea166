------------------------- MODULE MCCommentPipeline -------------------------
(***************************************************************************)
(* Instances of CommentPipeline for TLC.                                   *)
(***************************************************************************)
EXTENDS CommentPipeline, TLC

\* Workers and requests are interchangeable: nothing tells one from another.
Symmetry ==
    Permutations(Comments) \cup Permutations(Workers) \cup Permutations(Requests)
=============================================================================
