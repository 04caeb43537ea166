--------------------------- MODULE MCReplyOutbox ---------------------------
(***************************************************************************)
(* Instances of ReplyOutbox for TLC.                                       *)
(***************************************************************************)
EXTENDS ReplyOutbox, TLC

\* Nothing tells two requests, two drains or two comments apart.
Symmetry ==
    Permutations(Comments) \cup Permutations(Requests) \cup Permutations(Drainers)
=============================================================================
