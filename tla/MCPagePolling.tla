--------------------------- MODULE MCPagePolling ---------------------------
(***************************************************************************)
(* Instances of PagePolling for TLC.                                       *)
(***************************************************************************)
EXTENDS PagePolling, TLC

Symmetry == Permutations(Views)
=============================================================================
