--------------------------- MODULE MCIngestBatch ---------------------------
(***************************************************************************)
(* Instances of IngestBatch for TLC: a post, a handle that two platforms   *)
(* share, a post nobody has, and a row for each thing that can be wrong.   *)
(***************************************************************************)
EXTENDS IngestBatch, TLC

MCPostsOf == [ref \in Refs |->
                CASE ref = "known" -> {"p1"} [] ref = "shared" -> {"p2", "p3"} [] OTHER -> {}]

Good(ref, id) == [ref |-> ref, id |-> id, flaw |-> "none"]
Bad(flaw)     == [ref |-> "known", id |-> "c2", flaw |-> flaw]

MCRows == {Good("known", "c1"), Good("known", "c2"), Good("shared", "c1"),
           Good("unknown", "c1")} \cup {Bad(flaw) : flaw \in Flaws}

Symmetry == Permutations(Requests)
=============================================================================
