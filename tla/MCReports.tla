------------------------------ MODULE MCReports ------------------------------
(***************************************************************************)
(* Instances of Reports for TLC: a comment, and a photo with two jobs.     *)
(***************************************************************************)
EXTENDS Reports, TLC

CONSTANTS c1, a1, a2, photo

OneOfEach == {c1, a1, a2}
KindsOfEach == c1 :> "comment" @@ a1 :> "asset" @@ a2 :> "asset"
SubjectsOfEach == c1 :> c1 @@ a1 :> photo @@ a2 :> photo
DaysOfEach == [j \in OneOfEach |-> 1]

\* Both sides of an edge, the first and the last bucket, and a skewed clock.
EdgeDelays == {-1, 59, 60, 86400}

\* Bounds: the photo has its second job in behaviours with a page and without the
\* comment, and all the faults are in behaviours with a single job.
Apart ==
    /\ Known(a2) => report.kind = "page" /\ ~Known(c1)
    /\ Cardinality(queue \cup results) > 1 => faults < MaxFaults

MCSpec == Init /\ [][Next /\ Apart']_vars /\ Fairness
=============================================================================
