--------------------------- MODULE AssetLifecycle ---------------------------
(***************************************************************************)
(* What the Content page is promised about a photo: the card that says it  *)
(* is being analysed, the captions that appear together with the analysis, *)
(* and a delete that takes both and is final.  AssetPipeline implements it.*)
(***************************************************************************)
EXTENDS Naturals

CONSTANT Assets

VARIABLES row,       \* the card: "absent", "waiting", "analysed", "deleted"
          captions   \* how many sets of three captions the card shows

vars == <<row, captions>>

Card == {"absent", "waiting", "analysed", "deleted"}

Init ==
    /\ row = [a \in Assets |-> "absent"]
    /\ captions = [a \in Assets |-> 0]

Upload(a) ==
    /\ row[a] = "absent"
    /\ row' = [row EXCEPT ![a] = "waiting"]
    /\ UNCHANGED captions

OnThePage(a) == row[a] \in {"waiting", "analysed"}

\* The analysis and a set of captions appear at once.
Caption(a) ==
    /\ OnThePage(a)
    /\ row' = [row EXCEPT ![a] = "analysed"]
    /\ captions' = [captions EXCEPT ![a] = @ + 1]

Remove(a) ==
    /\ OnThePage(a)
    /\ row' = [row EXCEPT ![a] = "deleted"]
    /\ captions' = [captions EXCEPT ![a] = 0]

Next == \E a \in Assets : Upload(a) \/ Caption(a) \/ Remove(a)

Spec == Init /\ [][Next]_vars
=============================================================================
