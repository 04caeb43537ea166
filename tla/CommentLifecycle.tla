-------------------------- MODULE CommentLifecycle --------------------------
(***************************************************************************)
(* What the comment pipeline promises the people who read the Inbox: the   *)
(* statuses a comment goes through and when a reply draft appears, with no *)
(* queue, worker, lock or transaction in sight.  CommentPipeline           *)
(* implements it.                                                          *)
(***************************************************************************)
EXTENDS Naturals

CONSTANT Comments

VARIABLES comment,   \* the status the Inbox shows
          drafts     \* how many reply drafts there are to review

vars == <<comment, drafts>>

Status == {"absent", "new", "failed", "drafted", "replied"}

Init ==
    /\ comment = [c \in Comments |-> "absent"]
    /\ drafts = [c \in Comments |-> 0]

\* A dump is accepted: some comments that were not there are now new.
Accept ==
    /\ \E C \in SUBSET {c \in Comments : comment[c] = "absent"} :
         comment' = [c \in Comments |-> IF c \in C THEN "new" ELSE comment[c]]
    /\ UNCHANGED drafts

Unsettled(c) == comment[c] \in {"new", "failed"}

\* The one draft a comment ever gets appears together with its status.
Draft(c) ==
    /\ Unsettled(c)
    /\ drafts[c] = 0
    /\ comment' = [comment EXCEPT ![c] = "drafted"]
    /\ drafts' = [drafts EXCEPT ![c] = 1]

\* Triage found nothing to answer.
Close(c) ==
    /\ Unsettled(c)
    /\ comment' = [comment EXCEPT ![c] = "replied"]
    /\ UNCHANGED drafts

\* A job about the comment gave up for good.  Any comment that exists can meet
\* this, one that is already drafted included: the dead letter is written
\* without looking at the status.
GiveUp(c) ==
    /\ comment[c] # "absent"
    /\ comment' = [comment EXCEPT ![c] = "failed"]
    /\ UNCHANGED drafts

\* Approved replies go out: their comments are answered, whatever they read.
Publish ==
    /\ \E C \in SUBSET {c \in Comments : drafts[c] > 0} :
         comment' = [c \in Comments |-> IF c \in C THEN "replied" ELSE comment[c]]
    /\ UNCHANGED drafts

Next == Accept \/ Publish \/ \E c \in Comments : Draft(c) \/ Close(c) \/ GiveUp(c)

Spec == Init /\ [][Next]_vars
=============================================================================
