----------------------------- MODULE SocialOps -----------------------------
(***************************************************************************)
(* Comments from the dump to the reply that goes out: CommentPipeline and  *)
(* ReplyOutbox together, over one comments and one reply_drafts table.     *)
(* Each of them models the other half by the steps of CommentLifecycle;    *)
(* here each half is the other's environment, and the only thing that      *)
(* holds one back for the other is the row lock of a comment.              *)
(***************************************************************************)
EXTENDS CommentPipeline

CONSTANTS Reviewers,   \* approvals that can be in flight at once
          Drainers, Edits, Unset, MaxRows,   \* see ReplyOutbox
          MaxOutboxFaults

VARIABLES status, final, outbox, patch, drain,   \* see ReplyOutbox
          outboxFaults

Outbox == INSTANCE ReplyOutbox
            WITH Requests <- Reviewers, MaxFaults <- MaxOutboxFaults, faults <- outboxFaults

pipelineVars == <<runs, dlq, workerVars, req, now, faults, arqVars>>
outboxVars == <<final, outbox, patch, drain, outboxFaults>>
systemVars == <<vars, status, outboxVars>>

SystemInit == Init /\ Outbox!Init

\* Whatever the API's ingest, the workers and the operators do; a draft that
\* appears is pending and has no text but the agent's.
PipelineStep ==
    /\ PipelineNext
    /\ status' = [c \in Comments |->
                    IF drafts'[c] > drafts[c] THEN "pending" ELSE status[c]]
    /\ UNCHANGED outboxVars

\* The UPDATE of comments in drain_outbox waits for each row lock.
RowLocksFree(w) == \A c \in Outbox!Answered(drain[w]) : RowLockFree(c)

\* Whatever people and drains do.
OutboxStep ==
    /\ \/ \E r \in Reviewers : Outbox!UpdateStep(r)
       \/ \E w \in Drainers :
            \/ Outbox!SelectUnsent(w)
            \/ \E c \in Comments : Outbox!LoadDraft(w, c)
            \/ RowLocksFree(w) /\ Outbox!CommitDrain(w)
            \/ Outbox!FailDrain(w)
    /\ UNCHANGED pipelineVars

SystemNext == PipelineStep \/ OutboxStep

SystemSpec == SystemInit /\ [][SystemNext]_systemVars

-----------------------------------------------------------------------------
(* Properties.                                                             *)

\* The two halves fit: each is, in the system, what its module says of it beside
\* the lifecycle's steps.
ImplementsPipeline == Spec
ImplementsOutbox == Outbox!Spec

\* The model is called again for a comment whose reply went out only when a late
\* dead letter put the comment back to "failed".
SentIsChargedOnlyWhenFailed ==
    \A w \in Workers :
        /\ pc[w] \in {"triage", "respond"}
        /\ \E i \in DOMAIN outbox[Subject(w)] : outbox[Subject(w)][i].sent
        => comment[Subject(w)] = "failed"

\* A reply that is queued or sent has the audit rows of both agents that wrote it.
RepliesAreAudited ==
    \A c \in Comments :
        outbox[c] # <<>> => {<<"triage", "ok">>, <<"response", "ok">>} \subseteq runs[c]
=============================================================================
