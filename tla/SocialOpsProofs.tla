--------------------------- MODULE SocialOpsProofs ---------------------------
(***************************************************************************)
(* The two halves of the comment's way fit together: the system implements *)
(* CommentPipeline and ReplyOutbox, each as its module has it, for any     *)
(* workers, people and drains.  The invariants of each half are the ones   *)
(* its own proofs have; here one step of the system is shown to be a step  *)
(* of both, so they hold of the system, and with them facts that relate    *)
(* the variables of one half to those of the other.                        *)
(***************************************************************************)
EXTENDS SocialOps, CommentPipelineProofs, SequenceTheorems

\* The assumptions ReplyOutbox makes of its constants.
OutboxAssumption ==
    Unset \notin Edits /\ MaxRows \in Nat /\ MaxOutboxFaults \in Nat

Proved == INSTANCE ReplyOutboxProofs
            WITH Requests <- Reviewers, MaxFaults <- MaxOutboxFaults, faults <- outboxFaults

-----------------------------------------------------------------------------
(* Outbox and Proved are one module, instantiated twice: with every name   *)
(* replaced by its definition, each side of these reads the same.          *)

LEMMA SameInit == Outbox!Init <=> Proved!Init
  BY DEF Outbox!Init, Proved!Init, Outbox!Lifecycle!Init, Proved!Lifecycle!Init,
         Outbox!IdlePatch, Proved!IdlePatch, Outbox!IdleDrain, Proved!IdleDrain,
         Outbox!Unread, Proved!Unread

LEMMA SameNext == Outbox!Next <=> Proved!Next
  BY DEF Outbox!Next, Proved!Next, Outbox!PipelineStep, Proved!PipelineStep,
         Outbox!UpdateStep, Proved!UpdateStep, Outbox!DrainStep, Proved!DrainStep,
         Outbox!Lifecycle!Accept, Proved!Lifecycle!Accept, Outbox!Lifecycle!Draft,
         Proved!Lifecycle!Draft, Outbox!Lifecycle!Close, Proved!Lifecycle!Close,
         Outbox!Lifecycle!GiveUp, Proved!Lifecycle!GiveUp, Outbox!Lifecycle!Unsettled,
         Proved!Lifecycle!Unsettled, Outbox!UpdateReplyDraft, Proved!UpdateReplyDraft,
         Outbox!BulkUpdate, Proved!BulkUpdate, Outbox!Load, Proved!Load, Outbox!CanAsk,
         Proved!CanAsk, Outbox!CommitUpdate, Proved!CommitUpdate, Outbox!Approved,
         Proved!Approved, Outbox!PayloadText, Proved!PayloadText, Outbox!SavedText,
         Proved!SavedText, Outbox!AgentText, Proved!AgentText, Outbox!AbortUpdate,
         Proved!AbortUpdate, Outbox!Fault, Proved!Fault, Outbox!SelectUnsent,
         Proved!SelectUnsent, Outbox!Selected, Proved!Selected, Outbox!Unsent,
         Proved!Unsent, Outbox!LoadDraft, Proved!LoadDraft, Outbox!ToLoad,
         Proved!ToLoad, Outbox!CommitDrain, Proved!CommitDrain, Outbox!Published,
         Proved!Published, Outbox!NewlyPublished, Proved!NewlyPublished,
         Outbox!Answered, Proved!Answered, Outbox!AnsweredStatus, Proved!AnsweredStatus,
         Outbox!Stamp, Proved!Stamp, Outbox!Stamped, Proved!Stamped, Outbox!FailDrain,
         Proved!FailDrain, Outbox!IdlePatch, Proved!IdlePatch, Outbox!IdleDrain,
         Proved!IdleDrain, Outbox!Unread, Proved!Unread, Outbox!DraftStatus,
         Proved!DraftStatus

-----------------------------------------------------------------------------
(* One step of the system is a step of each half.                          *)

\* What the proofs of each half know of its states.
SysInv ==
    /\ TypeInv /\ LockInv /\ StatusInv /\ DraftInv
    /\ Proved!TypeOK /\ Proved!RowsInv /\ Proved!AnsweredInv

\* A commit that flips no comment is a stutter of the pipeline; one that does has the
\* row locks, and flips comments that have a draft.
LEMMA DrainIsPublish ==
    ASSUME TypeInv, Proved!RowsInv, NEW w \in Drainers, RowLocksFree(w), Outbox!CommitDrain(w),
           UNCHANGED pipelineVars
    PROVE  PublishReplies \/ UNCHANGED vars
  <1> DEFINE C == Outbox!Answered(drain[w])
  <1>1. C \subseteq {c \in Comments : drafts[c] > 0}
    BY DEF Outbox!Answered, Outbox!Published, Proved!RowsInv
  <1>2. comment' = [c \in Comments |-> IF c \in C THEN "replied" ELSE comment[c]]
    BY DEF Outbox!CommitDrain, Outbox!AnsweredStatus
  <1>3. UNCHANGED <<drafts, runs, dlq, workerVars, req, now, faults, arqVars>>
    BY DEF Outbox!CommitDrain, pipelineVars
  <1>4. \A c \in C : RowLockFree(c)
    BY DEF RowLocksFree
  <1> HIDE DEF C
  <1>5. CASE C = {}
    <2>1. UNCHANGED comment
      BY <1>2, <1>5 DEF TypeInv, TypeOK
    <2>. QED
      BY <1>3, <2>1 DEF vars, dbVars, workerVars, arqVars
  <1>6. CASE C # {}
    BY <1>1, <1>2, <1>3, <1>4, <1>6 DEF PublishReplies
  <1>. QED
    BY <1>5, <1>6

LEMMA StepOfPipeline == SysInv /\ [SystemNext]_systemVars => [Next]_vars
  <1> SUFFICES ASSUME SysInv, [SystemNext]_systemVars PROVE [Next]_vars
    OBVIOUS
  <1>1. CASE PipelineStep
    BY <1>1 DEF PipelineStep, Next
  <1>2. ASSUME UNCHANGED pipelineVars, UNCHANGED <<comment, drafts>>
        PROVE  UNCHANGED vars
    BY <1>2 DEF pipelineVars, vars, dbVars
  <1>3. ASSUME NEW r \in Reviewers, Outbox!UpdateStep(r)
        PROVE  UNCHANGED <<comment, drafts>>
    BY <1>3 DEF Outbox!UpdateStep, Outbox!UpdateReplyDraft, Outbox!BulkUpdate, Outbox!Load,
                Outbox!CommitUpdate, Outbox!AbortUpdate
  <1>4. ASSUME NEW w \in Drainers,
               \/ Outbox!SelectUnsent(w)
               \/ \E c \in Comments : Outbox!LoadDraft(w, c)
               \/ Outbox!FailDrain(w)
        PROVE  UNCHANGED <<comment, drafts>>
    BY <1>4 DEF Outbox!SelectUnsent, Outbox!LoadDraft, Outbox!FailDrain
  <1>5. ASSUME UNCHANGED pipelineVars, NEW w \in Drainers, RowLocksFree(w),
               Outbox!CommitDrain(w)
        PROVE  [Next]_vars
    BY <1>5, DrainIsPublish DEF SysInv, Next
  <1>6. CASE OutboxStep
    BY <1>2, <1>3, <1>4, <1>5, <1>6, Zenon DEF OutboxStep
  <1>7. UNCHANGED systemVars => UNCHANGED vars
    BY DEF systemVars
  <1>. QED
    BY <1>1, <1>6, <1>7 DEF SystemNext

LEMMA StepOfOutbox == SysInv /\ [SystemNext]_systemVars => [Outbox!Next]_(Outbox!vars)
  <1> SUFFICES ASSUME SysInv, [SystemNext]_systemVars PROVE [Outbox!Next]_(Outbox!vars)
    OBVIOUS
  <1>1. CASE PipelineStep
    <2>1. /\ status' = [c \in Comments |->
                          IF drafts'[c] > drafts[c] THEN "pending" ELSE status[c]]
          /\ UNCHANGED <<final, outbox, patch, drain, outboxFaults>>
      BY <1>1 DEF PipelineStep, outboxVars
    <2>2. CASE UNCHANGED <<comment, drafts>>
      <3>1. UNCHANGED status
        BY <2>1, <2>2 DEF SysInv, TypeInv, TypeOK, Proved!TypeOK
      <3>. QED
        BY <2>1, <2>2, <3>1 DEF Outbox!vars
    <2>3. CASE \/ Outbox!Lifecycle!Accept
               \/ \E c \in Comments : \/ Outbox!Lifecycle!Draft(c)
                                      \/ Outbox!Lifecycle!Close(c)
                                      \/ Outbox!Lifecycle!GiveUp(c)
      BY <2>1, <2>3 DEF Outbox!PipelineStep, Outbox!Next
    <2>4. PipelineNext
      BY <1>1 DEF PipelineStep
    <2>5. \/ Lifecycle!Accept
          \/ \E c \in Comments :
               Lifecycle!Draft(c) \/ Lifecycle!Close(c) \/ Lifecycle!GiveUp(c)
          \/ UNCHANGED Lifecycle!vars
      BY <2>4, PipelineLifecycleStep DEF SysInv
    <2>. QED
      BY <2>2, <2>3, <2>5
      DEF Lifecycle!Accept, Lifecycle!Draft, Lifecycle!Close, Lifecycle!GiveUp,
          Lifecycle!Unsettled, Lifecycle!vars, Outbox!Lifecycle!Accept,
          Outbox!Lifecycle!Draft, Outbox!Lifecycle!Close, Outbox!Lifecycle!GiveUp,
          Outbox!Lifecycle!Unsettled
  <1>2. CASE OutboxStep
    BY <1>2, Zenon DEF OutboxStep, Outbox!Next, Outbox!DrainStep
  <1>3. UNCHANGED systemVars => UNCHANGED Outbox!vars
    BY DEF systemVars, vars, dbVars, outboxVars, Outbox!vars
  <1>. QED
    BY <1>1, <1>2, <1>3 DEF SystemNext

LEMMA InitSysInv == OutboxAssumption /\ SystemInit => SysInv
  <1> SUFFICES ASSUME OutboxAssumption, SystemInit PROVE SysInv
    OBVIOUS
  <1>1. Init /\ Proved!Init
    BY SameInit DEF SystemInit
  <1>2. TypeInv
    BY <1>1, InitTypeInv
  <1>3. LockInv
    BY <1>1 DEF Init, LockInv, OneAttemptInside, InTransaction
  <1>4. StatusInv
    BY <1>1 DEF Init, QueueInit, IdleRequest, StatusInv, JobsHaveTheirComment,
                DeadLetteredIsNotNew
  <1>5. DraftInv
    BY <1>1 DEF Init, DraftInv, AtMostOneDraft, NoHalfWrittenAttempt, Completed
  <1>6. Proved!TypeOK
    BY <1>1, Proved!InitTypeOK DEF OutboxAssumption, Proved!UnsetAssumption,
                                   Proved!BoundAssumption
  <1>7. Proved!RowsInv /\ Proved!AnsweredInv
    BY <1>1 DEF Proved!Init, Proved!RowsInv, Proved!AnsweredInv, Proved!SentIsAnswered,
                Proved!IdleDrain, Proved!IdlePatch, Proved!Unread
  <1>. QED
    BY <1>2, <1>3, <1>4, <1>5, <1>6, <1>7 DEF SysInv

LEMMA NextSysInv ==
    OutboxAssumption /\ SysInv /\ [SystemNext]_systemVars => SysInv'
  <1> SUFFICES ASSUME OutboxAssumption, SysInv, [SystemNext]_systemVars PROVE SysInv'
    OBVIOUS
  <1>1. [Next]_vars
    BY StepOfPipeline
  <1>2. [Proved!Next]_(Proved!vars)
    BY StepOfOutbox, SameNext DEF Outbox!vars, Proved!vars
  <1>3. TypeInv' /\ LockInv' /\ StatusInv' /\ DraftInv'
    BY <1>1, NextTypeInv, NextLockInv, NextStatusInv, NextDraftInv DEF SysInv
  <1>4. Proved!TypeOK' /\ Proved!RowsInv' /\ Proved!AnsweredInv'
    BY <1>2, Proved!NextTypeOK, Proved!NextRowsInv, Proved!NextAnsweredInv
    DEF SysInv, OutboxAssumption, Proved!UnsetAssumption, Proved!BoundAssumption
  <1>. QED
    BY <1>3, <1>4 DEF SysInv

LEMMA SysInvariant ==
    ASSUME OutboxAssumption
    PROVE  SystemSpec => []SysInv
  BY InitSysInv, NextSysInv, PTL DEF SystemSpec

-----------------------------------------------------------------------------
(* What follows.                                                           *)

\* Beside the real approvals and drains, the API and the workers do nothing that
\* CommentPipeline does not allow: each commit of a drain is one of its publications.
THEOREM SystemImplementsPipeline ==
    ASSUME OutboxAssumption
    PROVE  SystemSpec => ImplementsPipeline
  <1>1. SystemInit => Init
    BY DEF SystemInit
  <1>2. QED
    BY <1>1, StepOfPipeline, SysInvariant, PTL DEF SystemSpec, ImplementsPipeline, Spec

\* Beside the real workers and operators, approvals and drains do nothing that
\* ReplyOutbox does not allow: each commit of an attempt or a dead letter is one of
\* the lifecycle's steps.
THEOREM SystemImplementsOutbox ==
    ASSUME OutboxAssumption
    PROVE  SystemSpec => ImplementsOutbox
  <1>1. SystemInit => Outbox!Init
    BY DEF SystemInit
  <1>2. QED
    BY <1>1, StepOfOutbox, SysInvariant, PTL
    DEF SystemSpec, ImplementsOutbox, Outbox!Spec

\* What the Inbox sees of the whole system is the lifecycle.
THEOREM SystemImplementsLifecycle ==
    ASSUME OutboxAssumption
    PROVE  SystemSpec => ImplementsLifecycle
  BY SystemImplementsPipeline, PipelineImplementsLifecycle, PTL DEF ImplementsPipeline

\* The row lock and the guard of the Ingest node keep the model from a comment that
\* reads "replied", and one whose reply went out reads nothing else but "failed".
THEOREM AnsweredIsChargedOnlyWhenFailed ==
    ASSUME OutboxAssumption
    PROVE  SystemSpec => []SentIsChargedOnlyWhenFailed
  <1>1. SysInv => SentIsChargedOnlyWhenFailed
    <2> SUFFICES ASSUME SysInv, NEW w \in Workers, pc[w] \in {"triage", "respond"},
                        \E i \in DOMAIN outbox[Subject(w)] : outbox[Subject(w)][i].sent
                 PROVE  comment[Subject(w)] = "failed"
      BY DEF SentIsChargedOnlyWhenFailed
    <2>1. Subject(w) \in Comments
      BY DEF SysInv, TypeInv, Assigned, Subject, Job
    <2>2. comment[Subject(w)] \notin Completed
      BY DEF SysInv, LockInv, InTransaction
    <2>3. comment[Subject(w)] \in {"replied", "failed"}
      BY <2>1 DEF SysInv, Proved!AnsweredInv, Proved!SentIsAnswered
    <2>. QED
      BY <2>2, <2>3 DEF Completed
  <1>2. QED
    BY <1>1, SysInvariant, PTL

\* The audit rows of an attempt are committed with its draft, and only a draft that
\* is committed gets an outbox row.
THEOREM RepliesHaveAnAuditTrail ==
    ASSUME OutboxAssumption
    PROVE  SystemSpec => []RepliesAreAudited
  <1>1. SysInv => RepliesAreAudited
    <2> SUFFICES ASSUME SysInv, NEW c \in Comments, outbox[c] # <<>>
                 PROVE  {<<"triage", "ok">>, <<"response", "ok">>} \subseteq runs[c]
      BY DEF RepliesAreAudited
    <2>1. DOMAIN outbox[c] # {}
      <3>1. outbox[c] \in Seq(Proved!Row)
        BY DEF SysInv, Proved!TypeOK
      <3>2. Len(outbox[c]) \in Nat \ {0}
        BY <3>1, EmptySeq
      <3>3. DOMAIN outbox[c] = 1..Len(outbox[c])
        BY <3>1, LenProperties
      <3>4. 1 \in 1..Len(outbox[c])
        BY <3>2
      <3>. QED
        BY <3>3, <3>4
    <2>2. drafts[c] > 0
      BY <2>1 DEF SysInv, Proved!RowsInv
    <2>. QED
      BY <2>2 DEF SysInv, DraftInv, NoHalfWrittenAttempt
  <1>2. QED
    BY <1>1, SysInvariant, PTL

=============================================================================
