----------------------- MODULE CommentPipelineProofs -----------------------
(***************************************************************************)
(* Theorems about CommentPipeline, for any sets of comments, workers and   *)
(* requests and any bounds.                                                *)
(***************************************************************************)
EXTENDS CommentPipeline, TLAPS

\* A worker has a job exactly when it is not idle.
Assigned ==
    \A w \in Workers :
        /\ pc[w] = "idle" => job[w] = NoJob
        /\ pc[w] # "idle" => job[w] \in Job

TypeInv == TypeOK /\ Assigned

\* Updating a function at one point keeps its type.
LEMMA ExceptType ==
    ASSUME NEW S, NEW T, NEW f \in [S -> T], NEW x, NEW v, x \in S => v \in T
    PROVE  [f EXCEPT ![x] = v] \in [S -> T]
  OBVIOUS

LEMMA InitTypeInv == Init => TypeInv
  BY ClockAssumption, FaultAssumption, TriesAssumption, NoJobAssumption
  DEF Init, QueueInit, TypeInv, TypeOK, Assigned, QueueTypeOK, Status, Stage,
      Request, IdleRequest, Job, Running

LEMMA NextTypeInv == TypeInv /\ [Next]_vars => TypeInv'
  <1> SUFFICES ASSUME TypeInv, [Next]_vars PROVE TypeInv'
    OBVIOUS
  <1> USE NoJobAssumption, ClockAssumption DEF TypeInv, TypeOK, Assigned, QueueTypeOK
  <1>1. ASSUME NEW r \in Requests, IngestComments(r)
        PROVE  TypeInv'
    <2>1. comment' \in [Comments -> Status]
      BY <1>1 DEF IngestComments, Status
    <2>2. req' \in [Requests -> Request]
      <3>1. PICK rows \in SUBSET Comments :
              req' = [req EXCEPT ![r] = [op |-> "ingest",
                                         todo |-> Inserted(rows),
                                         attempt |-> 0, row |-> NoJob]]
        BY <1>1 DEF IngestComments
      <3>2. [op |-> "ingest", todo |-> Inserted(rows), attempt |-> 0, row |-> NoJob] \in Request
        BY DEF Request, Inserted
      <3>. QED
        BY <3>1, <3>2, ExceptType
    <2>. QED
      BY <1>1, <2>1, <2>2 DEF IngestComments, workerVars, arqVars
  <1>2. ASSUME NEW r \in Requests, RequeueUnprocessed(r)
        PROVE  TypeInv'
    <2>1. req' \in [Requests -> Request]
      BY <1>2 DEF RequeueUnprocessed, AttemptSuffix, Request
    <2>. QED
      BY <1>2, <2>1 DEF RequeueUnprocessed, dbVars, workerVars, arqVars
  <1>3. ASSUME NEW r \in Requests, EnqueueNext(r)
        PROVE  TypeInv'
    <2>1. PICK c \in req[r].todo :
            /\ EnqueueJob([comment |-> c, attempt |-> req[r].attempt])
            /\ req' = [req EXCEPT ![r] =
                         IF req[r].todo \ {c} = {} /\ req[r].op # "retry"
                         THEN IdleRequest ELSE [req[r] EXCEPT !.todo = @ \ {c}]]
      BY <1>3 DEF EnqueueNext
    <2>2. req[r] \in Request /\ IdleRequest \in Request
      BY DEF IdleRequest, Request
    <2>3. [req[r] EXCEPT !.todo = @ \ {c}] \in Request
      BY <2>2 DEF Request
    <2>4. req' \in [Requests -> Request]
      BY <2>1, <2>2, <2>3
    <2>5. [comment |-> c, attempt |-> req[r].attempt] \in Job
      BY <2>2 DEF Request, Job
    <2>6. QueueTypeOK'
      BY <2>1, <2>5 DEF EnqueueJob, Known
    <2>. QED
      BY <1>3, <2>4, <2>6 DEF EnqueueNext, dbVars, workerVars
  <1>4. ASSUME NEW r \in Requests, DeleteRetriedRow(r)
        PROVE  TypeInv'
    <2>1. dlq' \in [Job -> Nat]
      <3> DEFINE row == req[r].row
      <3>1. dlq' = [dlq EXCEPT ![row] = IF dlq[row] > 0 THEN dlq[row] - 1 ELSE dlq[row]]
        BY <1>4 DEF DeleteRetriedRow, DeleteFailedJob
      <3>2. row \in Job => (IF dlq[row] > 0 THEN dlq[row] - 1 ELSE dlq[row]) \in Nat
        OBVIOUS
      <3>. QED
        BY <3>1, <3>2, ExceptType
    <2>2. req' \in [Requests -> Request]
      BY <1>4 DEF DeleteRetriedRow, IdleRequest, Request
    <2>. QED
      BY <1>4, <2>1, <2>2 DEF DeleteRetriedRow, workerVars, arqVars
  <1>5. ASSUME NEW r \in Requests, AbortRequest(r)
        PROVE  TypeInv'
    BY <1>5, FaultAssumption
    DEF AbortRequest, Fault, IdleRequest, Request, dbVars, workerVars, arqVars
  <1>6. ASSUME NEW w \in Workers, PickJob(w)
        PROVE  TypeInv'
    BY <1>6, TriesAssumption
    DEF PickJob, StartJob, Goto, Stage, Running, dbVars
  <1>7. ASSUME NEW w \in Workers, ExhaustJob(w)
        PROVE  TypeInv'
    BY <1>7
    DEF ExhaustJob, AbandonJob, FinishJob, dbVars, workerVars
  <1>8. ASSUME NEW w \in Workers, Ingest(w)
        PROVE  TypeInv'
    BY <1>8
    DEF Ingest, Goto, Stage, Running, InTransaction, dbVars, arqVars
  <1>9. ASSUME NEW w \in Workers, Triage(w)
        PROVE  TypeInv'
    BY <1>9
    DEF Triage, Goto, Stage, Running, InTransaction, dbVars, arqVars
  <1>10. ASSUME NEW w \in Workers, Respond(w)
        PROVE  TypeInv'
    BY <1>10
    DEF Respond, Goto, Stage, Running, InTransaction, dbVars, arqVars
  <1>11. ASSUME NEW w \in Workers, PersistDraft(w)
        PROVE  TypeInv'
    <2>1. runs' \in [Comments -> SUBSET RunKind]
      <3> DEFINE rows == ReplyRuns
      <3>1. runs' = [runs EXCEPT ![Subject(w)] = runs[Subject(w)] \cup rows]
        BY <1>11 DEF PersistDraft
      <3>2. rows \subseteq RunKind
        BY DEF RunKind, ReplyRuns
      <3>3. Subject(w) \in Comments => runs[Subject(w)] \cup rows \in SUBSET RunKind
        BY <3>2
      <3>. QED
        BY <3>1, <3>3, ExceptType
    <2>2. comment' \in [Comments -> Status]
      BY <1>11 DEF PersistDraft, Status, Completed
    <2>3. drafts' \in [Comments -> Nat]
      <3>1. drafts' = [drafts EXCEPT ![Subject(w)] = drafts[Subject(w)] + 1]
        BY <1>11 DEF PersistDraft
      <3>2. Subject(w) \in Comments => drafts[Subject(w)] + 1 \in Nat
        OBVIOUS
      <3>. QED
        BY <3>1, <3>2, ExceptType
    <2>. QED
      BY <1>11, <2>1, <2>2, <2>3 DEF PersistDraft, Goto, Stage, Running, arqVars
  <1>12. ASSUME NEW w \in Workers, PersistReplied(w)
        PROVE  TypeInv'
    <2>1. runs' \in [Comments -> SUBSET RunKind]
      <3> DEFINE rows == {<<"triage", "ok">>}
      <3>1. runs' = [runs EXCEPT ![Subject(w)] = runs[Subject(w)] \cup rows]
        BY <1>12 DEF PersistReplied
      <3>2. rows \subseteq RunKind
        BY DEF RunKind, ReplyRuns
      <3>3. Subject(w) \in Comments => runs[Subject(w)] \cup rows \in SUBSET RunKind
        BY <3>2
      <3>. QED
        BY <3>1, <3>3, ExceptType
    <2>2. comment' \in [Comments -> Status]
      BY <1>12 DEF PersistReplied, Status, Completed
    <2>. QED
      BY <1>12, <2>1, <2>2 DEF PersistReplied, Goto, Stage, Running, arqVars
  <1>13. ASSUME NEW w \in Workers, PersistConflict(w)
        PROVE  TypeInv'
    BY <1>13
    DEF PersistConflict, Goto, Stage, Running, dbVars, arqVars
  <1>14. ASSUME NEW w \in Workers, FailAttempt(w)
        PROVE  TypeInv'
    <2>1. \A rows \in FailureRows(w) : rows \subseteq RunKind
      BY DEF FailureRows, RunKind
    <2>2. runs' \in [Comments -> SUBSET RunKind]
      <3>1. PICK rows \in FailureRows(w) :
              runs' = [runs EXCEPT ![Subject(w)] = runs[Subject(w)] \cup rows]
        BY <1>14 DEF FailAttempt
      <3>2. Subject(w) \in Comments => runs[Subject(w)] \cup rows \in SUBSET RunKind
        BY <2>1
      <3>. QED
        BY <3>1, <3>2, ExceptType
    <2>3. exit' \in [Workers -> {"ok", "error", "rerun"}]
      BY <1>14 DEF FailAttempt
    <2>4. faults' \in 0..MaxFaults
      BY <1>14, FaultAssumption DEF FailAttempt, Fault
    <2>. QED
      BY <1>14, <2>2, <2>3, <2>4 DEF FailAttempt, Goto, Stage, Running, InTransaction, arqVars
  <1>15. ASSUME NEW w \in Workers, HandleFailure(w)
        PROVE  TypeInv'
    BY <1>15
    DEF HandleFailure, Goto, Stage, Subject, Job, dbVars, arqVars
  <1>16. ASSUME NEW w \in Workers, RecordFailure(w)
        PROVE  TypeInv'
    BY <1>16
    DEF RecordFailure, Goto, Stage, DeadLetteredStatus, Status, arqVars
  <1>17. ASSUME NEW w \in Workers, RecordFailureFails(w)
        PROVE  TypeInv'
    BY <1>17, FaultAssumption
    DEF RecordFailureFails, Fault, Goto, Stage, dbVars, arqVars
  <1>18. ASSUME NEW w \in Workers, LeaveJob(w)
        PROVE  TypeInv'
    BY <1>18
    DEF LeaveJob, FinishJob, RerunJob, Goto, Stage, dbVars
  <1>19. ASSUME NEW w \in Workers, CrashWorker(w)
        PROVE  TypeInv'
    BY <1>19, FaultAssumption
    DEF CrashWorker, Fault, Goto, Stage, dbVars, arqVars
  <1>20. ASSUME NEW r \in Requests, NEW row \in Job, RetryFailedJob(r, row)
        PROVE  TypeInv'
    BY <1>20
    DEF RetryFailedJob, IdleRequest, Request, AttemptSuffix, Job, dbVars, workerVars, arqVars
  <1>21. ASSUME NEW row \in Job, DiscardFailedJob(row)
        PROVE  TypeInv'
    BY <1>21
    DEF DiscardFailedJob, DeleteFailedJob, workerVars, arqVars
  <1>22. ASSUME NEW j \in Job, ExpireInProgress(j)
        PROVE  TypeInv'
    BY <1>22
    DEF ExpireInProgress, RerunJob, dbVars, workerVars
  <1>23. ASSUME Tick
        PROVE  TypeInv'
    BY <1>23
    DEF Tick, dbVars, workerVars, arqVars
  <1>24. CASE UNCHANGED vars
    BY <1>24 DEF vars, dbVars, workerVars, arqVars
  <1>25. ASSUME PublishReplies
         PROVE  TypeInv'
    <2>1. comment' \in [Comments -> Status]
      BY <1>25 DEF PublishReplies, Status, Completed
    <2>. QED
      BY <1>25, <2>1 DEF PublishReplies, workerVars, arqVars
  <1>26. QED
    BY <1>1, <1>2, <1>3, <1>4, <1>5, <1>6, <1>7, <1>8, <1>9, <1>10, <1>11, <1>12, <1>13, <1>14, <1>15, <1>16, <1>17, <1>18, <1>19, <1>20, <1>21, <1>22, <1>23, <1>24, <1>25
    DEF Next, PipelineNext, WorkerStep, WorkerFault, RequestStep, Operator

LEMMA TypeInvariant == Spec => []TypeInv
  BY InitTypeInv, NextTypeInv, PTL DEF Spec

\* Every reachable state is well typed.
THEOREM TypeCorrect == Spec => []TypeOK
  BY TypeInvariant, PTL DEF TypeInv

-----------------------------------------------------------------------------
(* The steps by what they leave alone.                                     *)

\* Everything outside the workers except the ingest endpoint.
Outside ==
    \/ \E r \in Requests : RequeueUnprocessed(r) \/ RequestStep(r) \/ AbortRequest(r)
    \/ \E r \in Requests, row \in Job : RetryFailedJob(r, row)
    \/ \E row \in Job : DiscardFailedJob(row)
    \/ \E j \in Job : ExpireInProgress(j)
    \/ Tick

\* The steps of a worker that write no comment and take no row lock.
Silent(w) ==
    \/ PickJob(w) \/ ExhaustJob(w) \/ Triage(w) \/ Respond(w) \/ PersistConflict(w)
    \/ HandleFailure(w) \/ LeaveJob(w)
    \/ FailAttempt(w) \/ RecordFailureFails(w) \/ CrashWorker(w)

LEMMA PipelineCases ==
    ASSUME PipelineNext
    PROVE  \/ \E r \in Requests : IngestComments(r)
           \/ Outside
           \/ \E w \in Workers : \/ Silent(w) \/ Ingest(w) \/ PersistDraft(w)
                                 \/ PersistReplied(w) \/ RecordFailure(w)
  BY DEF PipelineNext, WorkerStep, WorkerFault, RequestStep, Operator, Outside, Silent

LEMMA StepCases ==
    ASSUME [Next]_vars
    PROVE  \/ \E r \in Requests : IngestComments(r)
           \/ Outside
           \/ PublishReplies
           \/ \E w \in Workers : \/ Silent(w) \/ Ingest(w) \/ PersistDraft(w)
                                 \/ PersistReplied(w) \/ RecordFailure(w)
           \/ UNCHANGED vars
  BY PipelineCases DEF Next

LEMMA OutsideFrame == Outside => UNCHANGED <<comment, drafts, runs, workerVars>>
  BY DEF Outside, RequestStep, RequeueUnprocessed, EnqueueNext, DeleteRetriedRow,
         AbortRequest, RetryFailedJob, DiscardFailedJob, ExpireInProgress, Tick,
         dbVars, workerVars

LEMMA SilentFrame ==
    ASSUME TypeInv, NEW w \in Workers, Silent(w)
    PROVE  /\ UNCHANGED <<comment, drafts>>
           /\ \A c \in Comments : runs[c] \subseteq runs'[c]
           /\ \A v \in Workers : v # w => pc'[v] = pc[v] /\ job'[v] = job[v]
           /\ pc'[w] \in InTransaction => pc[w] \in InTransaction /\ job'[w] = job[w]
  BY DEF TypeInv, TypeOK, Silent, PickJob, ExhaustJob, Triage, Respond, PersistConflict,
         HandleFailure, LeaveJob, FailAttempt, RecordFailureFails, CrashWorker, Goto,
         InTransaction, dbVars, workerVars

-----------------------------------------------------------------------------
(* The row lock.                                                           *)

LockInv ==
    /\ OneAttemptInside
    /\ \A w \in Workers : pc[w] \in InTransaction => comment[Subject(w)] \notin Completed

LEMMA NextLockInv == TypeInv /\ LockInv /\ [Next]_vars => LockInv'
  <1> SUFFICES ASSUME TypeInv, LockInv, [Next]_vars PROVE LockInv'
    OBVIOUS
  <1> USE DEF LockInv, OneAttemptInside, Subject
  <1>1. ASSUME NEW r \in Requests, IngestComments(r)
        PROVE  LockInv'
    BY <1>1 DEF IngestComments, Completed, workerVars, TypeInv, TypeOK, Assigned,
                InTransaction, Job
  <1>2. CASE Outside
    BY <1>2, OutsideFrame DEF workerVars
  <1>3. ASSUME NEW w \in Workers, Silent(w)
        PROVE  LockInv'
    BY <1>3, SilentFrame
  <1>4. ASSUME NEW w \in Workers, Ingest(w)
        PROVE  LockInv'
    BY <1>4 DEF Ingest, RowLockFree, AlreadyProcessed, Goto, InTransaction, dbVars,
                TypeInv, TypeOK
  <1>5. ASSUME NEW w \in Workers, PersistDraft(w)
        PROVE  LockInv'
    BY <1>5 DEF PersistDraft, Goto, InTransaction, TypeInv, TypeOK
  <1>6. ASSUME NEW w \in Workers, PersistReplied(w)
        PROVE  LockInv'
    BY <1>6 DEF PersistReplied, Goto, InTransaction, TypeInv, TypeOK
  <1>7. ASSUME NEW w \in Workers, RecordFailure(w)
        PROVE  LockInv'
    <2>1. \A c \in Comments : comment'[c] \in {comment[c], "failed"}
      BY <1>7 DEF RecordFailure, DeadLetteredStatus, TypeInv, TypeOK
    <2>2. \A v \in Workers : pc'[v] \in InTransaction => pc[v] \in InTransaction
      BY <1>7 DEF RecordFailure, Goto, InTransaction, TypeInv, TypeOK
    <2>3. job' = job
      BY <1>7 DEF RecordFailure
    <2>4. \A v \in Workers : pc[v] \in InTransaction => Subject(v) \in Comments
      BY DEF TypeInv, Assigned, InTransaction, Job
    <2>. QED
      BY <2>1, <2>2, <2>3, <2>4 DEF Completed
  <1>8. CASE UNCHANGED vars
    BY <1>8 DEF vars, dbVars, workerVars
  <1>9. CASE PublishReplies
    <2>1. \A v \in Workers : pc[v] \in InTransaction => Subject(v) \in Comments
      BY DEF TypeInv, Assigned, InTransaction, Job
    <2>2. UNCHANGED workerVars
      BY <1>9 DEF PublishReplies
    <2>3. \A v \in Workers :
            pc[v] \in InTransaction => comment'[Subject(v)] = comment[Subject(v)]
      BY <1>9, <2>1 DEF PublishReplies, RowLockFree
    <2>. QED
      BY <2>2, <2>3 DEF workerVars
  <1>10. QED
    BY <1>1, <1>2, <1>3, <1>4, <1>5, <1>6, <1>7, <1>8, <1>9, StepCases

LEMMA LockInvariant == Spec => []LockInv
  <1>1. Init => LockInv
    BY DEF Init, LockInv, OneAttemptInside, InTransaction
  <1>2. QED
    BY <1>1, NextLockInv, TypeInvariant, PTL DEF Spec

\* Attempts at one comment are serialised by its row lock.
THEOREM RowLockSerialises == Spec => []OneAttemptInside
  BY LockInvariant, PTL DEF LockInv

\* The model is never called for a comment that is finished.
THEOREM NoRespend == Spec => []NoChargeWhenCompleted
  <1>1. LockInv => NoChargeWhenCompleted
    BY DEF LockInv, NoChargeWhenCompleted, InTransaction
  <1>2. QED
    BY <1>1, LockInvariant, PTL

-----------------------------------------------------------------------------
(* Drafts and what is written with them.                                   *)

DraftInv == AtMostOneDraft /\ NoHalfWrittenAttempt

LEMMA NextDraftInv == TypeInv /\ DraftInv /\ [Next]_vars => DraftInv'
  <1> SUFFICES ASSUME TypeInv, DraftInv, [Next]_vars PROVE DraftInv'
    OBVIOUS
  <1> USE DEF DraftInv, AtMostOneDraft, NoHalfWrittenAttempt
  <1>1. ASSUME NEW r \in Requests, IngestComments(r)
        PROVE  DraftInv'
    BY <1>1 DEF IngestComments, Completed
  <1>2. CASE Outside
    BY <1>2, OutsideFrame
  <1>3. ASSUME NEW w \in Workers, Silent(w)
        PROVE  DraftInv'
    BY <1>3, SilentFrame
  <1>4. ASSUME NEW w \in Workers, Ingest(w)
        PROVE  DraftInv'
    BY <1>4 DEF Ingest, dbVars
  <1>5. ASSUME NEW w \in Workers, PersistDraft(w)
        PROVE  DraftInv'
    BY <1>5 DEF PersistDraft, DraftAllowed, ReplyRuns, TypeInv, TypeOK
  <1>6. ASSUME NEW w \in Workers, PersistReplied(w)
        PROVE  DraftInv'
    BY <1>6 DEF PersistReplied, TypeInv, TypeOK
  <1>7. ASSUME NEW w \in Workers, RecordFailure(w)
        PROVE  DraftInv'
    BY <1>7 DEF RecordFailure, DeadLetteredStatus, Completed, TypeInv, TypeOK
  <1>8. CASE UNCHANGED vars
    BY <1>8 DEF vars, dbVars
  <1>9. CASE PublishReplies
    BY <1>9 DEF PublishReplies
  <1>10. QED
    BY <1>1, <1>2, <1>3, <1>4, <1>5, <1>6, <1>7, <1>8, <1>9, StepCases

LEMMA DraftInvariant == Spec => []DraftInv
  <1>1. Init => DraftInv
    BY DEF Init, DraftInv, AtMostOneDraft, NoHalfWrittenAttempt, Completed
  <1>2. QED
    BY <1>1, NextDraftInv, TypeInvariant, PTL DEF Spec

\* No comment ever has two drafts.
THEOREM UniqueDrafts == Spec => []AtMostOneDraft
  BY DraftInvariant, PTL DEF DraftInv

\* An attempt's writes are visible together or not at all.
THEOREM AttemptsAreAtomic == Spec => []NoHalfWrittenAttempt
  BY DraftInvariant, PTL DEF DraftInv

-----------------------------------------------------------------------------
(* Comments exist before their jobs, and leave "new" before their dead     *)
(* letters.                                                                *)

Settled(c) == comment[c] \notin {"absent", "new"}

StatusInv ==
    /\ JobsHaveTheirComment
    /\ \A r \in Requests : \A c \in req[r].todo : comment[c] # "absent"
    /\ \A w \in Workers : pc[w] # "idle" => comment[Subject(w)] # "absent"
    /\ \A w \in Workers : pc[w] = "recording" /\ seen[w] = "failed" => Settled(Subject(w))
    /\ DeadLetteredIsNotNew

\* A status never goes back to "absent", nor to "new".
LEMMA StatusStep ==
    ASSUME TypeInv, [Next]_vars, NEW c \in Comments
    PROVE  /\ comment[c] # "absent" => comment'[c] # "absent"
           /\ Settled(c) => Settled(c)'
  <1> USE DEF Settled
  <1>1. ASSUME NEW r \in Requests, IngestComments(r)
        PROVE  /\ comment[c] # "absent" => comment'[c] # "absent"
               /\ Settled(c) => Settled(c)'
    BY <1>1 DEF IngestComments, Inserted
  <1>2. ASSUME NEW w \in Workers, PersistDraft(w) \/ PersistReplied(w) \/ RecordFailure(w)
        PROVE  /\ comment[c] # "absent" => comment'[c] # "absent"
               /\ Settled(c) => Settled(c)'
    BY <1>2 DEF PersistDraft, PersistReplied, RecordFailure, DeadLetteredStatus, TypeInv, TypeOK
  <1>3. ASSUME NEW w \in Workers, Silent(w) \/ Ingest(w)
        PROVE  comment' = comment
    BY <1>3, SilentFrame DEF Ingest, dbVars
  <1>4. CASE Outside \/ UNCHANGED vars
    BY <1>4, OutsideFrame DEF vars, dbVars
  <1>5. CASE PublishReplies
    BY <1>5 DEF PublishReplies
  <1>6. QED
    BY <1>1, <1>2, <1>3, <1>4, <1>5, StepCases

LEMMA NextStatusInv == TypeInv /\ StatusInv /\ [Next]_vars => StatusInv'
  <1> SUFFICES ASSUME TypeInv, StatusInv, [Next]_vars PROVE StatusInv'
    OBVIOUS
  <1>a. \A c \in Comments : /\ comment[c] # "absent" => comment'[c] # "absent"
                            /\ Settled(c) => Settled(c)'
    BY StatusStep
  <1> USE DEF StatusInv, JobsHaveTheirComment, DeadLetteredIsNotNew, Settled, Subject,
              TypeInv, TypeOK, Assigned, QueueTypeOK, Job
  <1>1. ASSUME NEW r \in Requests, IngestComments(r)
        PROVE  StatusInv'
    <2>1. PICK rows \in SUBSET Comments :
            /\ comment' = [c \in Comments |->
                             IF c \in Inserted(rows) THEN "new" ELSE comment[c]]
            /\ req' = [req EXCEPT ![r] = [op |-> "ingest", todo |-> Inserted(rows),
                                          attempt |-> 0, row |-> NoJob]]
      BY <1>1 DEF IngestComments
    <2>2. \A c \in Inserted(rows) : c \in Comments /\ comment'[c] = "new"
      BY <2>1 DEF Inserted
    <2>3. \A q \in Requests : req'[q].todo \subseteq req[q].todo \cup Inserted(rows)
      BY <2>1
    <2>4. \A q \in Requests : req[q].todo \subseteq Comments
      BY DEF Request
    <2>5. \A q \in Requests : \A c \in req'[q].todo : comment'[c] # "absent"
      BY <2>2, <2>3, <2>4, <1>a
    <2>. QED
      BY <1>1, <1>a, <2>5 DEF IngestComments, workerVars, arqVars
  <1>2. ASSUME NEW r \in Requests, RequeueUnprocessed(r)
        PROVE  StatusInv'
    BY <1>2, <1>a DEF RequeueUnprocessed, dbVars, workerVars, arqVars
  <1>3. ASSUME NEW r \in Requests, NEW row \in Job, RetryFailedJob(r, row)
        PROVE  StatusInv'
    BY <1>3, <1>a DEF RetryFailedJob, dbVars, workerVars, arqVars
  <1>4. ASSUME NEW r \in Requests, EnqueueNext(r)
        PROVE  StatusInv'
    BY <1>4, <1>a DEF EnqueueNext, EnqueueJob, IdleRequest, dbVars, workerVars
  <1>5. ASSUME NEW r \in Requests, DeleteRetriedRow(r)
        PROVE  StatusInv'
    BY <1>5, <1>a DEF DeleteRetriedRow, DeleteFailedJob, IdleRequest, workerVars, arqVars
  <1>6. ASSUME NEW r \in Requests, AbortRequest(r)
        PROVE  StatusInv'
    BY <1>6, <1>a DEF AbortRequest, IdleRequest, dbVars, workerVars, arqVars
  <1>7. ASSUME NEW row \in Job, DiscardFailedJob(row)
        PROVE  StatusInv'
    BY <1>7, <1>a DEF DiscardFailedJob, DeleteFailedJob, workerVars, arqVars
  <1>8. ASSUME NEW j \in Job, ExpireInProgress(j)
        PROVE  StatusInv'
    BY <1>8, <1>a DEF ExpireInProgress, RerunJob, dbVars, workerVars, arqVars
  <1>9. ASSUME NEW w \in Workers, PickJob(w)
        PROVE  StatusInv'
    BY <1>9, <1>a DEF PickJob, StartJob, Goto, dbVars
  <1>10. ASSUME NEW w \in Workers, ExhaustJob(w)
        PROVE  StatusInv'
    BY <1>10, <1>a DEF ExhaustJob, AbandonJob, FinishJob, dbVars, workerVars
  <1>11. ASSUME NEW w \in Workers, Ingest(w) \/ Triage(w) \/ Respond(w)
        PROVE  StatusInv'
    BY <1>11, <1>a DEF Ingest, Triage, Respond, Goto, dbVars, arqVars
  <1>12. ASSUME NEW w \in Workers, PersistDraft(w) \/ PersistReplied(w)
        PROVE  StatusInv'
    <2>1. UNCHANGED <<dlq, job, seen, req, arqVars>>
      BY <1>12 DEF PersistDraft, PersistReplied
    <2>2. \A v \in Workers : pc'[v] = pc[v] \/ (pc[v] # "idle" /\ pc'[v] = "committed")
      BY <1>12 DEF PersistDraft, PersistReplied, Goto
    <2>3. \A q \in Requests : req[q].todo \subseteq Comments
      BY DEF Request
    <2>. QED
      BY <2>1, <2>2, <2>3, <1>a DEF arqVars
  <1>13. ASSUME NEW w \in Workers, PersistConflict(w) \/ FailAttempt(w) \/ RecordFailureFails(w)
        PROVE  StatusInv'
    BY <1>13, <1>a DEF PersistConflict, FailAttempt, RecordFailureFails, Running, InTransaction, Goto, dbVars, arqVars
  <1>14. ASSUME NEW w \in Workers, HandleFailure(w)
        PROVE  StatusInv'
    BY <1>14, <1>a DEF HandleFailure, Goto, dbVars, arqVars
  <1>15. ASSUME NEW w \in Workers, RecordFailure(w)
        PROVE  StatusInv'
    <2>1. UNCHANGED <<job, seen, req, arqVars>>
      BY <1>15 DEF RecordFailure
    <2>2. \A v \in Workers : pc'[v] = pc[v] \/ (pc[v] # "idle" /\ pc'[v] = "raised")
      BY <1>15 DEF RecordFailure, Goto
    <2>3. \A q \in Requests : req[q].todo \subseteq Comments
      BY DEF Request
    <2>4. job[w] \in Job /\ Subject(w) \in Comments
      BY <1>15 DEF RecordFailure
    <2>5. Settled(Subject(w))'
      BY <1>15, <2>4, <1>a DEF RecordFailure, DeadLetteredStatus
    <2>6. \A j \in Job : dlq'[j] > 0 => dlq[j] > 0 \/ j = job[w]
      BY <1>15 DEF RecordFailure
    <2>7. DeadLetteredIsNotNew'
      BY <2>1, <2>5, <2>6, <1>a
    <2>. QED
      BY <2>1, <2>2, <2>3, <2>7, <1>a DEF arqVars
  <1>16. ASSUME NEW w \in Workers, LeaveJob(w)
        PROVE  StatusInv'
    BY <1>16, <1>a DEF LeaveJob, FinishJob, RerunJob, Goto, dbVars
  <1>17. ASSUME NEW w \in Workers, CrashWorker(w)
        PROVE  StatusInv'
    BY <1>17, <1>a DEF CrashWorker, Goto, dbVars, arqVars
  <1>18. CASE Tick \/ UNCHANGED vars
    BY <1>18 DEF Tick, vars, dbVars, workerVars, arqVars
  <1>19. CASE PublishReplies
    <2>1. \A q \in Requests : req[q].todo \subseteq Comments
      BY DEF Request
    <2>. QED
      BY <1>19, <1>a, <2>1 DEF PublishReplies, workerVars, arqVars
  <1>20. QED
    BY <1>1, <1>2, <1>3, <1>4, <1>5, <1>6, <1>7, <1>8, <1>9, <1>10, <1>11, <1>12, <1>13, <1>14, <1>15, <1>16, <1>17, <1>18, <1>19
    DEF Next, PipelineNext, WorkerStep, WorkerFault, RequestStep, Operator

LEMMA StatusInvariant == Spec => []StatusInv
  <1>1. Init => StatusInv
    BY DEF Init, QueueInit, IdleRequest, StatusInv, JobsHaveTheirComment, DeadLetteredIsNotNew
  <1>2. QED
    BY <1>1, NextStatusInv, TypeInvariant, PTL DEF Spec

\* A worker never looks for a comment that is not there yet: ingest commits
\* before it enqueues, and nothing else brings an unknown comment into a job.
THEOREM CommentsPrecedeJobs == Spec => []JobsHaveTheirComment
  BY StatusInvariant, PTL DEF StatusInv

\* A dead-lettered comment never reads as one the pipeline has not reached.
THEOREM DeadLettersShow == Spec => []DeadLetteredIsNotNew
  BY StatusInvariant, PTL DEF StatusInv

-----------------------------------------------------------------------------
(* The pipeline implements CommentLifecycle.                               *)

\* The steps of the pipeline itself publish nothing.
LEMMA PipelineLifecycleStep ==
    ASSUME TypeInv, LockInv, StatusInv, PipelineNext
    PROVE  \/ Lifecycle!Accept
           \/ \E c \in Comments :
                Lifecycle!Draft(c) \/ Lifecycle!Close(c) \/ Lifecycle!GiveUp(c)
           \/ UNCHANGED Lifecycle!vars
  <1>1. ASSUME NEW r \in Requests, IngestComments(r)
        PROVE  Lifecycle!Accept
    <2>1. PICK rows \in SUBSET Comments :
            comment' = [c \in Comments |-> IF c \in Inserted(rows) THEN "new" ELSE comment[c]]
      BY <1>1 DEF IngestComments
    <2>2. Inserted(rows) \in SUBSET {c \in Comments : comment[c] = "absent"}
      BY DEF Inserted
    <2>. QED
      BY <1>1, <2>1, <2>2 DEF IngestComments, Lifecycle!Accept
  <1>2. ASSUME NEW w \in Workers, PersistDraft(w) \/ PersistReplied(w)
        PROVE  Subject(w) \in Comments /\ Lifecycle!Unsettled(Subject(w))
    <2>1. pc[w] \in InTransaction
      BY <1>2 DEF PersistDraft, PersistReplied, InTransaction
    <2>2. Subject(w) \in Comments /\ comment[Subject(w)] \notin Completed \cup {"absent"}
      BY <2>1 DEF LockInv, StatusInv, TypeInv, Assigned, InTransaction, Subject, Job
    <2>. QED
      BY <2>2 DEF TypeInv, TypeOK, Status, Lifecycle!Unsettled
  <1>3. ASSUME NEW w \in Workers, PersistDraft(w)
        PROVE  Lifecycle!Draft(Subject(w))
    <2>1. drafts[Subject(w)] = 0
      BY <1>3 DEF PersistDraft, DraftAllowed
    <2>2. drafts' = [drafts EXCEPT ![Subject(w)] = drafts[Subject(w)] + 1]
      BY <1>3 DEF PersistDraft
    <2>3. drafts' = [drafts EXCEPT ![Subject(w)] = 1]
      BY <2>1, <2>2
    <2>. QED
      BY <1>2, <1>3, <2>1, <2>3 DEF PersistDraft, Lifecycle!Draft
  <1>4. ASSUME NEW w \in Workers, PersistReplied(w)
        PROVE  Lifecycle!Close(Subject(w))
    BY <1>2, <1>4 DEF PersistReplied, Lifecycle!Close
  <1>5. ASSUME NEW w \in Workers, RecordFailure(w)
        PROVE  Lifecycle!GiveUp(Subject(w)) \/ UNCHANGED Lifecycle!vars
    BY <1>5 DEF RecordFailure, DeadLetteredStatus, StatusInv, Lifecycle!GiveUp, Lifecycle!vars
  <1>6. ASSUME NEW w \in Workers, RecordFailure(w)
        PROVE  Subject(w) \in Comments
    BY <1>6 DEF RecordFailure, TypeInv, Assigned, Subject, Job
  <1>7. ASSUME NEW w \in Workers, Silent(w) \/ Ingest(w)
        PROVE  UNCHANGED Lifecycle!vars
    BY <1>7, SilentFrame DEF Ingest, dbVars, Lifecycle!vars
  <1>8. CASE Outside
    BY <1>8, OutsideFrame DEF Lifecycle!vars
  <1>9. QED
    BY <1>1, <1>2, <1>3, <1>4, <1>5, <1>6, <1>7, <1>8, PipelineCases

LEMMA LifecycleStep ==
    TypeInv /\ LockInv /\ StatusInv /\ [Next]_vars => [Lifecycle!Next]_(Lifecycle!vars)
  <1>1. PublishReplies => Lifecycle!Publish
    BY DEF PublishReplies, Lifecycle!Publish
  <1>2. UNCHANGED vars => UNCHANGED Lifecycle!vars
    BY DEF vars, dbVars, Lifecycle!vars
  <1>3. QED
    BY <1>1, <1>2, PipelineLifecycleStep DEF Next, Lifecycle!Next

\* Whatever workers, operators and failures do, the Inbox sees a lifecycle.
THEOREM PipelineImplementsLifecycle == Spec => ImplementsLifecycle
  <1>1. Init => Lifecycle!Init
    BY DEF Init, Lifecycle!Init
  <1>2. QED
    BY <1>1, LifecycleStep, TypeInvariant, LockInvariant, StatusInvariant, PTL
    DEF Spec, ImplementsLifecycle, Lifecycle!Spec

-----------------------------------------------------------------------------
(* Dead letters.                                                           *)

\* Why a job cannot be dead-lettered twice: the row is written on the last try,
\* by the one worker that holds the job, and a job on its last try is not
\* started again.
DeadLetterInv ==
    /\ \A w \in Workers : pc[w] # "idle" => job[w] \in inProgress
    /\ \A v, w \in Workers : v # w /\ pc[v] # "idle" => job[v] # job[w]
    /\ \A w \in Workers : pc[w] = "recording" => tries[job[w]] = MaxTries
    /\ \A j \in Job :
         /\ dlq[j] <= 1
         /\ dlq[j] > 0 => /\ tries[j] = MaxTries
                          /\ \A w \in Workers : job[w] = j => pc[w] = "raised"

LEMMA NextDeadLetterInv == TypeInv /\ DeadLetterInv /\ [Next]_vars => DeadLetterInv'
  <1> SUFFICES ASSUME TypeInv, DeadLetterInv, [Next]_vars PROVE DeadLetterInv'
    OBVIOUS
  <1> USE NoJobAssumption DEF DeadLetterInv, TypeInv, TypeOK, Assigned, QueueTypeOK
  <1>1. ASSUME NEW r \in Requests, IngestComments(r) \/ RequeueUnprocessed(r) \/ AbortRequest(r)
        PROVE  DeadLetterInv'
    BY <1>1 DEF IngestComments, RequeueUnprocessed, AbortRequest, dbVars, workerVars, arqVars
  <1>2. ASSUME NEW r \in Requests, NEW row \in Job, RetryFailedJob(r, row)
        PROVE  DeadLetterInv'
    BY <1>2 DEF RetryFailedJob, dbVars, workerVars, arqVars
  <1>3. ASSUME NEW r \in Requests, EnqueueNext(r)
        PROVE  DeadLetterInv'
    BY <1>3 DEF EnqueueNext, EnqueueJob, dbVars, workerVars
  <1>4. ASSUME NEW r \in Requests, DeleteRetriedRow(r)
        PROVE  DeadLetterInv'
    BY <1>4 DEF DeleteRetriedRow, DeleteFailedJob, workerVars, arqVars
  <1>5. ASSUME NEW row \in Job, DiscardFailedJob(row)
        PROVE  DeadLetterInv'
    BY <1>5 DEF DiscardFailedJob, DeleteFailedJob, workerVars, arqVars
  <1>6. ASSUME NEW j \in Job, ExpireInProgress(j)
        PROVE  DeadLetterInv'
    BY <1>6 DEF ExpireInProgress, RerunJob, dbVars, workerVars
  <1>7. ASSUME NEW w \in Workers, PickJob(w)
        PROVE  DeadLetterInv'
    BY <1>7, TriesAssumption DEF PickJob, StartJob, Goto, dbVars
  <1>8. ASSUME NEW w \in Workers, ExhaustJob(w)
        PROVE  DeadLetterInv'
    BY <1>8 DEF ExhaustJob, AbandonJob, FinishJob, dbVars, workerVars
  <1>9. ASSUME NEW w \in Workers,
               \/ Ingest(w) \/ Triage(w) \/ Respond(w)
               \/ PersistDraft(w) \/ PersistReplied(w) \/ PersistConflict(w)
               \/ FailAttempt(w) \/ RecordFailureFails(w)
        PROVE  DeadLetterInv'
    BY <1>9 DEF Ingest, Triage, Respond, PersistDraft, PersistReplied, PersistConflict,
                FailAttempt, RecordFailureFails, Running, InTransaction, Goto, dbVars, arqVars
  <1>10. ASSUME NEW w \in Workers, HandleFailure(w)
         PROVE  DeadLetterInv'
    BY <1>10, TriesAssumption DEF HandleFailure, LastAttempt, Goto, dbVars, arqVars
  <1>11. ASSUME NEW w \in Workers, RecordFailure(w)
         PROVE  DeadLetterInv'
    BY <1>11 DEF RecordFailure, Goto, arqVars
  <1>12. ASSUME NEW w \in Workers, LeaveJob(w)
         PROVE  DeadLetterInv'
    BY <1>12 DEF LeaveJob, FinishJob, RerunJob, Goto, dbVars
  <1>13. ASSUME NEW w \in Workers, CrashWorker(w)
         PROVE  DeadLetterInv'
    BY <1>13 DEF CrashWorker, Goto, dbVars, arqVars
  <1>14. CASE Tick \/ PublishReplies \/ UNCHANGED vars
    BY <1>14 DEF Tick, PublishReplies, vars, dbVars, workerVars, arqVars
  <1>15. QED
    BY <1>1, <1>2, <1>3, <1>4, <1>5, <1>6, <1>7, <1>8, <1>9, <1>10, <1>11, <1>12, <1>13, <1>14
    DEF Next, PipelineNext, WorkerStep, WorkerFault, RequestStep, Operator

\* A job is dead-lettered at most once, however often it is redelivered.
THEOREM DeadLettersAreUnique == Spec => []OneDeadLetterPerJob
  <1>1. Init => DeadLetterInv
    BY NoJobAssumption DEF Init, QueueInit, DeadLetterInv
  <1>2. DeadLetterInv => OneDeadLetterPerJob
    BY DEF DeadLetterInv, OneDeadLetterPerJob
  <1>3. QED
    BY <1>1, <1>2, NextDeadLetterInv, TypeInvariant, PTL DEF Spec
=============================================================================
