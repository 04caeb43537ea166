-------------------------- MODULE CommentPipeline --------------------------
(***************************************************************************)
(* A comment's way from POST /ingest/comments to its drafted reply: the    *)
(* API that inserts and enqueues, the workers that run the comment graph   *)
(* (ingest, triage, respond, persist) in one transaction per attempt, the  *)
(* dead-letter queue, and the two recovery paths an operator has, POST     *)
(* /queue/requeue and POST /failed_jobs/{id}/retry.                        *)
(*                                                                         *)
(* Postgres is READ COMMITTED: the variables comment, drafts, runs and dlq *)
(* are what is committed; an attempt's uncommitted writes are implied by   *)
(* its pc.  The row lock of SELECT ... FOR UPDATE is held exactly by the   *)
(* attempts whose pc is in InTransaction.                                  *)
(***************************************************************************)
EXTENDS Naturals, FiniteSets

CONSTANTS Comments,   \* rows a dump can insert, by (post_id, external_id)
          Workers,    \* worker processes; max_jobs = 1, so one job each
          Requests,   \* API requests that can be in flight at once
          MaxTries,   \* MAX_TRIES
          MaxClock,   \* bound: seconds that can appear in an attempt suffix
          MaxFaults,  \* bound: exceptions, cancellations and crashes
          NoJob       \* no job

ASSUME TriesAssumption == MaxTries \in Nat \ {0}
ASSUME ClockAssumption == MaxClock \in Nat \ {0}
ASSUME FaultAssumption == MaxFaults \in Nat

\* f"comment-{id}{attempt}": attempt 0 is the empty suffix ingest uses, attempt
\* t is f"-retry-{t}".
Job == [comment : Comments, attempt : 0..MaxClock]

ASSUME NoJobAssumption == NoJob \notin Job

VARIABLES comment,    \* comments.status, "absent" before the row exists
          drafts,     \* how many reply_drafts rows the comment has
          runs,       \* kinds of agent_runs rows that exist for the comment
          dlq,        \* how many failed_jobs rows each job has written
          pc,         \* where a worker is in process_comment
          job,        \* the job a worker runs
          exit,       \* how the attempt ended, as arq sees it
          seen,       \* comment.status as _record_failure loaded it
          req,        \* API requests in flight
          now,        \* int(time.time())
          faults      \* faults so far
VARIABLES queue, inProgress, results, tries   \* see ArqQueue

INSTANCE ArqQueue WITH JobId <- Job

dbVars     == <<comment, drafts, runs, dlq>>
workerVars == <<pc, job, exit, seen>>
arqVars    == <<queue, inProgress, results, tries>>
vars == <<dbVars, workerVars, req, now, faults, arqVars>>

Completed == {"drafted", "replied"}
Status    == {"absent", "new", "failed"} \cup Completed
RunKind   == {"triage", "response"} \X {"ok", "error"}

\* The attempt holds the comment's row lock: from the Ingest node to the commit
\* or the rollback of session_scope.  (The variant writes the dead letter before
\* the rollback.)
RecordBeforeRollback == {"triage", "respond", "persist", "close", "handling", "recording"}
InTransaction == {"triage", "respond", "persist", "close"}
\* The attempt is inside the try block of process_comment.
Running == InTransaction \cup {"ingest", "committed"}
Stage   == Running \cup {"idle", "handling", "recording", "raised"}

Subject(w) == job[w].comment

\* SELECT ... FOR UPDATE OF comment and an UPDATE wait for whoever has
\* the row.
NoRowLock(c) == TRUE
RowLockFree(c) ==
    \A w \in Workers : ~ (pc[w] \in InTransaction /\ Subject(w) = c)

IdleRequest == [op |-> "idle", todo |-> {}, attempt |-> 0, row |-> NoJob]
Request == [op : {"idle", "ingest", "requeue", "retry"}, todo : SUBSET Comments,
            attempt : 0..MaxClock, row : Job \cup {NoJob}]

TypeOK ==
    /\ comment \in [Comments -> Status]
    /\ drafts \in [Comments -> Nat]
    /\ runs \in [Comments -> SUBSET RunKind]
    /\ dlq \in [Job -> Nat]
    /\ pc \in [Workers -> Stage]
    /\ job \in [Workers -> Job \cup {NoJob}]
    /\ exit \in [Workers -> {"ok", "error", "rerun"}]
    /\ seen \in [Workers -> Status]
    /\ req \in [Requests -> Request]
    /\ now \in 1..MaxClock
    /\ faults \in 0..MaxFaults
    /\ QueueTypeOK

Init ==
    /\ comment = [c \in Comments |-> "absent"]
    /\ drafts = [c \in Comments |-> 0]
    /\ runs = [c \in Comments |-> {}]
    /\ dlq = [j \in Job |-> 0]
    /\ pc = [w \in Workers |-> "idle"]
    /\ job = [w \in Workers |-> NoJob]
    /\ exit = [w \in Workers |-> "ok"]
    /\ seen = [w \in Workers |-> "absent"]
    /\ req = [r \in Requests |-> IdleRequest]
    /\ now = 1
    /\ faults = 0
    /\ QueueInit

-----------------------------------------------------------------------------
(* The API.  A request is several awaits long and can die between any two;  *)
(* two requests, and the workers, interleave at every one of them.          *)

IdleSlot(r) == req[r] = IdleRequest

\* INSERT ... ON CONFLICT DO NOTHING RETURNING id: the rows that were not there.
Inserted(rows) == {c \in rows : comment[c] = "absent"}

\* A variant that enqueues without having committed.
IngestWithoutCommit(r) ==
    /\ IdleSlot(r)
    /\ \E rows \in SUBSET Comments :
         req' = [req EXCEPT ![r] = [op |-> "ingest", todo |-> Inserted(rows),
                                    attempt |-> 0, row |-> NoJob]]
    /\ UNCHANGED <<dbVars, workerVars, now, faults, arqVars>>

\* POST /ingest/comments: the insert is committed before any job is enqueued.
IngestComments(r) ==
    /\ IdleSlot(r)
    /\ \E rows \in SUBSET Comments :
         /\ Inserted(rows) # {}
         /\ comment' = [c \in Comments |->
                          IF c \in Inserted(rows) THEN "new" ELSE comment[c]]
         /\ req' = [req EXCEPT ![r] = [op |-> "ingest", todo |-> Inserted(rows),
                                       attempt |-> 0, row |-> NoJob]]
    /\ UNCHANGED <<drafts, runs, dlq, workerVars, now, faults, arqVars>>

\* f"-retry-{int(time.time())}", and the suffix it replaced: none.
NoSuffix == 0
AttemptSuffix == now

\* POST /queue/requeue: select the comments still at "new".
RequeueUnprocessed(r) ==
    /\ IdleSlot(r)
    /\ LET stuck == {c \in Comments : comment[c] = "new"}
       IN /\ stuck # {}
          /\ req' = [req EXCEPT ![r] = [op |-> "requeue", todo |-> stuck,
                                        attempt |-> AttemptSuffix, row |-> NoJob]]
    /\ UNCHANGED <<dbVars, workerVars, now, faults, arqVars>>

\* POST /failed_jobs/{id}/retry: load the row, then enqueue its comment.
RetryFailedJob(r, row) ==
    /\ IdleSlot(r)
    /\ dlq[row] > 0
    /\ req' = [req EXCEPT ![r] = [op |-> "retry", todo |-> {row.comment},
                                  attempt |-> AttemptSuffix, row |-> row]]
    /\ UNCHANGED <<dbVars, workerVars, now, faults, arqVars>>

\* enqueue_comments: one round trip to Redis per comment.  When the last one
\* is done, ingest and requeue answer; retry still has its row to delete.
EnqueueNext(r) ==
    /\ \E c \in req[r].todo :
         LET rest == req[r].todo \ {c}
         IN /\ EnqueueJob([comment |-> c, attempt |-> req[r].attempt])
            /\ req' = [req EXCEPT ![r] =
                         IF rest = {} /\ req[r].op # "retry"
                         THEN IdleRequest ELSE [req[r] EXCEPT !.todo = rest]]
    /\ UNCHANGED <<dbVars, workerVars, now, faults>>

\* The row goes whether or not arq took the key; a row another request already
\* deleted stays deleted.
DeleteFailedJob(row) ==
    dlq' = [dlq EXCEPT ![row] = IF @ > 0 THEN @ - 1 ELSE @]

DeleteRetriedRow(r) ==
    /\ req[r].op = "retry"
    /\ req[r].todo = {}
    /\ DeleteFailedJob(req[r].row)
    /\ req' = [req EXCEPT ![r] = IdleRequest]
    /\ UNCHANGED <<comment, drafts, runs, workerVars, now, faults, arqVars>>

\* POST /failed_jobs/{id}/discard
DiscardFailedJob(row) ==
    /\ dlq[row] > 0
    /\ DeleteFailedJob(row)
    /\ UNCHANGED <<comment, drafts, runs, workerVars, req, now, faults, arqVars>>

\* drain_outbox, of which this module sees what it does to comments: one commit
\* turns any number of drafted comments to "replied", waiting for each row lock.
PublishReplies ==
    /\ \E C \in (SUBSET {c \in Comments : drafts[c] > 0}) \ {{}} :
         /\ \A c \in C : RowLockFree(c)
         /\ comment' = [c \in Comments |-> IF c \in C THEN "replied" ELSE comment[c]]
    /\ UNCHANGED <<drafts, runs, dlq, workerVars, req, now, faults, arqVars>>

Fault == faults < MaxFaults /\ faults' = faults + 1

\* The API process dies, or Redis refuses the connection: the rest of the
\* request does not happen.
AbortRequest(r) ==
    /\ ~IdleSlot(r)
    /\ req' = [req EXCEPT ![r] = IdleRequest]
    /\ Fault
    /\ UNCHANGED <<dbVars, workerVars, now, arqVars>>

\* A second that no attempt suffix names makes no difference, so none passes.
Tick ==
    /\ now < MaxClock
    /\ \E j \in queue \cup results : j.attempt = now
    /\ now' = now + 1
    /\ UNCHANGED <<dbVars, workerVars, req, faults, arqVars>>

-----------------------------------------------------------------------------
(* The worker.                                                             *)

\* COMPLETED_STATUSES, the guard of the Ingest node.
OnlyDrafted(c) == comment[c] = "drafted"
AlreadyProcessed(c) == comment[c] \in Completed

\* attempt >= MAX_TRIES
EveryAttempt(j) == TRUE
LastAttempt(j) == tries[j] >= MaxTries

\* UNIQUE (comment_id) on reply_drafts.
NoUniqueDraft(c) == TRUE
DraftAllowed(c) == drafts[c] = 0

Goto(w, stage) == pc' = [pc EXCEPT ![w] = stage]

\* arq starts the function.
PickJob(w) ==
    /\ pc[w] = "idle"
    /\ \E j \in Job :
         /\ StartJob(j)
         /\ job' = [job EXCEPT ![w] = j]
    /\ Goto(w, "ingest")
    /\ exit' = [exit EXCEPT ![w] = "ok"]
    /\ UNCHANGED <<dbVars, seen, req, now, faults>>

\* arq gives the job up: job_try would exceed max_tries.
ExhaustJob(w) ==
    /\ pc[w] = "idle"
    /\ \E j \in Job : AbandonJob(j)
    /\ UNCHANGED <<dbVars, workerVars, req, now, faults>>

\* The Ingest node.  A comment already processed ends the graph; the commit
\* that follows writes nothing.
Ingest(w) ==
    /\ pc[w] = "ingest"
    /\ RowLockFree(Subject(w))
    /\ Goto(w, IF AlreadyProcessed(Subject(w)) THEN "committed" ELSE "triage")
    /\ UNCHANGED <<dbVars, job, exit, seen, req, now, faults, arqVars>>

\* The Triage node: the model's needs_reply is the branch.  Its ok row and the
\* status "triaged" are in the open transaction.
Triage(w) ==
    /\ pc[w] = "triage"
    /\ \E needsReply \in BOOLEAN : Goto(w, IF needsReply THEN "respond" ELSE "close")
    /\ UNCHANGED <<dbVars, job, exit, seen, req, now, faults, arqVars>>

\* The Respond node.
Respond(w) ==
    /\ pc[w] = "respond"
    /\ Goto(w, "persist")
    /\ UNCHANGED <<dbVars, job, exit, seen, req, now, faults, arqVars>>

\* The agents whose ok rows an answered comment commits, and a variant that
\* leaves the second one on a session nobody commits.
FirstAgentOnly == {<<"triage", "ok">>}
ReplyRuns == {<<"triage", "ok">>, <<"response", "ok">>}

\* The Persist node with a reply, and the commit of the attempt's session:
\* status, draft and agent_runs rows at once.
PersistDraft(w) ==
    LET c == Subject(w)
    IN /\ pc[w] = "persist"
       /\ DraftAllowed(c)
       /\ comment' = [comment EXCEPT ![c] = "drafted"]
       /\ drafts' = [drafts EXCEPT ![c] = @ + 1]
       /\ runs' = [runs EXCEPT ![c] = @ \cup ReplyRuns]
       /\ Goto(w, "committed")
       /\ UNCHANGED <<dlq, job, exit, seen, req, now, faults, arqVars>>

\* The Persist node without one, and the commit.
PersistReplied(w) ==
    LET c == Subject(w)
    IN /\ pc[w] = "close"
       /\ comment' = [comment EXCEPT ![c] = "replied"]
       /\ runs' = [runs EXCEPT ![c] = @ \cup {<<"triage", "ok">>}]
       /\ Goto(w, "committed")
       /\ UNCHANGED <<drafts, dlq, job, exit, seen, req, now, faults, arqVars>>

\* The INSERT meets the unique constraint: an exception like any other, that
\* needs no fault to happen.
PersistConflict(w) ==
    /\ pc[w] = "persist"
    /\ ~DraftAllowed(Subject(w))
    /\ exit' = [exit EXCEPT ![w] = "error"]
    /\ Goto(w, "handling")
    /\ UNCHANGED <<dbVars, job, seen, req, now, faults, arqVars>>

\* What _record_failed_run may leave behind, on a session of its own: the row of
\* the agent that was running, or nothing if that write fails too.
FailureRows(w) ==
    {{}} \cup (IF pc[w] = "triage" THEN {{<<"triage", "error">>}} ELSE {})
         \cup (IF pc[w] = "respond" THEN {{<<"response", "error">>}} ELSE {})

\* Anything raised inside the session scope, up to and including its commit:
\* the transaction is rolled back.  "rerun" is a clean CancelledError, "error"
\* every other exception and the hard TimeoutError of job_timeout.
FailAttempt(w) ==
    /\ pc[w] \in Running
    /\ Fault
    /\ \E rows \in FailureRows(w), e \in {"error", "rerun"} :
         /\ runs' = [runs EXCEPT ![Subject(w)] = @ \cup rows]
         /\ exit' = [exit EXCEPT ![w] = e]
    /\ Goto(w, "handling")
    /\ UNCHANGED <<comment, drafts, dlq, job, seen, req, now, arqVars>>

\* _handle_failure: only the last attempt is dead-lettered.  _record_failure
\* loads the comment first, without a lock.
HandleFailure(w) ==
    /\ pc[w] = "handling"
    /\ IF LastAttempt(job[w])
       THEN /\ seen' = [seen EXCEPT ![w] = comment[Subject(w)]]
            /\ Goto(w, "recording")
       ELSE /\ Goto(w, "raised")
            /\ UNCHANGED seen
    /\ UNCHANGED <<dbVars, job, exit, req, now, faults, arqVars>>

\* The status _record_failure writes; variants that forget it or misspell it.
StatusNotMarked(c) == comment[c]
UnknownStatus(c) == "error"
DeadLetteredStatus(c) == "failed"

\* The commit of _record_failure: the failed_jobs row, and the comment's status
\* unless the loaded one was "failed" already (an unchanged column is not
\* written).  The UPDATE waits for the row lock.
RecordFailure(w) ==
    LET c == Subject(w)
    IN /\ pc[w] = "recording"
       /\ \/ /\ seen[w] = "failed"
             /\ UNCHANGED comment
          \/ /\ seen[w] # "failed"
             /\ RowLockFree(c)
             /\ comment' = [comment EXCEPT ![c] = DeadLetteredStatus(c)]
       /\ dlq' = [dlq EXCEPT ![job[w]] = @ + 1]
       /\ Goto(w, "raised")
       /\ UNCHANGED <<drafts, runs, job, exit, seen, req, now, faults, arqVars>>

\* _record_failure raises, or is cancelled, before its commit.
RecordFailureFails(w) ==
    /\ pc[w] = "recording"
    /\ Fault
    /\ \E e \in {"error", "rerun"} : exit' = [exit EXCEPT ![w] = e]
    /\ Goto(w, "raised")
    /\ UNCHANGED <<dbVars, job, seen, req, now, arqVars>>

\* Control is back in arq.
LeaveJob(w) ==
    /\ pc[w] \in {"committed", "raised"}
    /\ IF exit[w] = "rerun" THEN RerunJob(job[w]) ELSE FinishJob(job[w])
    /\ Goto(w, "idle")
    /\ job' = [job EXCEPT ![w] = NoJob]
    /\ UNCHANGED <<dbVars, exit, seen, req, now, faults>>

\* SIGKILL, node loss: the database aborts the transaction, the in-progress key
\* stays until it expires.
CrashWorker(w) ==
    /\ pc[w] # "idle"
    /\ Fault
    /\ Goto(w, "idle")
    /\ job' = [job EXCEPT ![w] = NoJob]
    /\ UNCHANGED <<dbVars, exit, seen, req, now, arqVars>>

ExpireInProgress(j) ==
    /\ j \in inProgress
    /\ \A w \in Workers : job[w] # j
    /\ RerunJob(j)
    /\ UNCHANGED <<dbVars, workerVars, req, now, faults>>

-----------------------------------------------------------------------------
WorkerStep(w) ==
    \/ PickJob(w) \/ ExhaustJob(w)
    \/ Ingest(w) \/ Triage(w) \/ Respond(w)
    \/ PersistDraft(w) \/ PersistReplied(w) \/ PersistConflict(w)
    \/ HandleFailure(w) \/ RecordFailure(w) \/ LeaveJob(w)

WorkerFault(w) == FailAttempt(w) \/ RecordFailureFails(w) \/ CrashWorker(w)

RequestStep(r) == EnqueueNext(r) \/ DeleteRetriedRow(r)

Operator(r) ==
    \/ IngestComments(r) \/ RequeueUnprocessed(r)
    \/ \E row \in Job : RetryFailedJob(r, row)

\* Everything but publication, which belongs to ReplyOutbox.
PipelineNext ==
    \/ \E w \in Workers : WorkerStep(w) \/ WorkerFault(w)
    \/ \E r \in Requests : RequestStep(r) \/ Operator(r) \/ AbortRequest(r)
    \/ \E j \in Job : ExpireInProgress(j)
    \/ \E row \in Job : DiscardFailedJob(row)
    \/ Tick

Next == PipelineNext \/ PublishReplies

Spec == Init /\ [][Next]_vars

-----------------------------------------------------------------------------
(* Safety.                                                                 *)

\* Two attempts at one comment (two job keys, or a job run again) are never
\* inside its transaction together: the row lock of the Ingest node serialises
\* them from the guard to the commit.
OneAttemptInside ==
    \A v, w \in Workers :
        v # w /\ pc[v] \in InTransaction /\ pc[w] \in InTransaction
          => Subject(v) # Subject(w)

\* No agent is called for a comment whose committed status says the pipeline
\* finished, whatever else ran since the guard read that status.
NoChargeWhenCompleted ==
    \A w \in Workers :
        pc[w] \in {"triage", "respond"} => comment[Subject(w)] \notin Completed

\* A reviewer never sees two drafts for one comment, however many jobs, retries
\* and redeliveries the comment had.
AtMostOneDraft == \A c \in Comments : drafts[c] <= 1

\* What an attempt writes is seen all at once or not at all: a comment at
\* "drafted" has its draft, and the audit rows of the agents that finished it;
\* so does one at "replied".
NoHalfWrittenAttempt ==
    \A c \in Comments :
        /\ comment[c] = "drafted" => drafts[c] > 0
        /\ drafts[c] > 0 => {<<"triage", "ok">>, <<"response", "ok">>} \subseteq runs[c]
        /\ comment[c] \in Completed => <<"triage", "ok">> \in runs[c]

\* A job is dead-lettered at most once, however often it is redelivered.
OneDeadLetterPerJob == \A j \in Job : dlq[j] <= 1

\* A comment with a dead letter does not read "new", the status of one the
\* pipeline has not reached yet.
DeadLetteredIsNotNew ==
    \A j \in Job : dlq[j] > 0 => comment[j.comment] \notin {"absent", "new"}

\* A worker never meets a job whose comment is not committed yet.
JobsHaveTheirComment ==
    \A j \in queue \cup results : comment[j.comment] # "absent"

\* What the Inbox sees is a CommentLifecycle: no interleaving of attempts,
\* failures, crashes and operators moves a comment or a draft in another way.
Lifecycle == INSTANCE CommentLifecycle
ImplementsLifecycle == Lifecycle!Spec

-----------------------------------------------------------------------------
(* Claims of comments and docs that the code does not keep.                *)

\* "Raises on failure so arq retries": a job arq has finished with has moved its
\* comment on, to a result or to the dead-letter queue.
FinishedJobLeavesTrace == \A j \in results : comment[j.comment] # "new"

\* The Ingest guard: a comment that has its draft is not triaged again.
DraftedIsNotTriagedAgain ==
    \A w \in Workers : pc[w] = "triage" => drafts[Subject(w)] = 0

-----------------------------------------------------------------------------
(* Liveness.                                                               *)

\* arq polls, and every await of a job or a request answers or raises: job_timeout
\* and the HTTP client's time limits see to it.  The row lock can be taken from a
\* waiter again and again, so the step that takes it is strongly fair.  Someone
\* presses requeue as long as comments are stuck; nobody has to press anything
\* else, and faults are never owed.
Fairness ==
    /\ \A w \in Workers : WF_vars(WorkerStep(w)) /\ SF_vars(Ingest(w))
    /\ \A w \in Workers : SF_vars(RecordFailure(w))
    /\ \A r \in Requests : WF_vars(RequestStep(r)) /\ SF_vars(RequeueUnprocessed(r))
    /\ \A j \in Job : WF_vars(ExpireInProgress(j))
    /\ WF_vars(Tick)

FairSpec == Spec /\ Fairness

\* Every comment ingest accepted is eventually answered or reported as failed,
\* even when its job died without a trace.
NewIsEventuallySettled ==
    \A c \in Comments : comment[c] = "new" ~> comment[c] \in Completed \cup {"failed"}

\* Every job that was queued eventually leaves the queue: no fault, lock or
\* redelivery can keep it there.
QueueDrains == \A j \in Job : j \in queue ~> j \notin queue
=============================================================================
