--------------------------- MODULE AssetPipeline ---------------------------
(***************************************************************************)
(* A photo's way from POST /assets to its captions: the upload (put,       *)
(* commit, enqueue), the workers that run the asset graph (ingest, media,  *)
(* content, persist), the delete (commit, then the bytes), dead letters,   *)
(* requeue and retry.  Three stores change one after the other: the object *)
(* store, the database and the job queue.                                  *)
(*                                                                         *)
(* Unlike the comment graph's, this one's guard takes no row lock.  The    *)
(* attempt's UPDATE of the asset is flushed after the content agent and    *)
(* committed right after; a DELETE or another UPDATE that waits for it in  *)
(* between behaves as if it came after the commit, so Persist is one step. *)
(***************************************************************************)
EXTENDS Naturals, FiniteSets

CONSTANTS Assets,     \* uploads; each has one row id and one storage key
          Workers,    \* worker processes, one job each
          Requests,   \* API requests that can be in flight at once
          MaxTries,   \* MAX_TRIES
          MaxClock,   \* bound: seconds that can appear in an attempt suffix
          MaxFaults,  \* bound: exceptions, cancellations, crashes, I/O errors
          NoJob       \* no job

ASSUME AssetTriesAssumption == MaxTries \in Nat \ {0}
ASSUME AssetClockAssumption == MaxClock \in Nat \ {0}
ASSUME AssetFaultAssumption == MaxFaults \in Nat
ASSUME AssetWorkersAssumption == IsFiniteSet(Workers)

\* f"asset-{id}{attempt}": attempt 0 is the upload's empty suffix.
Job == [asset : Assets, attempt : 0..MaxClock]

ASSUME AssetNoJobAssumption == NoJob \notin Job

VARIABLES row,        \* the assets row: analysis_json NULL is "waiting"
          captions,   \* how many sets of three content_drafts the asset has
          sound,      \* uploads whose bytes downscale can decode
          runs,       \* the agents that have an ok agent_runs row for the asset
          dlq,        \* how many failed_jobs rows each job has written
          pc,         \* where a worker is in process_asset
          job,        \* the job a worker runs
          exit,       \* how the attempt ended, as arq sees it
          req,        \* API requests in flight
          now,        \* int(time.time())
          faults      \* faults so far
VARIABLES objects, parts                      \* see ObjectStore
VARIABLES queue, inProgress, results, tries   \* see ArqQueue

INSTANCE ArqQueue WITH JobId <- Job
INSTANCE ObjectStore WITH Key <- Assets

dbVars     == <<row, captions, runs, dlq>>
storeVars  == <<objects, parts, sound>>
workerVars == <<pc, job, exit>>
arqVars    == <<queue, inProgress, results, tries>>
vars == <<dbVars, storeVars, workerVars, req, now, faults, arqVars>>

Card    == {"absent", "waiting", "analysed", "deleted"}
Live    == {"waiting", "analysed"}
Agents  == {"media", "content"}

\* The attempt has read analysis_json as NULL and has not committed.
PastGuard == {"load", "media", "content", "persist"}
Running   == PastGuard \cup {"ingest", "committed"}
Stage     == Running \cup {"idle", "handling", "raised"}

Subject(w) == job[w].asset

IdleRequest == [op |-> "idle", todo |-> {}, attempt |-> 0, row |-> NoJob]
Request == [op : {"idle", "put", "insert", "enqueue", "retry", "erase"},
            todo : SUBSET Assets, attempt : 0..MaxClock, row : Job \cup {NoJob}]

TypeOK ==
    /\ row \in [Assets -> Card]
    /\ captions \in [Assets -> Nat]
    /\ sound \subseteq Assets
    /\ runs \in [Assets -> SUBSET Agents]
    /\ dlq \in [Job -> Nat]
    /\ pc \in [Workers -> Stage]
    /\ job \in [Workers -> Job \cup {NoJob}]
    /\ exit \in [Workers -> {"ok", "error", "rerun"}]
    /\ req \in [Requests -> Request]
    /\ now \in 1..MaxClock
    /\ faults \in 0..MaxFaults
    /\ StoreTypeOK
    /\ QueueTypeOK

Init ==
    /\ row = [a \in Assets |-> "absent"]
    /\ captions = [a \in Assets |-> 0]
    /\ sound = {}
    /\ runs = [a \in Assets |-> {}]
    /\ dlq = [j \in Job |-> 0]
    /\ pc = [w \in Workers |-> "idle"]
    /\ job = [w \in Workers |-> NoJob]
    /\ exit = [w \in Workers |-> "ok"]
    /\ req = [r \in Requests |-> IdleRequest]
    /\ now = 1
    /\ faults = 0
    /\ StoreInit
    /\ QueueInit

-----------------------------------------------------------------------------
(* The API.                                                                *)

IdleSlot(r) == req[r] = IdleRequest

\* The request goes on with op, for the assets in todo.
Continue(r, op, todo) ==
    req' = [req EXCEPT ![r] = [op |-> op, todo |-> todo, attempt |-> 0, row |-> NoJob]]

\* POST /assets, after its checks: a row and a key nobody has used.  Whether the
\* bytes decode is not looked at.
NewUpload(r, a) ==
    /\ IdleSlot(r)
    /\ row[a] = "absent" /\ FreshKey(a)
    /\ \E decodes \in BOOLEAN : sound' = IF decodes THEN sound \cup {a} ELSE sound
    /\ UNCHANGED <<dbVars, workerVars, now, faults, arqVars>>

\* The two backends.  STORAGE_BACKEND picks one for all; no key is shared, so
\* here every upload may pick its own.
UploadAsset(r, a) == NewUpload(r, a) /\ BeginPut(a) /\ Continue(r, "put", {a})
UploadToS3(r, a) == NewUpload(r, a) /\ PutObject(a) /\ Continue(r, "insert", {a})

FinishUpload(r) ==
    /\ req[r].op = "put"
    /\ \E a \in req[r].todo : FinishPut(a)
    /\ Continue(r, "insert", req[r].todo)
    /\ UNCHANGED <<dbVars, sound, workerVars, now, faults, arqVars>>

\* analysis_json of a new row: NULL.  The variant is the JSON value null, which
\* IS NULL does not match.
JsonNull == "null"
NotAnalysed == "waiting"

\* The row is committed before its job is enqueued.
InsertAsset(r) ==
    /\ req[r].op = "insert"
    /\ row' = [a \in Assets |-> IF a \in req[r].todo THEN NotAnalysed ELSE row[a]]
    /\ Continue(r, "enqueue", req[r].todo)
    /\ UNCHANGED <<captions, runs, dlq, storeVars, workerVars, now, faults, arqVars>>

\* f"-retry-{int(time.time())}", and the suffix it replaced: none.
NoSuffix == 0
AttemptSuffix == now

\* POST /queue/requeue: select the assets still without an analysis.
RequeueUnprocessed(r) ==
    /\ IdleSlot(r)
    /\ LET stuck == {a \in Assets : row[a] = "waiting"}
       IN /\ stuck # {}
          /\ req' = [req EXCEPT ![r] = [op |-> "enqueue", todo |-> stuck,
                                        attempt |-> AttemptSuffix, row |-> NoJob]]
    /\ UNCHANGED <<dbVars, storeVars, workerVars, now, faults, arqVars>>

\* POST /failed_jobs/{id}/retry, whose row may be about an asset deleted since.
RetryFailedJob(r, letter) ==
    /\ IdleSlot(r)
    /\ dlq[letter] > 0
    /\ req' = [req EXCEPT ![r] = [op |-> "retry", todo |-> {letter.asset},
                                  attempt |-> AttemptSuffix, row |-> letter]]
    /\ UNCHANGED <<dbVars, storeVars, workerVars, now, faults, arqVars>>

\* enqueue_asset.  After the last one upload and requeue answer.
EnqueueNext(r) ==
    /\ req[r].op \in {"enqueue", "retry"}
    /\ \E a \in req[r].todo :
         LET rest == req[r].todo \ {a}
         IN /\ EnqueueJob([asset |-> a, attempt |-> req[r].attempt])
            /\ req' = [req EXCEPT ![r] =
                         IF rest = {} /\ req[r].op = "enqueue"
                         THEN IdleRequest ELSE [req[r] EXCEPT !.todo = rest]]
    /\ UNCHANGED <<dbVars, storeVars, workerVars, now, faults>>

DeleteFailedJob(letter) ==
    dlq' = [dlq EXCEPT ![letter] = IF @ > 0 THEN @ - 1 ELSE @]

DeleteRetriedRow(r) ==
    /\ req[r].op = "retry" /\ req[r].todo = {}
    /\ DeleteFailedJob(req[r].row)
    /\ req' = [req EXCEPT ![r] = IdleRequest]
    /\ UNCHANGED <<row, captions, runs, storeVars, workerVars, now, faults, arqVars>>

\* POST /failed_jobs/{id}/discard
DiscardFailedJob(letter) ==
    /\ dlq[letter] > 0
    /\ DeleteFailedJob(letter)
    /\ UNCHANGED <<row, captions, runs, storeVars, workerVars, req, now, faults, arqVars>>

\* A variant that takes the bytes first.
DeleteBytesFirst(r, a) ==
    /\ IdleSlot(r)
    /\ row[a] \in Live
    /\ RemoveObject(a)
    /\ UNCHANGED <<dbVars, sound, workerVars, req, now, faults, arqVars>>

\* A variant without ON DELETE CASCADE.
KeepCaptions(a) == captions[a]
CascadedCaptions(a) == 0

\* DELETE /assets/{id}: the row and, by the cascade, its captions; the bytes are
\* next.  The agent_runs rows stay.
DeleteAsset(r, a) ==
    /\ IdleSlot(r)
    /\ row[a] \in Live
    /\ row' = [row EXCEPT ![a] = "deleted"]
    /\ captions' = [captions EXCEPT ![a] = CascadedCaptions(a)]
    /\ Continue(r, "erase", {a})
    /\ UNCHANGED <<runs, dlq, storeVars, workerVars, now, faults, arqVars>>

\* A variant that answers without removing the bytes.
AnswerOnly(r) ==
    /\ req[r].op = "erase"
    /\ req' = [req EXCEPT ![r] = IdleRequest]
    /\ UNCHANGED <<dbVars, storeVars, workerVars, now, faults, arqVars>>

EraseObject(r) ==
    /\ req[r].op = "erase"
    /\ \E a \in req[r].todo : RemoveObject(a)
    /\ req' = [req EXCEPT ![r] = IdleRequest]
    /\ UNCHANGED <<dbVars, sound, workerVars, now, faults, arqVars>>

Fault == faults < MaxFaults /\ faults' = faults + 1

\* The API process dies, or a call raises: a StorageError of the erasure is
\* logged and swallowed, anything else is a 500.  The rest does not happen.
AbortRequest(r) ==
    /\ ~IdleSlot(r)
    /\ req' = [req EXCEPT ![r] = IdleRequest]
    /\ Fault
    /\ UNCHANGED <<dbVars, storeVars, workerVars, now, arqVars>>

\* A second that no attempt suffix names makes no difference, so none passes.
Tick ==
    /\ now < MaxClock
    /\ \E j \in queue \cup results : j.attempt = now
    /\ now' = now + 1
    /\ UNCHANGED <<dbVars, storeVars, workerVars, req, faults, arqVars>>

-----------------------------------------------------------------------------
(* The worker.                                                             *)

Goto(w, stage) == pc' = [pc EXCEPT ![w] = stage]

Raise(w, e) ==
    /\ exit' = [exit EXCEPT ![w] = e]
    /\ Goto(w, "handling")

PickJob(w) ==
    /\ pc[w] = "idle"
    /\ \E j \in Job :
         /\ StartJob(j)
         /\ job' = [job EXCEPT ![w] = j]
    /\ Goto(w, "ingest")
    /\ UNCHANGED <<dbVars, storeVars, exit, req, now, faults>>

ExhaustJob(w) ==
    /\ pc[w] = "idle"
    /\ \E j \in Job : AbandonJob(j)
    /\ UNCHANGED <<dbVars, storeVars, workerVars, req, now, faults>>

\* The guard of IngestAsset, and a graph without one.
NeverProcessed(a) == FALSE
AlreadyProcessed(a) == row[a] = "analysed"

\* IngestAsset: the SELECT.  An asset deleted meanwhile is a LookupError.
IngestAsset(w) ==
    LET a == Subject(w)
    IN /\ pc[w] = "ingest"
       /\ \/ /\ row[a] \in Live
             /\ Goto(w, IF AlreadyProcessed(a) THEN "committed" ELSE "load")
             /\ UNCHANGED exit
          \/ /\ row[a] \notin Live
             /\ Raise(w, "error")
       /\ UNCHANGED <<dbVars, storeVars, job, req, now, faults, arqVars>>

\* IngestAsset, its second half: the bytes, then downscale.  A StorageError and
\* an ImageError are ordinary exceptions.
LoadImage(w) ==
    LET a == Subject(w)
    IN /\ pc[w] = "load"
       /\ \/ /\ Readable(a) /\ a \in sound
             /\ Goto(w, "media")
             /\ UNCHANGED exit
          \/ /\ ~(Readable(a) /\ a \in sound)
             /\ Raise(w, "error")
       /\ UNCHANGED <<dbVars, storeVars, job, req, now, faults, arqVars>>

\* The agents' nodes: nothing is committed.
Media(w) ==
    /\ pc[w] = "media"
    /\ Goto(w, "content")
    /\ UNCHANGED <<dbVars, storeVars, job, exit, req, now, faults, arqVars>>

Content(w) ==
    /\ pc[w] = "content"
    /\ Goto(w, "persist")
    /\ UNCHANGED <<dbVars, storeVars, job, exit, req, now, faults, arqVars>>

\* The UPDATE and the foreign key both need the row; a variant that merges it
\* back in.
AnyRow(a) == TRUE
RowIsThere(a) == row[a] \in Live

\* The agents whose ok rows the attempt's session commits.
GraphRuns == {"media", "content"}

\* PersistContent and the commit: analysis, captions and audit rows at once.
PersistContent(w) ==
    LET a == Subject(w)
    IN /\ pc[w] = "persist"
       /\ RowIsThere(a)
       /\ row' = [row EXCEPT ![a] = "analysed"]
       /\ captions' = [captions EXCEPT ![a] = @ + 1]
       /\ runs' = [runs EXCEPT ![a] = @ \cup GraphRuns]
       /\ Goto(w, "committed")
       /\ UNCHANGED <<dlq, storeVars, job, exit, req, now, faults, arqVars>>

\* The row went while the agents ran: StaleDataError or a foreign key violation.
PersistGone(w) ==
    /\ pc[w] = "persist"
    /\ ~RowIsThere(Subject(w))
    /\ Raise(w, "error")
    /\ UNCHANGED <<dbVars, storeVars, job, req, now, faults, arqVars>>

\* Anything raised inside the session scope: rolled back, the ok rows of agents
\* that had answered included.  (The error row of the agent that raised is on a
\* session of its own; nothing here reads it.)
FailAttempt(w) ==
    /\ pc[w] \in Running
    /\ Fault
    /\ \E e \in {"error", "rerun"} : Raise(w, e)
    /\ UNCHANGED <<dbVars, storeVars, job, req, now, arqVars>>

\* attempt >= MAX_TRIES
LastAttempt(j) == tries[j] >= MaxTries

\* _handle_failure, and on the last attempt the commit of _record_failure, which
\* has no asset status to set.
HandleFailure(w) ==
    /\ pc[w] = "handling"
    /\ IF LastAttempt(job[w])
       THEN dlq' = [dlq EXCEPT ![job[w]] = @ + 1]
       ELSE UNCHANGED dlq
    /\ Goto(w, "raised")
    /\ UNCHANGED <<row, captions, runs, storeVars, job, exit, req, now, faults, arqVars>>

\* _record_failure raises, or is cancelled, before its commit.
RecordFailureFails(w) ==
    /\ pc[w] = "handling" /\ LastAttempt(job[w])
    /\ Fault
    /\ \E e \in {"error", "rerun"} : exit' = [exit EXCEPT ![w] = e]
    /\ Goto(w, "raised")
    /\ UNCHANGED <<dbVars, storeVars, job, req, now, arqVars>>

\* The worker has no job.
Rest(w) ==
    /\ Goto(w, "idle")
    /\ job' = [job EXCEPT ![w] = NoJob]
    /\ exit' = [exit EXCEPT ![w] = "ok"]

LeaveJob(w) ==
    /\ pc[w] \in {"committed", "raised"}
    /\ IF exit[w] = "rerun" THEN RerunJob(job[w]) ELSE FinishJob(job[w])
    /\ Rest(w)
    /\ UNCHANGED <<dbVars, storeVars, req, now, faults>>

CrashWorker(w) ==
    /\ pc[w] # "idle"
    /\ Fault
    /\ Rest(w)
    /\ UNCHANGED <<dbVars, storeVars, req, now, arqVars>>

ExpireInProgress(j) ==
    /\ j \in inProgress
    /\ \A w \in Workers : job[w] # j
    /\ RerunJob(j)
    /\ UNCHANGED <<dbVars, storeVars, workerVars, req, now, faults>>

-----------------------------------------------------------------------------
WorkerStep(w) ==
    \/ PickJob(w) \/ ExhaustJob(w)
    \/ IngestAsset(w) \/ LoadImage(w) \/ Media(w) \/ Content(w)
    \/ PersistContent(w) \/ PersistGone(w)
    \/ HandleFailure(w) \/ LeaveJob(w)

WorkerFault(w) == FailAttempt(w) \/ RecordFailureFails(w) \/ CrashWorker(w)

RequestStep(r) ==
    \/ FinishUpload(r) \/ InsertAsset(r) \/ EnqueueNext(r)
    \/ DeleteRetriedRow(r) \/ EraseObject(r)

Operator(r) ==
    \/ RequeueUnprocessed(r)
    \/ \E a \in Assets : UploadAsset(r, a) \/ UploadToS3(r, a) \/ DeleteAsset(r, a)
    \/ \E letter \in Job : RetryFailedJob(r, letter)

Next ==
    \/ \E w \in Workers : WorkerStep(w) \/ WorkerFault(w)
    \/ \E r \in Requests : RequestStep(r) \/ Operator(r) \/ AbortRequest(r)
    \/ \E j \in Job : ExpireInProgress(j) \/ DiscardFailedJob(j)
    \/ Tick

Spec == Init /\ [][Next]_vars

-----------------------------------------------------------------------------
(* Safety.                                                                 *)

\* A card never points at a file that is gone: whatever uploads and deletes
\* overlap or die halfway, a row's object is there as long as the row.
RowHasObject == \A a \in Assets : row[a] \in Live => a \in objects

\* Bytes without a row, which nothing will ever list or delete, are left only
\* by a fault: with none so far, a request still has them in hand.
OrphansAreFaults ==
    \A a \in Assets :
        a \in objects \cup parts /\ row[a] \notin Live /\ faults = 0
          => \E r \in Requests : req[r].op \in {"put", "insert", "erase"} /\ a \in req[r].todo

Inside(a) == {w \in Workers : pc[w] \in PastGuard /\ Subject(w) = a}

\* The guard takes no lock, so attempts that overlap may each write a set of
\* captions; but no sequence of retries, requeues and redeliveries makes more
\* sets than there are workers, and with one worker there is one set.
CaptionsBoundedByWorkers ==
    \A a \in Assets :
        captions[a] > 0 => captions[a] + Cardinality(Inside(a)) <= Cardinality(Workers)

\* The page shows captions exactly with their analysis, both agents are on
\* record for them, and the record outlives a delete, which takes all captions
\* with it, those of an attempt that was under way included.
CaptionsComeWithAnalysis ==
    \A a \in Assets :
        /\ row[a] = "analysed" <=> captions[a] > 0
        /\ captions[a] > 0 => runs[a] = Agents

\* What the Content page sees is an AssetLifecycle.
Lifecycle == INSTANCE AssetLifecycle
ImplementsLifecycle == Lifecycle!Spec

-----------------------------------------------------------------------------
(* Liveness.                                                               *)

\* As for comments: awaits answer or raise, dead workers' keys expire, and
\* someone presses requeue as long as a card is waiting.  Nobody has to delete,
\* retry or discard anything.
Fairness ==
    /\ \A w \in Workers : WF_vars(WorkerStep(w))
    /\ \A r \in Requests : WF_vars(RequestStep(r)) /\ SF_vars(RequeueUnprocessed(r))
    /\ \A j \in Job : WF_vars(ExpireInProgress(j))
    /\ WF_vars(Tick)

FairSpec == Spec /\ Fairness

\* "Analysing the photo" does not stay on the page for ever: a photo that can be
\* decoded gets its captions or is deleted, whatever was lost on the way.
WaitingIsEventuallySettled ==
    \A a \in Assets : row[a] = "waiting" /\ a \in sound ~> row[a] # "waiting"
=============================================================================
