# A TLA+ model of SocialOps

SocialOps takes dumps of social-media comments and uploaded photos, runs small
graphs of language-model agents over them, and puts drafts in front of a person
who approves them. This directory models the part of it where that is hard: an
API, a Redis queue, one or more workers and a Postgres database that talk over
calls which fail, repeat and overlap.

The source is cited as in `PROJECT.json`, relative to the repository
(`src/worker/worker/main.py` is the worker's `main.py`).

## 1. Inventory

| Component | State | Operations | What is hard |
|---|---|---|---|
| Comment pipeline: `api/app/routers/ingest.py`, `api/app/services/queue.py`, `worker/worker/main.py` (`process_comment`), `worker/worker/orchestrator.py` (`Ingest`, `Triage`, `Respond`, `Persist`) | `comments.status`, `reply_drafts`, `agent_runs`, arq's keys | ingest a batch, requeue, run one job | two jobs for one comment, redelivery, a rollback halfway, a crash between the commit and the enqueue |
| Dead-letter queue: `_handle_failure`, `_record_failure`, `routers/failed_jobs.py` | `failed_jobs`, `comments.status` | record, retry, discard | written on another session than the job's, deleted before the retry succeeds |
| Approval and outbox: `routers/reply_drafts.py`, `drain_outbox`, `_outbox_loop` | `reply_drafts.status`, `final_text`, `outbox` | approve, reject, undo, edit, bulk, drain | a human and a 30 s timer race; two drainers |
| Assets: `routers/assets.py`, `api/app/storage.py`, the asset graph | `assets`, `content_drafts`, the object store | upload, delete, serve, analyse, write three drafts | a put, a commit and an enqueue that are not one step; no row lock in the asset graph |
| Per-brand jobs: ideation, insight, analytics summary, `enqueue_due_summaries` | `content_ideas`, `brand_insights`, `analytics_summaries` | enqueue by click or by week, run once | two schedulers, a crash between the commit and the acknowledgement |
| Content drafts and ideas: `routers/content_drafts.py`, `routers/content_ideas.py` | their `status` | approve, reject | last writer wins |
| Audit trail, analytics, measurement: `_run_agent`, `routers/agent_runs.py`, `analytics_queries.py`, `scripts/measure.py` | `agent_runs` | record a run, read a page, read a range, watch the queue drain | several SELECTs for one answer, a failure whose record must survive a rollback, bucket edges |
| Agents and the model client: `worker/agents`, `llm.py`, `images.py` | none | call a model, validate its answer, retry, shrink a picture | what passes the validators, what ends an invocation |
| Web application: `web/src/components` | a page's rows, its generation counter, its intervals and handlers | poll, approve, reject, undo, generate | an answer that arrives after a newer request, a handler of an older render |
| Infrastructure: `infra`, `k8s`, migrations, seeds, evaluation, scripts | none at run time | deploy, load | fixes how many workers run |

How many workers run matters. `k8s` asks for one; `infra/stack/env/staging.tfvars`
asks for two, and a rolling deployment (`infra/modules/ecs/main.tf:286-287`)
overlaps old and new ones. `max_jobs = 1` gives each process one job at a time.
The models therefore have a set of workers, each with one slot.

### What makes each component correct

* **Comment pipeline.** No agent runs on a comment that is drafted or replied, and none
  gets two drafts, however many jobs, retries and redeliveries it gets; what an attempt writes is seen all at once or
  not at all; a job's comment exists; an accepted comment is answered or reported
  as failed in the end.
* **Dead letters.** One per job; a comment that has one does not read `new`; a job
  that ends in failure leaves something to act on.
* **Approval and outbox.** An approved draft has a row that will be sent; what is
  sent was approved, once, with the text on record.
* **Assets.** A row never outlives its object, and bytes outlive their row only by
  a fault; captions appear with their analysis; an asset without one can be requeued.
* **Per-brand jobs.** One summary for a brand and week unless something failed, none
  is forgotten, and the schedule takes no week that is not over.
* **Ingest.** Every row of a dump is inserted, skipped or rejected, once, and the
  answer and the Failed Jobs panel say which.
* **Audit trail and reports.** A failed invocation stays on record; the parts of an
  answer agree; a measurement covers all of its dump.
* **Pages.** A page never goes back to an older answer and catches up with the
  database.

## 2. Modules

| Module | What it is | Code |
|---|---|---|
| `CommentLifecycle` | what the Inbox is promised: statuses and drafts of comments, nothing else | `enums.py`, `Persist`, `_record_failure`, `drain_outbox` |
| `ArqQueue` | the Redis side of arq, from its uses and from what `main.py` says of it (external) | `services/queue.py`, `WorkerSettings` |
| `CommentPipeline` | API, workers, row lock, dead letters, recovery; INSTANCEs the two above | `ingest.py`, `failed_jobs.py`, `queue.py`, `main.py`, `orchestrator.py`, both `db.py` |
| `ReplyOutbox` | approvals and drains beside a pipeline of which only `CommentLifecycle` is seen | `reply_drafts.py`, `drain_outbox`, `_outbox_loop`, `inbox.tsx` |
| `SocialOps` | the two modules above over one database: each is the other's environment; EXTENDS `CommentPipeline`, INSTANCEs `ReplyOutbox` | `main.py` (`startup`, `drain_outbox`), `orchestrator.py` |
| `AssetLifecycle` | what the Content page is promised about a photo | `models/asset.py` and the actions that write it |
| `ObjectStore` | put, get and delete of uploaded bytes, on either backend | `api/app/storage.py` |
| `AssetPipeline` | upload, delete, requeue, the asset graph; INSTANCEs `ArqQueue` and `ObjectStore`, implements `AssetLifecycle` | `assets.py`, `failed_jobs.py`, `main.py`, `orchestrator.py`, `images.py` |
| `BrandLifecycle` | what a brand is promised about the runs it pays for | `analytics_queries.py`, `content_ideas.py`, `main.py` |
| `BrandJobs` | clicks, the weekly schedule, the three brand graphs; INSTANCEs `ArqQueue`, implements `BrandLifecycle` | `main.py`, `orchestrator.py`, `queue.py`, `failed_jobs.py`, `content_ideas.py` |
| `IngestBatch` | a dump row by row, beside other dumps; INSTANCEs `CommentPipeline`, whose ingest it implements | `ingest.py` |
| `ModelAnswers` | agents, their order, what a model's answer must be | `schemas.py`, `llm.py` |
| `Reports` | audit rows and their three readers; EXTENDS `ModelAnswers`, INSTANCEs `ArqQueue` | `orchestrator.py`, `llm.py`, `agent_runs.py`, `analytics_queries.py`, `measure.py` |
| `PagePolling` | loads, polls and handlers of one page | `web/src/components/*.tsx` |
| `CommentPipelineProofs`, `ReplyOutboxProofs`, `AssetPipelineProofs`, `BrandJobsProofs`, `IngestBatchProofs`, `ReportsProofs`, `PagePollingProofs`, `SocialOpsProofs` | theorems (section 4) | |
| `MC...` | TLC's instances: symmetry sets, rows, delays | |

`CommentPipeline` and `ReplyOutbox` meet in `CommentLifecycle`. Each implements it
with its other half reduced to the lifecycle's steps: `ReplyOutbox!PipelineStep`
is any pipeline step of the lifecycle, `CommentPipeline!PublishReplies` is any
`Publish` of it that gets the row locks. `SocialOps` puts the two halves in full
beside each other: a step is one of `CommentPipeline!PipelineNext`, where a draft
that appears is pending, or one of `ReplyOutbox` other than its `PipelineStep`,
where the commit of a drain waits for the row locks of the comments it flips
(`RowLocksFree`). That each half then does what its own module says, and nothing
else, is proved (section 4), so every theorem about one of them holds of the system.

### CommentPipeline

* **What is committed** is in `comment`, `drafts`, `runs`, `dlq`. Postgres is READ
  COMMITTED. An attempt writes in one transaction (`session_scope`), and its
  uncommitted writes are implied by its `pc`, so `PersistDraft` commits them and
  `FailAttempt` loses them.
* **The row lock** (`SELECT ... FOR UPDATE` in `Ingest`) is held by the attempts in
  `InTransaction`. `RowLockFree` is what a `FOR UPDATE` or an `UPDATE` waits for.
* **One action per step.** `PickJob`, `Ingest`, `Triage`, `Respond`, `PersistDraft`
  or `PersistReplied`, `LeaveJob` are the way of a job that works.
  `FailAttempt` is any exception, cancellation or timeout inside the session;
  `HandleFailure` and `RecordFailure` are `_handle_failure` and `_record_failure`,
  whose load (`seen`) and commit are two steps. `CrashWorker` is a worker that is
  gone, `ExpireInProgress` what arq makes of it.
* **A request** is its database step followed by one `EnqueueNext` for each comment;
  `AbortRequest` can end it in between. `RetryFailedJob` has its row deleted by
  `DeleteRetriedRow` afterwards.
* **Keys.** A job is a comment and an attempt suffix; `now` is the second in the
  suffix. `Tick` waits until the second has been used, as other seconds make no
  difference.
* **Abstracted:** the text of comments and replies, what a model answers beyond
  `needs_reply`, posts and accounts, rows a dump is rejected for (they go to the
  same table under another job type, and nothing here reads them), prices and
  tokens of `agent_runs`.

### ReplyOutbox

* A comment has one draft (`AtMostOneDraft`, proved), so a draft is named by its
  comment. `status`, `final` and `outbox` are what is committed.
* **A request** is a load and a commit with everybody else in between. SQLAlchemy
  writes only the columns that differ from what was loaded, so `patch` keeps the
  loaded values (`was`, `had`), and `CommitUpdate` leaves equal columns alone.
* **A drain** is `SelectUnsent`, one `LoadDraft` for each draft, and `CommitDrain`.
  `LoadDraft` loads the draft and its comment, two awaits of the code.
  A session loads a row once. Drains overlap: each worker process has its own
  timer and `drain_outbox` is registered as a job, too.
* A draft or an outbox row is flushed earlier than the commit in some
  interleavings, and the row's lock then delays others; these are among the
  behaviours where the whole write happens at the commit. Two sessions that lock
  rows in different orders may deadlock; Postgres ends one of them, which is
  `FailDrain` or `AbortUpdate`.
* **What people can ask for** is any status the API accepts, except that
  `published` is asked for by a button shown on a draft that was seen approved
  (`CanAsk`).
* **Abstracted:** `approved_by`, `approved_at`, timestamps, 404 and 422 answers.

### AssetPipeline

* **Three stores change one after the other.** `objects` and `parts` are the object
  store (a local put writes a temporary file and renames it, S3's is one step),
  `row`, `captions`, `runs` and `dlq` the database, the rest arq's. A request
  carries what it still has to do in `req`: put, insert, enqueue; or erase.
* **No row lock.** `IngestAsset` reads whether there is an analysis, and everybody
  else may come in between before `PersistContent` commits. Its UPDATE is flushed
  right before the commit, so the two are one step; `PersistGone` is the same step
  when the row was deleted.
* **Keys and seconds** are those of `CommentPipeline`. A picture that does not
  decode is never settled, so liveness asks for `sound` ones.
* **Abstracted:** the checks of size and type, the pixels, the three captions of a
  set (`Reports` has their platforms), brands.

### BrandJobs

* `day` counts weekdays and Sundays of each brand's calendar in turn:
  `last_completed_sunday` depends on nothing else. A period matters by the Sunday
  it ends on, if it ends on one; `ends` keeps that Sunday and whether the week was
  over when the figures were computed.
* `CheckBrand` and `EnqueueDue` are the SELECT and the enqueue of one turn of one
  worker's hourly loop, `ExpireResult` the hour after which arq forgets a key.
* `BrandLifecycle` has neither queue nor workers: days pass, people click, things fail,
  and a run is saved, at most once more than there were faults. A scheduled summary is
  that of its key's week, which is over; a run of a click has that click to itself.

### IngestBatch

* A request is one transaction. `INSERT ... ON CONFLICT DO NOTHING` waits for the
  transaction that has inserted the same key and is open (`Waits`), and continues
  when that one has committed (the key is not returned) or rolled back (it is
  inserted). Two dumps in opposite orders wait for each other; Postgres ends one of
  them, which is `FailRequest`.
* A row of a dump is its position. A request keeps sets of positions: `left` for the
  statements to come, `todo` for what the statement under way, or the loop that
  enqueues, has not reached, `mine` for what was inserted. The code's lists are those
  sets in the order of the dump (`First`), and `Chunk` is the next `ChunkRows` of `left`.
* `ImplementsPipeline` justifies the one-step batch of `CommentPipeline`: its
  `IngestComments` is this module's `CommitDump`, of exactly the keys that are not in
  the table at that moment, and what comes before a commit is a stutter. `EnqueueNext`
  is its `EnqueueNext`, and an answer cut short between two enqueues its
  `AbortRequest`, one of its faults. The refinement has no workers: they start from
  `jobs`, and a dump reads nothing they write.

### Reports

* Audit rows are counted. `Call` is one turn of the validate-and-retry loop, whose
  answer is any form and content of `ModelAnswers`; `RecordRun` flushes an ok row to
  the attempt's session, `RecordFailedRun` commits an error row on its own.
* A photo may have several jobs, upload's and those of requeue and retry (`SubjectOf`),
  which overlap: the guard is read without a lock, and a commit adds its captions
  (`WithCaptions`) to those the photo has. Two jobs can so write six. `OneSetPerCommit` is
  therefore about a commit and not about a photo; how many sets there can be is
  `CaptionsBoundedByWorkers` of `AssetPipeline`.
* A report is of one kind for a behaviour, and each of its SELECTs is a step with
  a snapshot of its own.
* `PollQueued` and `PollRunning` are the two reads of Redis behind `/queue/stats`.
  arq leaves a running job in the queue's sorted set until it finishes.

### PagePolling

* One page, its view (brand and filter) and up to `MaxInFlight` loads, which are
  served and received in any order. Six kinds of page (`page`) differ in when they
  poll, what they paint and what a new brand leaves on them; the module's comment says
  which is which.
* The sidebar is a kind of its own: its effect (`app-shell.tsx:87-105`) polls also when the
  document is hidden, has no generation, and does not empty the totals when the brand
  changes. A panel for all brands (`meter`) has one view, which does not change.
* `click` is one running handler, a closure over the view of its render. A
  `Generate` sleeps and loads until there is news or its polls are spent.

### Variants

A definition such as `NoRowLock`, `EveryAttempt` or `OnlyNewlyApproved`, which
stands before the definition it resembles, is what a plausible mistake in that
piece of code would be. No action uses one. `PROJECT.json` names, for each
property, the variant that breaks it.

## 3. Runs

Deadlock is not checked in any of them: with its counters spent, with nobody
pressing anything and nothing queued, the system rightly rests.

| Run | Instance | Shows |
|---|---|---|
| `comment_safety` | 1 comment, 2 workers, 1 request, 2 tries, 2 seconds, 3 faults | types, row lock, no agent runs on a comment that is committed as drafted or replied, status, draft and audit rows are committed together, one dead letter per job, commit before enqueue, the lifecycle |
| `comment_live` | 1 comment, 2 workers, 1 request, 1 try, 1 fault, fair | every accepted comment is settled; every job leaves the queue |
| `outbox` | 1 draft, 1 request, 2 drains, 2 rows, 1 failure, fair | approved means queued; a comment whose reply went out does not wait for review again; the lifecycle; the approval loop closes; every row is sent |
| `asset_pipeline` | 1 photo, 2 workers, 1 request, 2 tries, 2 seconds, 2 faults, fair | types; a row has its object; orphans are faults; captions bounded, and together with their analysis; the lifecycle; no photo waits for ever |
| `brand_jobs` | 1 brand, 2 workers, 1 request, 2 tries, 2 weeks, 1 click, 2 faults, fair | rows again need a fault; the schedule waits for the week; `BrandLifecycle`; every week is summarised |
| `ingest` | 2 dumps of up to 2 of 7 rows, chunks of 1 | types; inserted once; nothing lost; the counts add up; each commit is one ingest of `CommentPipeline` |
| `reports` | a comment and a photo with two jobs, 2 workers, 2 tries, 1 retry, 2 faults, one reader, fair | types; failures are on record; a commit adds one whole set of captions; an answer agrees with itself; a measurement is complete and ends |
| `page_polling` | 6 kinds of page, 2 views, 2 loads, 1 change, 1 poll of a Generate, fair | types; a page never goes back; whose rows it shows, and that only the sidebar keeps those of the brand that is left; it catches up |
| `claim_finished_job` | 1 comment, 2 workers | a job ends with its comment `new` and no dead letter |
| `claim_not_triaged_again` | 1 comment, 2 workers | a drafted comment is triaged again |
| `claim_only_approved` | 1 draft, 1 request, 1 drain | a rejected reply is sent |
| `claim_sent_once` | 1 draft, 1 request | one reply is sent twice |

The `claim_` runs each check a sentence of the repository that the code does not
keep (section 5); TLC must find it violated.

`SocialOps` has an instance beside these runs, `MCSocialOps` under `SocialOps.cfg`:
a comment, two workers, a request, an approval and a drain, one try and one fault,
in about two minutes and a million states. One try suffices for what is special to
the system, a late dead letter that reopens a comment whose reply went out; without
`RowLocksFree` TLC finds a drain that flips the comment under the attempt. Its four
properties are theorems (section 4).

**Bounds.** `MaxFaults` counts what goes wrong in a behaviour: two faults spend
two tries with a crash, a cancellation or an exception each, and a third lets the
dead letter fail after them or the job be delivered again. `MaxTries` is 2 for the
code's 3: a first attempt that is not the last, and the last; it is 1 where only the
last matters. With one second there are two job keys
for a comment, ingest's and one retry's, which is what two workers need to overlap;
with two there is a retry in the same second and one in another. Two workers are the fewest that overlap, and
a third could only wait with the second. `MaxRows` is how often one draft is
approved: two rows are the fewest that can be sent twice or out of turn.
Comments, drafts and photos are instances of one: their safety properties are
theorems for any number (section 4), and what would bring two of them together, a
batch, is in `IngestBatch`.
In `asset_pipeline` two workers are what it takes to write two sets of captions,
two seconds a retry in the same second and one in another, two faults a lost
enqueue and a crash. In `brand_jobs` three days are a weekday, the Sunday after it
and the Monday that ends the week. Two rows and chunks of one give `ingest` a chunk
edge, a duplicate, a conflict and a deadlock; its seven rows are one of each kind.
`reports` has a photo whose two jobs overlap on two workers; `MCReports!Apart` keeps
the second job to behaviours with a page and without the comment, and all faults
to behaviours with one job. Overlapping commits, failures beside a report and answers
beside two kinds of job are looked at one at a time; the theorems have them together.
It has `QuietPolls` 2 for the code's 3 and `MaxMisses` 2 for its 12: the counters
are reset and compared the same way; two faults spend its tries. Its provider is `ollama`,
which prices every answer, so the rows without a cost are those that failed. Brand jobs call one agent as an asset's first
step does, so no brand job is in its instance. Two loads and two views are the
fewest that can pass each other; a page has one change, as only newer and older
rows are told apart.

**Symmetry** is used in `comment_safety`, `ingest` and the claims, where only safety
is checked: no definition tells two workers, requests, drains or comments apart.

**Fairness.** `CommentPipeline!Fairness`: arq polls, and every await of a job or a
request answers or raises, because of `job_timeout` and the clients' time limits;
hence weak fairness of a worker's and a request's next step and of the expiry of
a dead worker's key. A row lock may be taken from a waiter again and again, and
Postgres queues its waiters, so the two steps that wait for it (`Ingest`,
`RecordFailure`) are strongly fair. Someone presses requeue while comments are
stuck: without it a comment can stay `new` for ever, as `claim_finished_job` shows.
Faults, retries, approvals and ingests are never owed. `ReplyOutbox!FairSpec`
asks only that each worker's timer ticks and that its statements answer or raise
(`_outbox_loop` survives a failed tick); drains that fail do so at most
`MaxFaults` times. `AssetPipeline` assumes what `CommentPipeline` does, requeue
included. `BrandJobs` asks for the hourly loop and the expiry of a weekly key; a
check that is owed comes around again and again, so `CheckBrand` is strongly fair.
`Reports` asks for the workers' steps and a script that goes on; submissions and
replies are not owed. `PagePolling` asks that timers fire and requests are answered,
and, because each poll voids the answers under way, that answers come before
the next poll again and again: where they never do, a page stays empty for ever.

## 4. Proofs

`tlapm` proves the following for any sets of comments, assets, brands, workers,
requests, drains, dumps and views and any bounds. The assumptions are those the modules state on their
constants.

| Theorem | Statement |
|---|---|
| `TypeCorrect`, `OutboxTypeCorrect` | `Spec => []TypeOK` |
| `RowLockSerialises` | `Spec => []OneAttemptInside` |
| `NoRespend` | `Spec => []NoChargeWhenCompleted` |
| `UniqueDrafts` | `Spec => []AtMostOneDraft` |
| `AttemptsAreAtomic` | `Spec => []NoHalfWrittenAttempt` |
| `CommentsPrecedeJobs` | `Spec => []JobsHaveTheirComment` |
| `DeadLettersShow`, `DeadLettersAreUnique` | `Spec => []DeadLetteredIsNotNew`, `Spec => []OneDeadLetterPerJob` |
| `PipelineImplementsLifecycle` | `Spec => Lifecycle!Spec`, with `comment` and `drafts` as they are |
| `ApprovalsAreQueued` | `Spec => []ApprovedIsQueued` |
| `SentRepliesAreAnswered` | `Spec => []SentIsAnswered` |
| `OutboxImplementsLifecycle` | `Spec => Lifecycle!Spec` |
| `SystemImplementsPipeline` | `SystemSpec => Spec`: in the system, `CommentPipeline` is implemented |
| `SystemImplementsOutbox` | `SystemSpec => Outbox!Spec`: in the system, `ReplyOutbox` is implemented |
| `SystemImplementsLifecycle` | `SystemSpec => Lifecycle!Spec` |
| `AnsweredIsChargedOnlyWhenFailed` | `SystemSpec => []SentIsChargedOnlyWhenFailed` |
| `RepliesHaveAnAuditTrail` | `SystemSpec => []RepliesAreAudited` |
| `AssetTypes` | `Spec => []TypeOK` |
| `CardsHaveTheirObject` | `Spec => []RowHasObject` |
| `OrphansNeedAFault` | `Spec => []OrphansAreFaults` |
| `CaptionsAreExplained` | `Spec => []CaptionsComeWithAnalysis` |
| `CaptionsAreBounded` | `Spec => []CaptionsBoundedByWorkers`, for a finite set of workers |
| `PipelineImplementsLifecycle` (of `AssetPipelineProofs`) | `Spec => Lifecycle!Spec`, with `row` and `captions` as they are |
| `BrandJobsTypes`, `ReportsTypes`, `PagesTypes`, `IngestTyped` | `Spec => []TypeOK` |
| `ScheduleNeverEarly` | `Spec => []ScheduleWaitsForTheWeek` |
| `RowsAreWrittenOnce` | `Spec => []RowsAgainNeedAFault` |
| `BrandJobsImplementLifecycle` | `Spec => Lifecycle!Spec`, where a run is a job of `BrandJobs` |
| `OneDumpInserts` | `Spec => []InsertedOnce` |
| `IngestLosesNothing` | `Spec => []NothingLost` |
| `IngestCountsAddUp` | `Spec => []CountsAddUp` |
| `BatchesImplementPipeline` | `Spec => Pipeline!Spec`: ingest row by row implements the one-step ingest of `CommentPipeline` |
| `FailuresStayOnRecord` | `Spec => []FailuresAreOnRecord` |
| `CommitsAddWholeSets` | `Spec => OneSetPerCommit`, an action property |
| `ReportsAddUp` | `Spec => []AnswersAddUp` |
| `MeasurementIsComplete` | `Spec => []ReportIsComplete` |
| `PagesNeverGoBack` | `Spec => NeverGoesBack`, an action property |
| `OtherRowsAreExplained` | `Spec => OtherRowsNeedAnOldClick`, an action property |

Few of these are inductive as they stand.

* `TypeInv` adds to the types that a worker has a job exactly when it is not idle.
* `LockInv` is the row lock: two attempts inside one comment's transaction are one.
  With it, a comment in an attempt's transaction keeps a status that is not
  finished until that attempt commits (`NoRespend`): everyone else who writes the
  status waits for the lock.
* `StatusInv` and `DraftInv` relate a comment's status to its jobs, requests, drafts
  and audit rows. A late dead letter can turn `drafted` into `failed`, so
  `AtMostOneDraft` does not follow from the guard on the status; it rests on the
  unique constraint.
* `DeadLetterInv`: the row is written on the last try by the one worker that holds
  the job's key, and a job on its last try is not started again.
* `QueueInv`: an approved draft has an unsent row, and *no drain that holds that
  row found the draft published already*. The second half is what makes it
  inductive. A drain that stamps the row without flipping the draft must have
  loaded `published`; such a drain selected its rows before the approval that
  made the draft `approved`, and that approval's own row is not among them.
* `RowsInv`: only drafts that exist are asked about, have rows and are drained.
* `AnsweredInv`: a drain need not flip a comment it found at `replied`, as from there a
  comment that has a draft only ever goes to `failed`. `SentIsAnswered` does not hold
  by what the commit writes: SQLAlchemy leaves an equal column alone, and the loaded
  status may be old.
* `SysInv` is the conjunction of what the proofs of `CommentPipeline` and `ReplyOutbox`
  know of their states. Under it a step of `SocialOps` is a step of both modules: a
  commit that flips comments is a `PublishReplies`, because its drafts exist (`RowsInv`)
  and the locks are free (`DrainIsPublish`); a commit of an attempt is a `Draft` or
  `Close`, because the lock kept the status from being settled (`PipelineLifecycleStep`).
  So the lemmas of both modules, those of `ReplyOutbox` instantiated, carry `SysInv` to the
  next state, and neither half's environment had to be trusted. From the row lock
  (`LockInv`) and `SentIsAnswered` together follows `AnsweredIsChargedOnlyWhenFailed`,
  which speaks of both halves and which neither module can state; from `RowsInv` and the
  atomic commit of an attempt, `RepliesHaveAnAuditTrail`.
* `StoreInv`: a request that has put bytes is the only one of its upload, which has
  no row yet, and one that erases has deleted the row. `RowHasObject` rests on both:
  an erasure could otherwise take the bytes of a row another request inserts.
* `OrphanInv` adds that a temporary file belongs to an upload without a row.
* `CaptionsBoundedByWorkers` counts, with the sets written, the attempts that can
  still write one. It is inductive because an attempt passes the guard only while
  there is no analysis, hence no captions (`OnlyIngestEnters`, `CaptionsComeWithAnalysis`),
  and because the attempt that commits leaves the count it adds to.
* `BrandJobs`: `HoldInv` says that a worker's job is queued, in progress and no
  other worker's, and that a job is queued or finished. `SchedInv` adds to
  `ScheduleWaitsForTheWeek` that the key a check is about to enqueue is due
  (`ChecksAreDue`): the SELECT and the enqueue are two steps, and days may pass between
  them. Days only pass, so what is due stays due (`OverForGood`).
* `RowsInv` bounds a job's rows by the faults, and by one more where the job is
  `Settled`: it finished, its worker has committed, or it is neither queued nor about to
  be. Without `Settled` a job could commit, leave and be queued again at no cost;
  `MarksInv` shows that it cannot: the serial of a click is new, and a week with a
  summary that ends on its Sunday is no longer owed.
* `BrandJobsImplementLifecycle` adds `PeriodInv`, the period a worker is about to write is
  one the calendar allows, still at the commit, days after the figures were computed
  (`BegunForGood`); and `SuffixInv`, a suffix that was asked for names one job.
* `IngestBatch`: `KeysInv` says that a committed dump's keys are in the table and an
  open one's are not. The row that is inserted is in neither: it is new to the table,
  and its statement has waited for every open transaction that holds it
  (`OneDumpInserts`).
* `BatchInv` relates the sets of a request: what is left, under way and inserted are
  apart, and rows of one dump have different keys. `LandedInv` says that a row which a
  statement has passed is in the table or among the request's own. Whoever else had
  inserted it has committed by then, and who rolled back held it no longer: this is
  why `NothingLost` survives takeovers. `KeptRows` is the other half of it: of the rows
  with one key the first is kept, so the keys of the kept rows are all the keys.
* `CountsAddUp` needs, with `BatchInv`, that the sizes change by one with each row
  (`RowOffered`, `JobEnqueued`), and `JobsInv`: what a committed dump has still to
  enqueue has no job, as nobody else inserted it. `LettersInv` has the letters.
* `BatchesImplementPipeline` takes all of these. A commit is an ingest because an open
  dump's keys are not in the table; an enqueue is one because its key has no job; a
  cut is an abort because the set of requests that were cut grows by one, and there are
  no more such faults than requests.
* `FailuresAreOnRecord` counts with the error rows the workers that are about to
  write one, `Failing`; that set has to be known to be finite for its size to change by one.
* `OneSetPerCommit` rests on `Coherent`: from the answer of the content agent to the
  commit, the attempt's drafts have one caption for each platform and its session the
  rows of both agents. Nothing but a commit changes captions (`OnlyCommitsFinish`), and
  only those of the job's photo (`CommittedCaptions`); whether the photo had any before
  does not matter.
* `ReportIsComplete` rests on `HoldInv`, by which what a worker runs is still queued,
  and on `DrainInv`: once the script has read an empty queue, every comment of
  the dump has its result. The dump is in arq before the first poll and a queued
  job leaves only with a result, so this holds for any `QUIET_POLLS`.
* `AnswersAddUp` relates three SELECTs with snapshots of their own. `AnswerInv` bounds
  each number an answer has by what is in the database *now*, and by those read after
  it; the database only grows (`DatabaseGrows`), so what is read later is no smaller.
  `PricedInv` is the same for one row set: error rows have no cost, in the sessions
  still open too. That the buckets of a histogram add up to what was counted, for any
  number of buckets, is `BucketsAddUp`.
* `InOrder` says of a page with a generation that the answer that would be painted is
  no older than what is shown or than the page's last write, and no newer than the database. The other
  answers may be of any age: only the newest load's is painted, and a load sent
  later sees a later state.
* `OwnView`: an answer is for the view its load asked for, and a load that could
  still be painted asked for the page's view unless a handler sent it. On the
  pages without a generation it is the effect's cancellation that keeps this. Rows of
  another view also come about by changing the view; every page but the sidebar is
  emptied then, which is the second case of `OtherRowsNeedAnOldClick`.

Two of these facts are about data of any size and would be proved by induction:
that of the rows with one key one is first (`KeptRows`), and that the sizes of
disjoint parts add up (`BucketsAddUp`). The library's induction theorems take an
operator, which no prover here instantiates. Both proofs take a least element
instead, with `WFMin`: the least row that has the key, and the least set of buckets of
which the sum would be wrong, from which one bucket is taken away.

The theorems of `SocialOps` have `ReplyOutbox`'s assumptions on its constants
(`OutboxAssumption`) as a hypothesis.
The proofs assume what the modules do of their constants. `IngestBatch` asks that the
requests are finitely many: those of one run of the API are.

Every safety invariant and action property of a passing run is a theorem. Only
model-checked are liveness and everything under fairness, which the prover does
not do, and the claims of section 5. `DeadLetteredIsNotNew`, `AtMostOneDraft` and the types of
`ReplyOutbox` and `BrandJobs` are proved and have no run, and the theorems of `SocialOps` have
the instance of section 3; `ImplementsLifecycle` implies the second, as no step of
`CommentLifecycle` gives a comment a second draft.

## 5. Where the code and its documentation disagree

Four sentences have a run; `PROJECT.json` quotes the lines.

1. An attempt that raises before its last try is not run again and leaves no dead
   letter (`claim_finished_job`).
2. A late dead letter reopens a drafted comment, and it is triaged again
   (`claim_not_triaged_again`).
3. A reply approved and then rejected is published (`claim_only_approved`).
4. A second approval sends and counts the reply again (`claim_sent_once`).

Modelling showed more, which have no run of their own:

* An approval that races an edit publishes the older text: `update_reply_draft`
  builds the row from what it loaded, though `api/tests/test_approvals.py:146-147`
  calls `final_text` the record.
* A retried job that fails on its first try leaves no new dead letter; requeue gives a
  comment whose job still waits a second one; a retry whose key a finished job
  holds clears its dead letter with nothing queued; and Publish in the Inbox changes
  the draft's status without sending anything by itself.
* "Generate now" on a Sunday writes a summary that ends on that Sunday before it is
  over; the schedule finds it on Monday and writes none for the whole week, which
  `docs/decisions/0005-analytics-live-aggregation.md:69-73` promises.
* `main.py:272` calls the schedule "Idempotent twice over"; a worker that dies after
  its commit has the week summarised again (`RowsAgainNeedAFault` bounds it).
* `content.tsx:36-38` and `ideas.tsx:37-39` say the generation keeps another brand's rows
  off the page. The load of a handler that was started under another brand is
  the newest one, and it paints them (`OtherRowsNeedAnOldClick` says that nothing else does).
* The sidebar shows the run counts of the brand that was left under the name of the new
  one until a load of the new brand answers, for as long as loads fail: its effect,
  unlike that of every page, does not empty them (`app-shell.tsx:87-105`).
* `schemas.py:120-125` has the Content page show three captions side by side. Two
  overlapping jobs of one photo commit two sets.
* `ingest.py:84` says one bad row never rejects the batch. A CSV row with more fields
  than the header makes `RejectedRow` itself raise, and an author longer than its
  column, or a zero byte, makes Postgres refuse the whole dump.
* `_resolve_posts` keys posts by handle and external id; handles are not unique, so a
  replay may insert a comment again under another post.
* `orchestrator.py:199` says every invocation writes a row. The ok rows of an attempt
  that fails later are rolled back with it.
* `extract_json` (`llm.py:85-86`: "a clean response is never mangled") takes a
  fenced block out of a string of clean JSON.
* `measure.py:37-40` asks for several empty readings because a job might be between
  queue and worker. arq keeps a running job in the queue, so one empty reading
  is enough, and the peak counts running jobs twice.
* A comment whose text has `{{word}}` in it makes `render_prompt` raise on every try.

## 6. Plan

Done: comments, dead letters, approval and outbox, and these together; assets and
the object store; per-brand jobs and what they promise; ingest row by row; audit
trail, analytics and measurement; pages. All have proofs.

Left: a page with two handlers at once, for the cards of the Inbox; the row-by-row
ingest of `IngestBatch` inside `SocialOps`, where `CommentPipeline`'s one step stands for
it now.

## 7. Not modelled

* arq's polling, health checks and result expiry. A result key outlives every
  attempt suffix that could meet it.
* An in-progress key that expires under a live worker: arq extends it for the
  whole `job_timeout` and more.
* Prompts, prices, tokens, latencies and the provider's protocol: a model's answer is
  a form and a content, or an exception.
* Routers that are one SELECT, configuration, logging, migrations, seeds, evaluation,
  infrastructure: they keep no state that the components above depend on.
* Content drafts and ideas review: one column set by one request, the last writer wins.
* An attempt that commits more than once: `session_scope` has one commit, and
  `CommentPipeline` and `AssetPipeline` persist in one step. `NoHalfWrittenAttempt` and
  `CaptionsComeWithAnalysis` say what that commit holds.
* A brand job whose dead letter cannot be written (`_record_failure` raises): only a retry
  reads that row, and a retry is never owed.
* `/queue/requeue` of comments and of assets is one endpoint; each pipeline has
  its half.
* Pages: layout, charts, forms, the URL; several handlers at once.
