------------------------------- MODULE Reports -------------------------------
(***************************************************************************)
(* The audit trail and what is read from it: workers call agents, each     *)
(* with a validate-and-retry loop around the model, and write agent_runs   *)
(* rows; at the same time GET /agent_runs, GET /analytics or               *)
(* scripts/measure.py puts a report together from several SELECTs, each    *)
(* with a snapshot of its own (READ COMMITTED).                            *)
(*                                                                         *)
(* Rows are counted, not listed: a report adds them up.  CommentPipeline   *)
(* and AssetPipeline have the jobs' other effects.                         *)
(***************************************************************************)
EXTENDS ModelAnswers, Integers, FiniteSets, FiniteSetsExt, Functions

CONSTANTS Jobs,
          KindOf,       \* the kind of each job
          SubjectOf,    \* the photo of an asset's job; any other job is its own
          DayOf,        \* the local day of each comment
          Workers,
          MaxTries,     \* MAX_TRIES
          Retries,      \* retries of complete()'s agent
          Provider,     \* LLM_PROVIDER: "ollama" or "bedrock"
          Days,         \* bound: days a range can name; the last one is today
          DefaultDays,  \* DEFAULT_DAYS
          MaxDays,      \* MAX_DAYS
          PageSize,     \* limit of the page
          QuietPolls,   \* QUIET_POLLS
          MaxMisses,    \* MAX_CONSECUTIVE_MISSES
          Delays,       \* bound: seconds from a comment to its reply, by two clocks
          MaxFaults,    \* bound: exceptions, cancellations, crashes
          NoJob         \* no job

ASSUME ReportsJobsAssumption == KindOf \in [Jobs -> Kinds] /\ NoJob \notin Jobs
ASSUME ReportsSubjectsAssumption ==
    /\ DOMAIN SubjectOf = Jobs
    /\ \A j \in Jobs : IF KindOf[j] = "asset" THEN SubjectOf[j] \notin Jobs ELSE SubjectOf[j] = j
ASSUME ReportsDaysAssumption == Days \in Nat \ {0} /\ DayOf \in [Jobs -> 1..Days]
ASSUME ReportsTriesAssumption == MaxTries \in Nat \ {0} /\ Retries \in Nat
ASSUME ReportsBoundsAssumption ==
    /\ DefaultDays \in Nat \ {0} /\ MaxDays \in Nat \ {0} /\ PageSize \in Nat \ {0}
    /\ QuietPolls \in Nat \ {0} /\ MaxMisses \in Nat /\ MaxFaults \in Nat
ASSUME ReportsDelaysAssumption == Delays \subseteq Int /\ Delays # {}
ASSUME ReportsProviderAssumption == Provider \in {"ollama", "bedrock"}

VARIABLES rows,      \* committed agent_runs rows: how many ok, error, without a cost
          failures,  \* history: invocations that have raised
          unwritten, \* history: of these, those whose row was not written
          done,      \* comments, photos and brand jobs whose work is committed
          drafted,   \* comments that have a reply draft
          captions,  \* the captions of each photo, by platform
          sent,      \* comments whose reply is published
          work,      \* what each worker does
          report,    \* the report being put together
          faults     \* faults so far
VARIABLES queue, inProgress, results, tries   \* see ArqQueue

INSTANCE ArqQueue WITH JobId <- Jobs

dbVars  == <<rows, failures, unwritten, done, drafted, captions, sent>>
arqVars == <<queue, inProgress, results, tries>>
vars == <<dbVars, work, report, faults, arqVars>>

Comments == {j \in Jobs : KindOf[j] = "comment"}

\* What the jobs are about.
Subjects == {SubjectOf[j] : j \in Jobs}

\* Upload, requeue and retry may each have queued a job for one photo.
Assets == {SubjectOf[j] : j \in {k \in Jobs : KindOf[k] = "asset"}}
NoCaptions == [p \in Platforms |-> 0]

\* calls: model calls of the invocation so far; ok, unpriced: rows the attempt's
\* session holds; drafts: captions it holds.
Resting == [pc |-> "idle", job |-> NoJob, agent |-> "none", calls |-> 0, ok |-> 0,
            unpriced |-> 0, drafts |-> NoCaptions, exit |-> "ok"]
InSession == {"start", "calling", "answered", "persist"}
Work == [pc : InSession \cup {"idle", "failing", "committed", "raised"},
         job : Jobs \cup {NoJob}, agent : Agents \cup {"none"}, calls : 0..(Retries + 1),
         ok : 0..2, unpriced : 0..2, drafts : [Platforms -> 0..2],
         exit : {"ok", "error", "rerun"}]

Count == [ok : Nat, error : Nat, unpriced : Nat]
NoRows == [ok |-> 0, error |-> 0, unpriced |-> 0]
Total(count) == count.ok + count.error

\* The SELECTs of an answer, in order; variants with the first two swapped.
TotalsFirst == <<"totals", "rows", "window">>
PageReads == <<"rows", "totals", "window">>
CategoriesFirst == <<"categories", "sentiment", "responses">>
AnalyticsReads == <<"sentiment", "categories", "responses">>

Buckets == 0..6

\* reads: SELECTs done; listed..histogram: what they returned; queued: the first
\* reading of a poll; quiet, misses: the counters of _drain.
Report(kind) ==
    [kind |-> kind, step |-> "start", reads |-> 0, from |-> 0, to |-> 0,
     listed |-> 0, total |-> 0, errors |-> 0, unpriced |-> 0, window |-> FALSE,
     sentiment |-> 0, categories |-> 0, published |-> 0, histogram |-> [b \in Buckets |-> 0],
     queued |-> 0, quiet |-> 0, misses |-> 0]
ReportKinds == {"page", "analytics", "measure"}
Reports == [kind : ReportKinds, step : {"start", "draining", "polled", "reading", "done", "refused"},
            reads : 0..3, from : Int, to : Int,
            listed : Nat, total : Nat, errors : Nat, unpriced : Nat, window : BOOLEAN,
            sentiment : Nat, categories : Nat, published : Nat, histogram : [Buckets -> Nat],
            queued : Nat, quiet : 0..QuietPolls, misses : 0..(MaxMisses + 1)]

TypeOK ==
    /\ rows \in Count
    /\ failures \in Nat
    /\ unwritten \in Nat
    /\ done \subseteq Subjects
    /\ drafted \subseteq done \cap Comments
    /\ captions \in [Assets -> [Platforms -> Nat]]
    /\ sent \subseteq drafted
    /\ work \in [Workers -> Work]
    /\ report \in Reports
    /\ faults \in 0..MaxFaults
    /\ QueueTypeOK

Init ==
    /\ rows = NoRows
    /\ failures = 0
    /\ unwritten = 0
    /\ done = {}
    /\ drafted = {}
    /\ captions = [a \in Assets |-> NoCaptions]
    /\ sent = {}
    /\ work = [w \in Workers |-> Resting]
    /\ \E kind \in ReportKinds : report = Report(kind)
    /\ faults = 0
    /\ QueueInit

Fault == faults < MaxFaults /\ faults' = faults + 1

-----------------------------------------------------------------------------
(* The workers.                                                            *)

\* A dump, an upload, a click.
Submit(j) ==
    /\ ~Known(j)
    /\ EnqueueJob(j)
    /\ UNCHANGED <<dbVars, work, report, faults>>

Does(w, fields) == work' = [work EXCEPT ![w] = fields]

PickJob(w) ==
    /\ work[w].pc = "idle"
    /\ \E j \in Jobs :
         /\ StartJob(j)
         /\ Does(w, [Resting EXCEPT !.pc = "start", !.job = j])
    /\ UNCHANGED <<dbVars, report, faults>>

ExhaustJob(w) ==
    /\ work[w].pc = "idle"
    /\ \E j \in Jobs : AbandonJob(j)
    /\ UNCHANGED <<dbVars, work, report, faults>>

\* The worker goes on with an agent, or without one to the end of its attempt.
Calling(w, agent) ==
    Does(w, [work[w] EXCEPT !.agent = agent, !.calls = 0,
                            !.pc = IF agent = "none" THEN "persist" ELSE "calling"])

\* The guards of the comment's and the asset's graphs; brand jobs have none.
StartAttempt(w) ==
    /\ work[w].pc = "start"
    /\ IF SubjectOf[work[w].job] \in done /\ KindOf[work[w].job] \in {"comment", "asset"}
       THEN Does(w, [work[w] EXCEPT !.pc = "committed"])
       ELSE \E agent \in FirstAgents(KindOf[work[w].job]) : Calling(w, agent)
    /\ UNCHANGED <<dbVars, report, faults, arqVars>>

\* Whether an answer that does not pass is the last, and one retry too many.
OneRetryMore(calls) == calls > Retries
RetriesSpent(calls) == calls = Retries

\* agent.run: the model answers; an answer that does not pass is sent back to it
\* until the retries are used up, which raises.
Call(w) ==
    LET agent == work[w].agent
    IN /\ work[w].pc = "calling"
       /\ \E form \in Forms, content \in Contents(agent) :
            IF Passes(agent, form, content)
            THEN Does(w, [work[w] EXCEPT !.pc = "answered",
                                         !.drafts = IF agent = "content" THEN content ELSE @])
            ELSE Does(w, [work[w] EXCEPT
                           !.calls = @ + 1,
                           !.pc = IF RetriesSpent(work[w].calls) THEN "failing" ELSE @,
                           !.exit = IF RetriesSpent(work[w].calls) THEN "error" ELSE @])
       /\ failures' = IF work'[w].pc = "failing" THEN failures + 1 ELSE failures
       /\ UNCHANGED <<rows, unwritten, done, drafted, captions, sent, report, faults, arqVars>>

\* The prompt has a placeholder left, the model cannot be reached, the job times
\* out or the worker is told to stop.
CallRaises(w) ==
    /\ work[w].pc = "calling"
    /\ \E e \in {"error", "rerun"} :
         Does(w, [work[w] EXCEPT !.pc = "failing", !.exit = e])
    /\ failures' = failures + 1
    /\ Fault
    /\ UNCHANGED <<rows, unwritten, done, drafted, captions, sent, report, arqVars>>

\* _cost_usd: NULL when genai-prices does not know the model.
Unpriced == IF Provider = "ollama" THEN {0} ELSE {0, 1}

\* _record_run: flushed, not committed.
RecordRun(w) ==
    /\ work[w].pc = "answered"
    /\ \E next \in NextAgents(work[w].agent), n \in Unpriced :
         Does(w, [work[w] EXCEPT
                   !.ok = @ + 1, !.unpriced = @ + n, !.agent = next, !.calls = 0,
                   !.pc = IF next = "none" THEN "persist" ELSE "calling"])
    /\ UNCHANGED <<dbVars, report, faults, arqVars>>

\* The rollback that follows takes what the job's session holds.
Raised(w) == Does(w, [work[w] EXCEPT !.pc = "raised", !.agent = "none", !.calls = 0, !.ok = 0,
                                     !.unpriced = 0, !.drafts = NoCaptions])

\* _record_failed_run: committed on a session of its own, with no cost; a variant
\* that uses the job's session.
OnTheJobsSession == rows
WithErrorRow == [rows EXCEPT !.error = @ + 1, !.unpriced = @ + 1]

RecordFailedRun(w) ==
    /\ work[w].pc = "failing"
    /\ rows' = WithErrorRow
    /\ Raised(w)
    /\ UNCHANGED <<failures, unwritten, done, drafted, captions, sent, report, faults, arqVars>>

\* Best effort: the write itself fails, which is logged.
FailedRunUnwritten(w) ==
    /\ work[w].pc = "failing"
    /\ unwritten' = unwritten + 1
    /\ Raised(w)
    /\ Fault
    /\ UNCHANGED <<rows, failures, done, drafted, captions, sent, report, arqVars>>

\* Persist: a comment gets a draft when both its agents ran.
WithDraft(mine) == IF mine.ok = 2 THEN drafted \cup ({mine.job} \cap Comments) ELSE drafted

\* PersistContent adds what the attempt was answered to what the photo has.
WithCaptions(mine) ==
    [a \in Assets |-> [p \in Platforms |->
       captions[a][p] + IF a = SubjectOf[mine.job] THEN mine.drafts[p] ELSE 0]]

\* The audit rows, the work and the commit.
CommitAttempt(w) ==
    LET mine == work[w]
    IN /\ mine.pc = "persist"
       /\ rows' = [rows EXCEPT !.ok = @ + mine.ok, !.unpriced = @ + mine.unpriced]
       /\ done' = done \cup {SubjectOf[mine.job]}
       /\ drafted' = WithDraft(mine)
       /\ captions' = WithCaptions(mine)
       /\ Does(w, [Resting EXCEPT !.pc = "committed", !.job = mine.job])
       /\ UNCHANGED <<failures, unwritten, sent, report, faults, arqVars>>

\* Anything else that raises between two agents or at the commit, and a
\* cancellation there.
FailAttempt(w) ==
    /\ work[w].pc \in {"start", "answered", "persist"}
    /\ \E e \in {"error", "rerun"} :
         Does(w, [Resting EXCEPT !.pc = "raised", !.job = work[w].job, !.exit = e])
    /\ Fault
    /\ UNCHANGED <<dbVars, report, arqVars>>

LeaveJob(w) ==
    /\ work[w].pc \in {"committed", "raised"}
    /\ IF work[w].exit = "rerun" THEN RerunJob(work[w].job) ELSE FinishJob(work[w].job)
    /\ Does(w, Resting)
    /\ UNCHANGED <<dbVars, report, faults>>

CrashWorker(w) ==
    /\ work[w].pc # "idle"
    /\ unwritten' = IF work[w].pc = "failing" THEN unwritten + 1 ELSE unwritten
    /\ Does(w, Resting)
    /\ Fault
    /\ UNCHANGED <<rows, failures, done, drafted, captions, sent, report, arqVars>>

ExpireInProgress(j) ==
    /\ j \in inProgress
    /\ \A w \in Workers : work[w].job # j
    /\ RerunJob(j)
    /\ UNCHANGED <<dbVars, work, report, faults>>

\* A drain stamps the outbox row of a draft that was approved.
Publish ==
    /\ \E c \in drafted \ sent : sent' = sent \cup {c}
    /\ UNCHANGED <<rows, failures, unwritten, done, drafted, captions, work, report, faults, arqVars>>

-----------------------------------------------------------------------------
(* The readers.                                                            *)

Reader == UNCHANGED <<dbVars, work, arqVars>>
Becomes(fields) == report' = fields

\* GET /analytics: a missing `to` is today, a missing `from` goes DEFAULT_DAYS
\* back; 422 for a range that is the wrong way round or too long.
AskAnalytics ==
    /\ report.kind = "analytics" /\ report.step = "start"
    /\ \E from, to \in 0..Days :   \* 0: not given
         LET end   == IF to = 0 THEN Days ELSE to
             start == IF from = 0 THEN end - (DefaultDays - 1) ELSE from
         IN IF start > end \/ end - start + 1 > MaxDays
            THEN Becomes([report EXCEPT !.step = "refused"])
            ELSE Becomes([report EXCEPT !.step = "reading", !.from = start, !.to = end])
    /\ Reader /\ UNCHANGED faults

AskPage ==
    /\ report.kind = "page" /\ report.step = "start"
    /\ Becomes([report EXCEPT !.step = "reading"])
    /\ Reader /\ UNCHANGED faults

\* The next SELECT is this one.
Reads(what) ==
    /\ report.step = "reading"
    /\ (IF report.kind = "analytics" THEN AnalyticsReads ELSE PageReads)[report.reads + 1] = what

Having(fields) ==
    /\ Becomes([fields EXCEPT !.reads = @ + 1, !.step = IF report.reads = 2 THEN "done" ELSE @])
    /\ Reader /\ UNCHANGED faults

ReadRows ==
    /\ Reads("rows")
    /\ Having([report EXCEPT !.listed = IF Total(rows) < PageSize THEN Total(rows) ELSE PageSize])

\* Per agent in the code, added up here.
ReadTotals ==
    /\ Reads("totals")
    /\ Having([report EXCEPT !.total = Total(rows), !.errors = rows.error, !.unpriced = rows.unpriced])

ReadWindow ==
    /\ Reads("window")
    /\ Having([report EXCEPT !.window = Total(rows) > 0])

InRange(set) == {c \in set \cap Comments : DayOf[c] \in report.from..report.to}

\* Triage sets both columns in one commit; the days and the categories are added up.
ReadSentiment ==
    /\ Reads("sentiment")
    /\ Having([report EXCEPT !.sentiment = Cardinality(InRange(done))])

ReadCategories ==
    /\ Reads("categories")
    /\ Having([report EXCEPT !.categories = Cardinality(InRange(done))])

\* GREATEST(0, ...), and the seven FILTERs: the lower edge belongs to the bucket.
Edges == <<60, 300, 900, 3600, 14400, 86400>>
AtLeast(s, edge) == s >= edge
InBucket(delay, b) ==
    LET s == IF delay < 0 THEN 0 ELSE delay
    IN /\ b > 0 => AtLeast(s, Edges[b])
       /\ b < 6 => s < Edges[b + 1]

\* When a reply was sent matters nowhere else, so its delay is chosen here.
ReadResponses ==
    /\ Reads("responses")
    /\ \E delay \in [InRange(sent) -> Delays] :
         Having([report EXCEPT
                  !.published = Cardinality(InRange(sent)),
                  !.histogram = [b \in Buckets |->
                                   Cardinality({c \in InRange(sent) : InBucket(delay[c], b)})]])

\* scripts/measure.py: the dump is answered once its comments are enqueued; when
\* it inserted nothing, or the API failed, the script ends.
MeasureIngested ==
    /\ report.kind = "measure" /\ report.step = "start"
    /\ \A c \in Comments : Known(c)
    /\ \E step \in {"draining", "refused"} : Becomes([report EXCEPT !.step = step])
    /\ Reader /\ UNCHANGED faults

\* GET /queue/stats reads Redis twice: the queue's length ...
PollQueued ==
    /\ report.step = "draining"
    /\ Becomes([report EXCEPT !.step = "polled", !.queued = Cardinality(queue)])
    /\ Reader /\ UNCHANGED faults

QuietAfter(depth) == IF depth = 0 THEN report.quiet + 1 ELSE 0

\* ... then the in-progress keys.
PollRunning ==
    LET quiet == QuietAfter(report.queued + Cardinality(inProgress))
    IN /\ report.step = "polled"
       /\ Becomes([report EXCEPT !.queued = 0, !.misses = 0, !.quiet = quiet,
                                 !.step = IF quiet = QuietPolls THEN "reading" ELSE "draining"])
       /\ Reader /\ UNCHANGED faults

\* A poll that does not answer is no empty reading; variants: it is one, and it
\* is not counted as missed.
MissIsQuiet(poll) == [poll EXCEPT !.quiet = IF @ < QuietPolls THEN @ + 1 ELSE @, !.misses = @ + 1]
MissIsIgnored(poll) == poll
Missed(poll) == [poll EXCEPT !.misses = @ + 1]

\* After too many in a row the script reports on what is recorded.
MissPoll ==
    LET after == Missed([report EXCEPT !.queued = 0])
    IN /\ report.step \in {"draining", "polled"}
       /\ Becomes([after EXCEPT !.step = IF \/ after.misses > MaxMisses
                                            \/ after.quiet = QuietPolls
                                         THEN "reading" ELSE "draining"])
       /\ Reader /\ UNCHANGED faults

\* Any other request of a reader fails, and its script or page ends there.
RequestFails ==
    /\ report.step \in {"start", "reading"}
    /\ Becomes([report EXCEPT !.step = "refused"])
    /\ Fault
    /\ Reader

-----------------------------------------------------------------------------
Step(w) ==
    \/ PickJob(w) \/ ExhaustJob(w) \/ StartAttempt(w) \/ Call(w) \/ RecordRun(w)
    \/ RecordFailedRun(w) \/ CommitAttempt(w) \/ LeaveJob(w)

Faulty(w) == CallRaises(w) \/ FailedRunUnwritten(w) \/ FailAttempt(w) \/ CrashWorker(w)

Read ==
    \/ AskAnalytics \/ AskPage
    \/ ReadRows \/ ReadTotals \/ ReadWindow
    \/ ReadSentiment \/ ReadCategories \/ ReadResponses
    \/ MeasureIngested \/ PollQueued \/ PollRunning \/ MissPoll

Next ==
    \/ \E j \in Jobs : Submit(j) \/ ExpireInProgress(j)
    \/ \E w \in Workers : Step(w) \/ Faulty(w)
    \/ Publish
    \/ Read
    \/ RequestFails

Spec == Init /\ [][Next]_vars

\* The worker's loop, the expiry of a dead worker's key, and a script that goes
\* on polling and reading; nobody owes a submission, a fault or a reply.
Fairness ==
    /\ \A w \in Workers : WF_vars(Step(w))
    /\ \A j \in Jobs : WF_vars(ExpireInProgress(j))
    /\ WF_vars(Read)

FairSpec == Spec /\ Fairness

-----------------------------------------------------------------------------
(* Properties.                                                             *)

\* "_record_failed_run", orchestrator.py:226: every invocation that raised has
\* left its committed error row, except those the worker could not write and
\* those it is about to; the rollback of the job's session takes none with it.
FailuresAreOnRecord ==
    rows.error + unwritten + Cardinality({w \in Workers : work[w].pc = "failing"}) = failures

\* schemas.py one_draft_per_platform and the single commit of the asset graph: what
\* one attempt commits for a photo is one caption for each platform, its analysis
\* and the ok rows of both agents, all of them or nothing, however the model
\* answered and wherever earlier attempts died.  (A photo has as many sets as
\* attempts have committed: overlapping ones add theirs.)
OneSetPerCommit ==
    [][ \A a \in Assets :
          captions'[a] # captions[a] \/ a \in done' \ done =>
            /\ a \in done'
            /\ \A p \in Platforms : captions'[a][p] = captions[a][p] + 1
            /\ rows'.ok = rows.ok + 2 ]_vars

\* "Together because they must agree", schemas/agent_run.py: no commit between
\* two SELECTs of one answer makes a page list more rows than its totals count,
\* an error row with a cost, rows without a window; or, in an analytics answer,
\* a comment with a sentiment and no category; and the buckets count every
\* published reply once.
AnswersAddUp ==
    report.step = "done" =>
        /\ report.kind # "analytics" =>
             /\ report.listed <= report.total
             /\ report.errors <= report.unpriced
             /\ report.unpriced <= report.total
             /\ report.total > 0 => report.window
        /\ report.sentiment <= report.categories
        /\ SumFunction(report.histogram) = report.published

\* measure.py _drain: a report that did not give up is read after the last
\* attempt on the dump's comments: none is queued and no worker has one.
ReportIsComplete ==
    report.kind = "measure" /\ report.step \in {"reading", "done"} /\ report.misses <= MaxMisses =>
        /\ Comments \subseteq results
        /\ \A w \in Workers : work[w].job \notin Comments

\* measure.py _drain: the watch ends, whatever is polled and missed.
DrainEnds == report.step = "draining" ~> report.step \in {"done", "refused"}
=============================================================================
