----------------------------- MODULE BrandJobs -----------------------------
(***************************************************************************)
(* The jobs that belong to a brand: an ideation, an insight run or a       *)
(* summary of the last seven days for every click, and the weekly summary  *)
(* that each worker's hourly loop enqueues for a brand that lacks one for  *)
(* the Monday-to-Sunday week that ended last.                              *)
(*                                                                         *)
(* Nothing in the database keeps two rows for one job or one week apart.   *)
(* What the schedule has is a check for an existing row and a job key made *)
(* of brand and week, which arq holds while the job is queued and for as   *)
(* long as it keeps the result.                                            *)
(***************************************************************************)
EXTENDS Naturals

CONSTANTS Brands,
          Workers,    \* worker processes: one job, one summary loop each
          Requests,   \* API requests that can be in flight at once
          MaxTries,   \* MAX_TRIES
          MaxDay,     \* bound: days that matter, see day
          MaxClicks,  \* bound: clicks and retries, over all brands
          MaxFaults,  \* bound: exceptions, cancellations and crashes
          NoJob       \* no job

ASSUME BrandTriesAssumption == MaxTries \in Nat \ {0}
ASSUME BrandDayAssumption == MaxDay \in Nat /\ MaxDay >= 2
ASSUME BrandClicksAssumption == MaxClicks \in Nat
ASSUME BrandFaultAssumption == MaxFaults \in Nat

Weeks    == 1..((MaxDay + 1) \div 2)
OnDemand == {"ideation", "insight", "summary"}

\* "analytics-weekly-{brand_id}-{week_end}", and the keys with a random suffix,
\* of which the n-th click gets the n-th.
Weekly == [kind : {"weekly"}, brand : Brands, serial : Weeks]
Job == Weekly \cup [kind : OnDemand, brand : Brands, serial : 1..MaxClicks]

ASSUME BrandNoJobAssumption == NoJob \notin Job

VARIABLES day,      \* per brand: 2k is a weekday after Sunday k, 2k + 1 Sunday k + 1
          written,  \* how often a job's rows have been committed
          ends,     \* per brand: summaries whose period ends on a Sunday, as
                    \* <<that Sunday, whether it was over when they were computed>>
          dlq,      \* how many failed_jobs rows each job has written
          check,    \* the job a worker's summary loop is about to enqueue
          pc,       \* where a worker is in its job
          job,      \* the job a worker runs
          period,   \* the <<Sunday, over>> of the summary a worker computes, or <<>>
          exit,     \* how the attempt ended, as arq sees it
          req,      \* the dead letter a retry request still has to delete
          clicks,   \* suffixes handed out
          faults    \* faults so far
VARIABLES queue, inProgress, results, tries   \* see ArqQueue

INSTANCE ArqQueue WITH JobId <- Job

dbVars     == <<written, ends, dlq>>
workerVars == <<pc, job, period, exit>>
arqVars    == <<queue, inProgress, results, tries>>
vars == <<day, dbVars, check, workerVars, req, clicks, faults, arqVars>>

InSession == {"start", "agent", "persist", "committed"}
Stage == InSession \cup {"idle", "handling", "raised"}
Period == {<<>>} \cup (Weeks \X BOOLEAN)

TypeOK ==
    /\ day \in [Brands -> 2..MaxDay]
    /\ written \in [Job -> Nat]
    /\ ends \in [Brands -> SUBSET (Weeks \X BOOLEAN)]
    /\ dlq \in [Job -> Nat]
    /\ check \in [Workers -> Job \cup {NoJob}]
    /\ pc \in [Workers -> Stage]
    /\ job \in [Workers -> Job \cup {NoJob}]
    /\ period \in [Workers -> Period]
    /\ exit \in [Workers -> {"ok", "error", "rerun"}]
    /\ req \in [Requests -> Job \cup {NoJob}]
    /\ clicks \in 0..MaxClicks
    /\ faults \in 0..MaxFaults
    /\ QueueTypeOK

Init ==
    /\ day = [b \in Brands |-> 2]
    /\ written = [j \in Job |-> 0]
    /\ ends = [b \in Brands |-> {}]
    /\ dlq = [j \in Job |-> 0]
    /\ check = [w \in Workers |-> NoJob]
    /\ pc = [w \in Workers |-> "idle"]
    /\ job = [w \in Workers |-> NoJob]
    /\ period = [w \in Workers |-> <<>>]
    /\ exit = [w \in Workers |-> "ok"]
    /\ req = [r \in Requests |-> NoJob]
    /\ clicks = 0
    /\ faults = 0
    /\ QueueInit

-----------------------------------------------------------------------------
(* The calendar, in the brand's time zone.                                 *)

NextDay(b) ==
    /\ day[b] < MaxDay
    /\ day' = [day EXCEPT ![b] = @ + 1]
    /\ UNCHANGED <<dbVars, check, workerVars, req, clicks, faults, arqVars>>

\* last_completed_sunday(today): on a Sunday, the one a week ago.  The variant
\* takes today.
SundayCounts(b) == (day[b] + 1) \div 2
LastCompletedSunday(b) == day[b] \div 2

\* The Sunday k of a period that ends today, if today is one, and whether the
\* week that ends on k is over.  The variant is a week off.
EndsOnSunday(b) == day[b] % 2 = 1
ASundayLate(b) == (day[b] + 3) \div 2
ThisSunday(b) == (day[b] + 1) \div 2
IsOver(b, k) == k <= day[b] \div 2

-----------------------------------------------------------------------------
(* The summary loop.                                                       *)

\* There is a summary whose period_end is that Sunday, whoever wrote it.
Summarised(b, k) == \E over \in BOOLEAN : <<k, over>> \in ends[b]

\* The schedule's check, and variants that look for any summary or for none.
AnySummary(b, k) == ends[b] # {}
NoCheck(b, k) == FALSE
Done(b, k) == Summarised(b, k)

\* enqueue_due_summaries, for one brand: the SELECT.
CheckBrand(w, b) ==
    LET k == LastCompletedSunday(b)
    IN /\ check[w] = NoJob
       /\ ~Done(b, k)
       /\ check' = [check EXCEPT ![w] = [kind |-> "weekly", brand |-> b, serial |-> k]]
       /\ UNCHANGED <<day, dbVars, workerVars, req, clicks, faults, arqVars>>

\* The enqueue, which arq may refuse.
EnqueueDue(w) ==
    /\ check[w] # NoJob
    /\ EnqueueJob(check[w])
    /\ check' = [check EXCEPT ![w] = NoJob]
    /\ UNCHANGED <<day, dbVars, workerVars, req, clicks, faults>>

Fault == faults < MaxFaults /\ faults' = faults + 1

\* The database or Redis refuses; _summary_loop logs it and goes on.
CheckFails(w) ==
    /\ check[w] # NoJob
    /\ check' = [check EXCEPT ![w] = NoJob]
    /\ Fault
    /\ UNCHANGED <<day, dbVars, workerVars, req, clicks, arqVars>>

\* arq keeps a result for an hour.  A check is shorter than that: one that is
\* still under way has seen the rows of a job that finished so long ago.
ExpireResult(j) ==
    /\ written[j] = 0 \/ \A w \in Workers : check[w] # j
    /\ ForgetResult(j)
    /\ UNCHANGED <<day, dbVars, check, workerVars, req, clicks, faults>>

-----------------------------------------------------------------------------
(* The API.                                                                *)

Fresh(kind, b) == [kind |-> kind, brand |-> b, serial |-> clicks + 1]

\* POST .../generate: a job of its own for every click.
Generate(kind, b) ==
    /\ clicks < MaxClicks
    /\ clicks' = clicks + 1
    /\ EnqueueJob(Fresh(kind, b))
    /\ UNCHANGED <<day, dbVars, check, workerVars, req, faults>>

\* POST /failed_jobs/{id}/retry: a weekly summary comes back as one of the last
\* seven days.
RetriedKind(kind) == IF kind = "weekly" THEN "summary" ELSE kind

RetryFailedJob(r, letter) ==
    /\ req[r] = NoJob
    /\ dlq[letter] > 0
    /\ clicks < MaxClicks
    /\ clicks' = clicks + 1
    /\ EnqueueJob(Fresh(RetriedKind(letter.kind), letter.brand))
    /\ req' = [req EXCEPT ![r] = letter]
    /\ UNCHANGED <<day, dbVars, check, workerVars, faults>>

DeleteRetriedRow(r) ==
    /\ req[r] # NoJob
    /\ dlq' = [dlq EXCEPT ![req[r]] = IF @ > 0 THEN @ - 1 ELSE @]
    /\ req' = [req EXCEPT ![r] = NoJob]
    /\ UNCHANGED <<day, written, ends, check, workerVars, clicks, faults, arqVars>>

\* The request dies before its delete.  (Each retry costs a click, so this needs
\* no bound of its own.)
AbortRequest(r) ==
    /\ req[r] # NoJob
    /\ req' = [req EXCEPT ![r] = NoJob]
    /\ UNCHANGED <<day, dbVars, check, workerVars, clicks, faults, arqVars>>

-----------------------------------------------------------------------------
(* The worker.                                                             *)

Goto(w, stage) == pc' = [pc EXCEPT ![w] = stage]

Raise(w, e) ==
    /\ exit' = [exit EXCEPT ![w] = e]
    /\ Goto(w, "handling")

Rest(w) ==
    /\ Goto(w, "idle")
    /\ job' = [job EXCEPT ![w] = NoJob]
    /\ period' = [period EXCEPT ![w] = <<>>]
    /\ exit' = [exit EXCEPT ![w] = "ok"]

PickJob(w) ==
    /\ pc[w] = "idle"
    /\ \E j \in Job :
         /\ StartJob(j)
         /\ job' = [job EXCEPT ![w] = j]
    /\ Goto(w, "start")
    /\ UNCHANGED <<day, dbVars, check, period, exit, req, clicks, faults>>

ExhaustJob(w) ==
    /\ pc[w] = "idle"
    /\ \E j \in Job : AbandonJob(j)
    /\ UNCHANGED <<day, dbVars, check, workerVars, req, clicks, faults>>

\* run_ideation and run_insight up to the agent.  An insight run without posts is
\* a ValueError; no posts, or no earlier row, is ever looked for otherwise.
StartRun(w) ==
    /\ pc[w] = "start"
    /\ job[w].kind \in {"ideation", "insight"}
    /\ \/ /\ Goto(w, "agent")
          /\ UNCHANGED exit
       \/ /\ job[w].kind = "insight"
          /\ Raise(w, "error")
    /\ UNCHANGED <<day, dbVars, check, job, period, req, clicks, faults, arqVars>>

\* run_analytics_summary up to the agent: the period's last day, then its
\* figures.  A quiet week has a fixed sentence and no agent.
PeriodOf(j) ==
    IF j.kind = "weekly" THEN <<j.serial, IsOver(j.brand, j.serial)>>
    ELSE IF EndsOnSunday(j.brand) THEN <<ThisSunday(j.brand), FALSE>> ELSE <<>>

StartSummary(w) ==
    /\ pc[w] = "start"
    /\ job[w].kind \in {"weekly", "summary"}
    /\ period' = [period EXCEPT ![w] = PeriodOf(job[w])]
    /\ \E quiet \in BOOLEAN : Goto(w, IF quiet THEN "persist" ELSE "agent")
    /\ UNCHANGED <<day, dbVars, check, job, exit, req, clicks, faults, arqVars>>

Agent(w) ==
    /\ pc[w] = "agent"
    /\ Goto(w, "persist")
    /\ UNCHANGED <<day, dbVars, check, job, period, exit, req, clicks, faults, arqVars>>

\* The rows and the commit of the attempt's session.
Persist(w) ==
    LET j == job[w]
    IN /\ pc[w] = "persist"
       /\ written' = [written EXCEPT ![j] = @ + 1]
       /\ ends' = [ends EXCEPT ![j.brand] =
                     IF period[w] = <<>> THEN @ ELSE @ \cup {period[w]}]
       /\ Goto(w, "committed")
       /\ UNCHANGED <<day, dlq, check, job, period, exit, req, clicks, faults, arqVars>>

FailAttempt(w) ==
    /\ pc[w] \in InSession
    /\ Fault
    /\ \E e \in {"error", "rerun"} : Raise(w, e)
    /\ UNCHANGED <<day, dbVars, check, job, period, req, clicks, arqVars>>

LastAttempt(j) == tries[j] >= MaxTries

\* _handle_failure, _record_failure
HandleFailure(w) ==
    /\ pc[w] = "handling"
    /\ IF LastAttempt(job[w])
       THEN dlq' = [dlq EXCEPT ![job[w]] = @ + 1]
       ELSE UNCHANGED dlq
    /\ Goto(w, "raised")
    /\ UNCHANGED <<day, written, ends, check, job, period, exit, req, clicks, faults, arqVars>>

LeaveJob(w) ==
    /\ pc[w] \in {"committed", "raised"}
    /\ IF exit[w] = "rerun" THEN RerunJob(job[w]) ELSE FinishJob(job[w])
    /\ Rest(w)
    /\ UNCHANGED <<day, dbVars, check, req, clicks, faults>>

\* A worker that goes takes its summary loop with it.
CrashWorker(w) ==
    /\ pc[w] # "idle"
    /\ Fault
    /\ Rest(w)
    /\ check' = [check EXCEPT ![w] = NoJob]
    /\ UNCHANGED <<day, dbVars, req, clicks, arqVars>>

ExpireInProgress(j) ==
    /\ j \in inProgress
    /\ \A w \in Workers : job[w] # j
    /\ RerunJob(j)
    /\ UNCHANGED <<day, dbVars, check, workerVars, req, clicks, faults>>

-----------------------------------------------------------------------------
WorkerStep(w) ==
    \/ PickJob(w) \/ ExhaustJob(w)
    \/ StartRun(w) \/ StartSummary(w) \/ Agent(w) \/ Persist(w)
    \/ HandleFailure(w) \/ LeaveJob(w)

WorkerFault(w) == FailAttempt(w) \/ CrashWorker(w) \/ CheckFails(w)

Next ==
    \/ \E w \in Workers : WorkerStep(w) \/ WorkerFault(w) \/ EnqueueDue(w)
    \/ \E w \in Workers, b \in Brands : CheckBrand(w, b)
    \/ \E b \in Brands : NextDay(b)
    \/ \E b \in Brands, kind \in OnDemand : Generate(kind, b)
    \/ \E r \in Requests, letter \in Job : RetryFailedJob(r, letter)
    \/ \E r \in Requests : DeleteRetriedRow(r) \/ AbortRequest(r)
    \/ \E j \in Job : ExpireInProgress(j) \/ ExpireResult(j)

Spec == Init /\ [][Next]_vars

-----------------------------------------------------------------------------
(* Safety.                                                                 *)

\* A job's rows are committed once, and once more for each fault at most: no
\* two schedules, clicks, checks or expiring keys write a week or a click twice
\* by themselves.
RowsAgainNeedAFault == \A j \in Job : written[j] <= 1 + faults

\* The schedule never summarises a week that is not over: a summary computed
\* too early is a click's, made on that Sunday.
ScheduleWaitsForTheWeek ==
    \A j \in queue \cup results : j.kind = "weekly" => IsOver(j.brand, j.serial)

\* What a brand gets for its clicks and its weeks is a BrandLifecycle: the queue,
\* the attempts, the checks and the dead letters neither lose track of what paid
\* for a run nor write a period the calendar does not allow.
Lifecycle == INSTANCE BrandLifecycle WITH Jobs <- Job
ImplementsLifecycle == Lifecycle!Spec

-----------------------------------------------------------------------------
(* Liveness.                                                               *)

\* Each worker's loop comes around every hour, its statements answer or raise,
\* awaits of a job do too, and keys expire.  Clicks, retries, days and faults are
\* never owed.
Fairness ==
    /\ \A w \in Workers : WF_vars(WorkerStep(w)) /\ WF_vars(EnqueueDue(w))
    /\ \A w \in Workers, b \in Brands : SF_vars(CheckBrand(w, b))
    /\ \A r \in Requests : WF_vars(DeleteRetriedRow(r))
    /\ \A j \in Job : WF_vars(ExpireInProgress(j))
    /\ \A j \in Weekly : WF_vars(ExpireResult(j))

FairSpec == Spec /\ Fairness

\* A week that ended is given a summary while it is the last one, although its
\* failed job's key blocks the next until it expires.  (A click's preview of that
\* very Sunday counts, as it does for the code.)
WeekIsSummarised ==
    \A b \in Brands, k \in Weeks :
        LastCompletedSunday(b) = k ~> Summarised(b, k) \/ LastCompletedSunday(b) > k
=============================================================================
