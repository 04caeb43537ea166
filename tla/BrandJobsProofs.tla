-------------------------- MODULE BrandJobsProofs --------------------------
(***************************************************************************)
(* Theorems about BrandJobs, for any sets of brands, workers and requests  *)
(* and any bounds.                                                         *)
(***************************************************************************)
EXTENDS BrandJobs, TLAPS

\* A worker has a job exactly when it is not idle.
Assigned ==
    \A w \in Workers :
        /\ pc[w] = "idle" => job[w] = NoJob
        /\ pc[w] # "idle" => job[w] \in Job

TypeInv == TypeOK /\ Assigned

-----------------------------------------------------------------------------
(* Types.                                                                  *)

\* The Sundays that days 2..MaxDay name are weeks of the model.
LEMMA Sundays ==
    ASSUME NEW d \in 2..MaxDay
    PROVE  d \div 2 \in Weeks /\ (d + 1) \div 2 \in Weeks
  BY BrandDayAssumption DEF Weeks

LEMMA InitTypeInv == Init => TypeInv
  BY BrandDayAssumption, BrandClicksAssumption, BrandFaultAssumption, BrandTriesAssumption
  DEF Init, QueueInit, TypeInv, TypeOK, Assigned, QueueTypeOK, Stage, InSession, Period

\* Updating a count at one point keeps it a count.
LEMMA CountUpdated ==
    ASSUME NEW f \in [Job -> Nat], NEW x, NEW v, x \in Job => v \in Nat
    PROVE  [f EXCEPT ![x] = v] \in [Job -> Nat]
  OBVIOUS

LEMMA NextTypeInv == TypeInv /\ [Next]_vars => TypeInv'
  <1> SUFFICES ASSUME TypeInv, [Next]_vars PROVE TypeInv'
    OBVIOUS
  <1> USE BrandNoJobAssumption DEF TypeInv, TypeOK, Assigned, QueueTypeOK
  <1>a. ASSUME NEW kind \in OnDemand, NEW b \in Brands, clicks < MaxClicks
        PROVE  Fresh(kind, b) \in Job
    BY <1>a, BrandClicksAssumption DEF Fresh, Job
  <1>1. ASSUME NEW w \in Workers, PickJob(w)
        PROVE  TypeInv'
    BY <1>1, BrandTriesAssumption DEF PickJob, StartJob, Goto, Stage, InSession, dbVars
  <1>2. ASSUME NEW w \in Workers, ExhaustJob(w)
        PROVE  TypeInv'
    BY <1>2 DEF ExhaustJob, AbandonJob, FinishJob, dbVars, workerVars
  <1>3. ASSUME NEW w \in Workers, StartRun(w) \/ Agent(w)
        PROVE  TypeInv'
    BY <1>3 DEF StartRun, Agent, Goto, Raise, Stage, InSession, dbVars, arqVars
  <1>4. ASSUME NEW w \in Workers, StartSummary(w)
        PROVE  TypeInv'
    <2>1. job[w] \in Job
      BY <1>4 DEF StartSummary
    <2>2. PeriodOf(job[w]) \in Period
      <3>1. CASE job[w].kind = "weekly"
        <4>1. job[w].serial \in Weeks
          BY <2>1, <3>1 DEF Job, Weekly, OnDemand
        <4>2. IsOver(job[w].brand, job[w].serial) \in BOOLEAN
          BY DEF IsOver
        <4>3. <<job[w].serial, IsOver(job[w].brand, job[w].serial)>> \in Period
          BY <4>1, <4>2, Zenon DEF Period
        <4>. QED
          BY <3>1, <4>3 DEF PeriodOf
      <3>2. CASE job[w].kind # "weekly"
        <4>1. job[w].brand \in Brands
          BY <2>1 DEF Job, Weekly
        <4>2. ThisSunday(job[w].brand) \in Weeks
          BY <4>1, Sundays DEF ThisSunday
        <4>. QED
          BY <3>2, <4>2 DEF PeriodOf, Period
      <3>. QED
        BY <3>1, <3>2
    <2>3. period' \in [Workers -> Period]
      BY <1>4, <2>2 DEF StartSummary
    <2>4. pc' \in [Workers -> Stage] /\ Assigned'
      BY <1>4 DEF StartSummary, Goto, Stage, InSession
    <2>. QED
      BY <1>4, <2>3, <2>4 DEF StartSummary, dbVars, arqVars
  <1>5. ASSUME NEW w \in Workers, Persist(w)
        PROVE  TypeInv'
    <2>1. job[w] \in Job /\ job[w].brand \in Brands
      BY <1>5 DEF Persist, Job, Weekly
    <2>2. written' \in [Job -> Nat]
      BY <1>5, <2>1 DEF Persist
    <2>3. period[w] \in Period
      OBVIOUS
    <2>4. ends' \in [Brands -> SUBSET (Weeks \X BOOLEAN)]
      BY <1>5, <2>1, <2>3 DEF Persist, Period
    <2>. QED
      BY <1>5, <2>2, <2>4 DEF Persist, Goto, Stage, InSession, arqVars
  <1>6. ASSUME NEW w \in Workers, HandleFailure(w)
        PROVE  TypeInv'
    <2>1. job[w] \in Job => dlq[job[w]] + 1 \in Nat
      OBVIOUS
    <2>2. dlq' \in [Job -> Nat]
      BY <1>6, <2>1, CountUpdated DEF HandleFailure
    <2>. QED
      BY <1>6, <2>2 DEF HandleFailure, Goto, Stage, arqVars
  <1>7. ASSUME NEW w \in Workers, LeaveJob(w)
        PROVE  TypeInv'
    BY <1>7 DEF LeaveJob, FinishJob, RerunJob, Rest, Goto, Stage, Period, dbVars
  <1>8. ASSUME NEW w \in Workers, FailAttempt(w)
        PROVE  TypeInv'
    BY <1>8, BrandFaultAssumption
    DEF FailAttempt, Fault, Raise, Goto, Stage, InSession, dbVars, arqVars
  <1>9. ASSUME NEW w \in Workers, CrashWorker(w)
        PROVE  TypeInv'
    BY <1>9, BrandFaultAssumption DEF CrashWorker, Fault, Rest, Goto, Stage, Period, dbVars, arqVars
  <1>10. ASSUME NEW w \in Workers, CheckFails(w)
         PROVE  TypeInv'
    BY <1>10, BrandFaultAssumption DEF CheckFails, Fault, dbVars, workerVars, arqVars
  <1>11. ASSUME NEW w \in Workers, EnqueueDue(w)
         PROVE  TypeInv'
    BY <1>11 DEF EnqueueDue, EnqueueJob, dbVars, workerVars
  <1>12. ASSUME NEW w \in Workers, NEW b \in Brands, CheckBrand(w, b)
         PROVE  TypeInv'
    <2>1. LastCompletedSunday(b) \in Weeks
      BY Sundays DEF LastCompletedSunday
    <2>2. [kind |-> "weekly", brand |-> b, serial |-> LastCompletedSunday(b)] \in Job
      BY <2>1 DEF Job, Weekly
    <2>. QED
      BY <1>12, <2>2 DEF CheckBrand, dbVars, workerVars, arqVars
  <1>13. ASSUME NEW b \in Brands, NextDay(b)
         PROVE  TypeInv'
    BY <1>13, BrandDayAssumption DEF NextDay, dbVars, workerVars, arqVars
  <1>14. ASSUME NEW b \in Brands, NEW kind \in OnDemand, Generate(kind, b)
         PROVE  TypeInv'
    BY <1>14, <1>a, BrandClicksAssumption DEF Generate, EnqueueJob, dbVars, workerVars
  <1>15. ASSUME NEW r \in Requests, NEW letter \in Job, RetryFailedJob(r, letter)
         PROVE  TypeInv'
    <2>1. letter.brand \in Brands /\ RetriedKind(letter.kind) \in OnDemand
      BY DEF Job, Weekly, OnDemand, RetriedKind
    <2>2. Fresh(RetriedKind(letter.kind), letter.brand) \in Job
      BY <1>15, <1>a, <2>1 DEF RetryFailedJob
    <2>. QED
      BY <1>15, <2>2, BrandClicksAssumption DEF RetryFailedJob, EnqueueJob, dbVars, workerVars
  <1>16. ASSUME NEW r \in Requests, DeleteRetriedRow(r)
         PROVE  TypeInv'
    <2> DEFINE left == IF dlq[req[r]] > 0 THEN dlq[req[r]] - 1 ELSE dlq[req[r]]
    <2>1. dlq' = [dlq EXCEPT ![req[r]] = left]
      BY <1>16 DEF DeleteRetriedRow
    <2>2. req[r] \in Job => left \in Nat
      OBVIOUS
    <2>3. dlq' \in [Job -> Nat]
      BY <2>1, <2>2, CountUpdated
    <2>. QED
      BY <1>16, <2>3 DEF DeleteRetriedRow, workerVars, arqVars
  <1>17. ASSUME NEW r \in Requests, AbortRequest(r)
         PROVE  TypeInv'
    BY <1>17 DEF AbortRequest, dbVars, workerVars, arqVars
  <1>18. ASSUME NEW j \in Job, ExpireInProgress(j)
         PROVE  TypeInv'
    BY <1>18 DEF ExpireInProgress, RerunJob, dbVars, workerVars
  <1>19. ASSUME NEW j \in Job, ExpireResult(j)
         PROVE  TypeInv'
    BY <1>19, BrandTriesAssumption DEF ExpireResult, ForgetResult, dbVars, workerVars
  <1>20. CASE UNCHANGED vars
    BY <1>20 DEF vars, dbVars, workerVars, arqVars
  <1>. QED
    BY <1>1, <1>2, <1>3, <1>4, <1>5, <1>6, <1>7, <1>8, <1>9, <1>10, <1>11, <1>12, <1>13, <1>14,
       <1>15, <1>16, <1>17, <1>18, <1>19, <1>20
    DEF Next, WorkerStep, WorkerFault

\* The state of BrandJobs has its type in every reachable state.
THEOREM BrandJobsTypes == Spec => []TypeOK
  <1>1. Init => TypeInv
    BY InitTypeInv
  <1>2. TypeInv /\ [Next]_vars => TypeInv'
    BY NextTypeInv
  <1>3. TypeInv => TypeOK
    BY DEF TypeInv
  <1>. QED
    BY <1>1, <1>2, <1>3, PTL DEF Spec

-----------------------------------------------------------------------------
(* Who holds a job.                                                        *)

\* A worker's job is queued and in progress, and no other worker's; a job is
\* queued or finished; an attempt that has not raised leaves cleanly.
HoldInv ==
    /\ \A w \in Workers : job[w] # NoJob => job[w] \in queue \cap inProgress
    /\ \A v, w \in Workers : v # w /\ job[v] # NoJob => job[v] # job[w]
    /\ queue \cap results = {}
    /\ inProgress \subseteq queue
    /\ \A w \in Workers : pc[w] \in InSession => exit[w] = "ok"
    /\ \A w \in Workers : pc[w] = "idle" => exit[w] = "ok"

LEMMA InitHoldInv == Init => HoldInv
  BY DEF Init, QueueInit, HoldInv, InSession

LEMMA NextHoldInv == TypeInv /\ HoldInv /\ [Next]_vars => HoldInv'
  <1> SUFFICES ASSUME TypeInv, HoldInv, [Next]_vars PROVE HoldInv'
    OBVIOUS
  <1> USE BrandNoJobAssumption DEF TypeInv, TypeOK, Assigned, QueueTypeOK, HoldInv
  <1>1. ASSUME NEW w \in Workers, PickJob(w)
        PROVE  HoldInv'
    BY <1>1 DEF PickJob, StartJob, Goto, InSession
  <1>2. ASSUME NEW w \in Workers, ExhaustJob(w)
        PROVE  HoldInv'
    BY <1>2 DEF ExhaustJob, AbandonJob, FinishJob, workerVars
  <1>3. ASSUME NEW w \in Workers,
               StartRun(w) \/ StartSummary(w) \/ Agent(w) \/ Persist(w) \/ HandleFailure(w) \/ FailAttempt(w)
        PROVE  HoldInv'
    <2>1. UNCHANGED <<queue, inProgress, results, job>>
      BY <1>3 DEF StartRun, StartSummary, Agent, Persist, HandleFailure, FailAttempt, arqVars
    <2>2. \A v \in Workers : pc'[v] \in InSession \cup {"idle"} => exit'[v] = "ok"
      <3>1. CASE StartRun(w) \/ FailAttempt(w)
        BY <3>1 DEF StartRun, FailAttempt, Goto, Raise, InSession
      <3>2. CASE StartSummary(w) \/ Agent(w) \/ Persist(w) \/ HandleFailure(w)
        BY <3>2 DEF StartSummary, Agent, Persist, HandleFailure, Goto, InSession
      <3>. QED
        BY <1>3, <3>1, <3>2
    <2>. QED
      BY <2>1, <2>2
  <1>4. ASSUME NEW w \in Workers, LeaveJob(w)
        PROVE  HoldInv'
    BY <1>4 DEF LeaveJob, FinishJob, RerunJob, Rest, Goto, InSession
  <1>5. ASSUME NEW w \in Workers, CrashWorker(w)
        PROVE  HoldInv'
    BY <1>5 DEF CrashWorker, Rest, Goto, InSession, arqVars
  <1>6. ASSUME NEW w \in Workers, CheckFails(w)
        PROVE  HoldInv'
    BY <1>6 DEF CheckFails, workerVars, arqVars
  <1>7. ASSUME NEW w \in Workers, EnqueueDue(w)
        PROVE  HoldInv'
    BY <1>7 DEF EnqueueDue, EnqueueJob, Known, workerVars
  <1>8. ASSUME NEW w \in Workers, NEW b \in Brands, CheckBrand(w, b)
        PROVE  HoldInv'
    BY <1>8 DEF CheckBrand, workerVars, arqVars
  <1>9. ASSUME NEW b \in Brands, NextDay(b)
        PROVE  HoldInv'
    BY <1>9 DEF NextDay, workerVars, arqVars
  <1>10. ASSUME NEW b \in Brands, NEW kind \in OnDemand, Generate(kind, b)
         PROVE  HoldInv'
    BY <1>10 DEF Generate, EnqueueJob, Known, workerVars
  <1>11. ASSUME NEW r \in Requests, NEW letter \in Job, RetryFailedJob(r, letter)
         PROVE  HoldInv'
    BY <1>11 DEF RetryFailedJob, EnqueueJob, Known, workerVars
  <1>12. ASSUME NEW r \in Requests, DeleteRetriedRow(r) \/ AbortRequest(r)
         PROVE  HoldInv'
    BY <1>12 DEF DeleteRetriedRow, AbortRequest, workerVars, arqVars
  <1>13. ASSUME NEW j \in Job, ExpireInProgress(j)
         PROVE  HoldInv'
    BY <1>13 DEF ExpireInProgress, RerunJob, workerVars
  <1>14. ASSUME NEW j \in Job, ExpireResult(j)
         PROVE  HoldInv'
    BY <1>14 DEF ExpireResult, ForgetResult, workerVars
  <1>15. CASE UNCHANGED vars
    BY <1>15 DEF vars, workerVars, arqVars
  <1>. QED
    BY <1>1, <1>2, <1>3, <1>4, <1>5, <1>6, <1>7, <1>8, <1>9, <1>10, <1>11, <1>12, <1>13, <1>14, <1>15
    DEF Next, WorkerStep, WorkerFault

-----------------------------------------------------------------------------
(* The schedule.                                                           *)

\* A weekly job names a week that is over.
Due(j) == j.kind = "weekly" => IsOver(j.brand, j.serial)

\* So does one that a loop is about to enqueue, when the loop chose it and ever
\* after.
ChecksAreDue == \A w \in Workers : check[w] # NoJob => check[w].kind = "weekly" /\ Due(check[w])

SchedInv == ScheduleWaitsForTheWeek /\ ChecksAreDue

LEMMA InitSchedInv == Init => SchedInv
  BY DEF Init, QueueInit, SchedInv, ScheduleWaitsForTheWeek, ChecksAreDue

\* A week that is over stays over.
LEMMA OverForGood ==
    ASSUME TypeInv, NEW b \in Brands, NextDay(b), NEW j \in Job, Due(j)
    PROVE  Due(j)'
  <1>1. CASE j.kind = "weekly"
    <2>1. j.brand \in Brands /\ j.serial \in Nat
      BY <1>1 DEF Job, Weekly, Weeks, OnDemand
    <2>2. day[j.brand] \in Nat /\ (day'[j.brand] = day[j.brand] \/ day'[j.brand] = day[j.brand] + 1)
      BY <2>1 DEF NextDay, TypeInv, TypeOK
    <2>. QED
      BY <1>1, <2>1, <2>2 DEF Due, IsOver
  <1>2. CASE j.kind # "weekly"
    BY <1>2 DEF Due
  <1>. QED
    BY <1>1, <1>2

LEMMA NextSchedInv == TypeInv /\ HoldInv /\ SchedInv /\ [Next]_vars => SchedInv'
  <1> SUFFICES ASSUME TypeInv, HoldInv, SchedInv, [Next]_vars PROVE SchedInv'
    OBVIOUS
  <1> USE DEF Due, IsOver
  <1>a. /\ \A j \in queue \cup results : j \in Job /\ Due(j)
        /\ \A w \in Workers : check[w] # NoJob => check[w] \in Job /\ check[w].kind = "weekly" /\ Due(check[w])
    BY DEF TypeInv, TypeOK, QueueTypeOK, SchedInv, ScheduleWaitsForTheWeek, ChecksAreDue, Due
  \* The days stand still, and what is new in the queue or in a check is due.
  <1>b. ASSUME UNCHANGED day,
               \A j \in (queue \cup results)' : j \in queue \cup results \/ Due(j),
               \A w \in Workers : \/ check'[w] \in {check[w], NoJob}
                                 \/ (check'[w].kind = "weekly" /\ Due(check'[w]))
        PROVE  SchedInv'
    BY <1>a, <1>b DEF SchedInv, ScheduleWaitsForTheWeek, ChecksAreDue, Due, IsOver
  <1>c. ASSUME UNCHANGED <<day, queue, results, check>>
        PROVE  SchedInv'
    BY <1>b, <1>c
  <1>1. ASSUME NEW w \in Workers, PickJob(w)
        PROVE  SchedInv'
    BY <1>1, <1>c DEF PickJob, StartJob
  <1>2. ASSUME NEW w \in Workers, ExhaustJob(w)
        PROVE  SchedInv'
    BY <1>2, <1>b DEF ExhaustJob, AbandonJob, FinishJob
  <1>3. ASSUME NEW w \in Workers,
               StartRun(w) \/ StartSummary(w) \/ Agent(w) \/ Persist(w) \/ HandleFailure(w) \/ FailAttempt(w)
        PROVE  SchedInv'
    BY <1>3, <1>c DEF StartRun, StartSummary, Agent, Persist, HandleFailure, FailAttempt, arqVars
  <1>4. ASSUME NEW w \in Workers, LeaveJob(w)
        PROVE  SchedInv'
    <2>1. job[w] \in queue
      BY <1>4, BrandNoJobAssumption DEF LeaveJob, HoldInv, TypeInv, Assigned
    <2>. QED
      BY <1>4, <1>b, <2>1 DEF LeaveJob, FinishJob, RerunJob
  <1>5. ASSUME NEW w \in Workers, CrashWorker(w) \/ CheckFails(w)
        PROVE  SchedInv'
    BY <1>5, <1>b DEF CrashWorker, CheckFails, arqVars, TypeInv, TypeOK
  <1>6. ASSUME NEW w \in Workers, EnqueueDue(w)
        PROVE  SchedInv'
    BY <1>6, <1>a, <1>b DEF EnqueueDue, EnqueueJob, TypeInv, TypeOK
  <1>7. ASSUME NEW w \in Workers, NEW b \in Brands, CheckBrand(w, b)
        PROVE  SchedInv'
    <2> DEFINE next == [kind |-> "weekly", brand |-> b, serial |-> LastCompletedSunday(b)]
    <2>1. day[b] \in Nat
      BY BrandDayAssumption DEF TypeInv, TypeOK
    <2>2. Due(next)
      BY <2>1 DEF Due, IsOver, LastCompletedSunday
    <2>3. \A v \in Workers : check'[v] \in {check[v], NoJob} \/ check'[v] = next
      BY <1>7 DEF CheckBrand, TypeInv, TypeOK
    <2>. QED
      BY <1>7, <1>b, <2>2, <2>3 DEF CheckBrand, arqVars
  <1>8. ASSUME NEW b \in Brands, NextDay(b)
        PROVE  SchedInv'
    <2>1. \A j \in Job : Due(j) => Due(j)'
      BY <1>8, OverForGood
    <2>. QED
      BY <1>8, <1>a, <2>1 DEF NextDay, arqVars, SchedInv, ScheduleWaitsForTheWeek, ChecksAreDue, Due
  <1>9. ASSUME NEW b \in Brands, NEW kind \in OnDemand, Generate(kind, b)
        PROVE  SchedInv'
    BY <1>9, <1>b DEF Generate, EnqueueJob, Fresh, Due, OnDemand
  <1>10. ASSUME NEW r \in Requests, NEW letter \in Job, RetryFailedJob(r, letter)
         PROVE  SchedInv'
    BY <1>10, <1>b DEF RetryFailedJob, EnqueueJob, Fresh, Due, RetriedKind
  <1>11. ASSUME NEW r \in Requests, DeleteRetriedRow(r) \/ AbortRequest(r)
         PROVE  SchedInv'
    BY <1>11, <1>c DEF DeleteRetriedRow, AbortRequest, arqVars
  <1>12. ASSUME NEW j \in Job, ExpireInProgress(j) \/ ExpireResult(j)
         PROVE  SchedInv'
    BY <1>12, <1>b DEF ExpireInProgress, RerunJob, ExpireResult, ForgetResult
  <1>13. CASE UNCHANGED vars
    BY <1>13, <1>c DEF vars, arqVars
  <1>. QED
    BY <1>1, <1>2, <1>3, <1>4, <1>5, <1>6, <1>7, <1>8, <1>9, <1>10, <1>11, <1>12, <1>13
    DEF Next, WorkerStep, WorkerFault

\* Whatever the workers, clicks and faults do, and whenever the days pass, every
\* weekly key that arq holds names a week that is over.
THEOREM ScheduleNeverEarly == Spec => []ScheduleWaitsForTheWeek
  <1> DEFINE Inv == TypeInv /\ HoldInv /\ SchedInv
  <1>1. Init => Inv
    BY InitTypeInv, InitHoldInv, InitSchedInv
  <1>2. Inv /\ [Next]_vars => Inv'
    BY NextTypeInv, NextHoldInv, NextSchedInv
  <1>3. Inv => ScheduleWaitsForTheWeek
    BY DEF SchedInv
  <1>. QED
    BY <1>1, <1>2, <1>3, PTL DEF Spec

-----------------------------------------------------------------------------
(* Rows again need a fault.                                                *)

\* What keeps a written job from being asked for again: a suffix was handed out
\* before its job was queued, a written week has its summary, and the summary a
\* worker computes for the schedule is for the week of its key.
MarksInv ==
    /\ \A j \in Job : j.kind \in OnDemand /\ (j \in queue \/ written[j] > 0) => j.serial <= clicks
    /\ \A j \in Weekly : written[j] > 0 => Summarised(j.brand, j.serial)
    /\ \A w \in Workers : pc[w] \in {"agent", "persist"} /\ job[w].kind = "weekly" =>
         \E over \in BOOLEAN : period[w] = <<job[w].serial, over>>

\* The job cannot be written again before a fault: it finished, its worker has
\* committed, or it is neither queued nor about to be.
Settled(j) ==
    \/ j \in results
    \/ \E w \in Workers : job[w] = j /\ pc[w] = "committed"
    \/ j \notin queue /\ \A w \in Workers : check[w] # j

RowsInv == \A j \in Job : written[j] <= faults \/ (written[j] <= faults + 1 /\ Settled(j))

LEMMA InitMarksInv == Init => MarksInv /\ RowsInv
  BY DEF Init, QueueInit, MarksInv, RowsInv, Weekly, Job

LEMMA NextMarksInv == TypeInv /\ HoldInv /\ SchedInv /\ MarksInv /\ [Next]_vars => MarksInv'
  <1> SUFFICES ASSUME TypeInv, HoldInv, SchedInv, MarksInv, [Next]_vars PROVE MarksInv'
    OBVIOUS
  <1> USE BrandNoJobAssumption DEF TypeInv, TypeOK, Assigned, QueueTypeOK
  \* Nothing new is written, and what is new in the queue was given a suffix.
  <1>a. ASSUME UNCHANGED <<written, ends>>, clicks' \in Nat, clicks <= clicks',
               \A j \in queue' : j \in queue \/ j.kind = "weekly" \/ j.serial <= clicks',
               \A w \in Workers : \/ pc'[w] \notin {"agent", "persist"}
                                 \/ (pc'[w] = pc[w] /\ job'[w] = job[w] /\ period'[w] = period[w])
        PROVE  MarksInv'
    <2>1. \A j \in Job : j.kind \in OnDemand => j.serial \in Nat /\ j.kind # "weekly"
      BY DEF Job, Weekly, Weeks, OnDemand
    <2>2. ASSUME NEW j \in Job, j.kind \in OnDemand, j \in queue' \/ written'[j] > 0
          PROVE  j.serial <= clicks'
      <3>1. j.serial <= clicks => j.serial <= clicks'
        BY <1>a, <2>1, <2>2
      <3>. QED
        BY <1>a, <2>1, <2>2, <3>1 DEF MarksInv
    <2>3. \A j \in Weekly : written'[j] > 0 => Summarised(j.brand, j.serial)'
      BY <1>a DEF MarksInv, Summarised
    <2>4. \A w \in Workers : pc'[w] \in {"agent", "persist"} /\ job'[w].kind = "weekly" =>
            \E over \in BOOLEAN : period'[w] = <<job'[w].serial, over>>
      BY <1>a DEF MarksInv
    <2>. QED
      BY <2>2, <2>3, <2>4 DEF MarksInv
  <1>1. ASSUME NEW w \in Workers, PickJob(w)
        PROVE  MarksInv'
    BY <1>1, <1>a DEF PickJob, StartJob, Goto, dbVars
  <1>2. ASSUME NEW w \in Workers, ExhaustJob(w)
        PROVE  MarksInv'
    BY <1>2, <1>a DEF ExhaustJob, AbandonJob, FinishJob, dbVars, workerVars
  <1>3. ASSUME NEW w \in Workers, StartRun(w)
        PROVE  MarksInv'
    <2>1. \A v \in Workers : v # w => pc'[v] = pc[v]
      BY <1>3 DEF StartRun, Goto, Raise
    <2>2. job[w].kind # "weekly"
      BY <1>3 DEF StartRun
    <2>. QED
      BY <1>3, <2>1, <2>2 DEF StartRun, MarksInv, Summarised, dbVars, arqVars
  <1>4. ASSUME NEW w \in Workers, StartSummary(w)
        PROVE  MarksInv'
    <2>1. \A v \in Workers : v # w => pc'[v] = pc[v] /\ period'[v] = period[v]
      BY <1>4 DEF StartSummary, Goto
    <2>2. period'[w] = PeriodOf(job[w])
      BY <1>4 DEF StartSummary
    <2>3. IsOver(job[w].brand, job[w].serial) \in BOOLEAN
      BY DEF IsOver
    <2>4. job[w].kind = "weekly" => \E over \in BOOLEAN : period'[w] = <<job[w].serial, over>>
      BY <2>2, <2>3 DEF PeriodOf
    <2>. QED
      BY <1>4, <2>1, <2>4 DEF StartSummary, MarksInv, Summarised, dbVars, arqVars
  <1>5. ASSUME NEW w \in Workers, Agent(w)
        PROVE  MarksInv'
    BY <1>5 DEF Agent, Goto, MarksInv, Summarised, dbVars, arqVars
  <1>6. ASSUME NEW w \in Workers, Persist(w)
        PROVE  MarksInv'
    <2>1. job[w] \in Job /\ job[w] \in queue
      BY <1>6 DEF Persist, HoldInv
    <2>2. \A j \in Job : j # job[w] => written'[j] = written[j]
      BY <1>6 DEF Persist
    <2>3. \A b \in Brands : ends[b] \subseteq ends'[b]
      BY <1>6 DEF Persist
    <2>4. job[w].kind = "weekly" => Summarised(job[w].brand, job[w].serial)'
      <3>1. SUFFICES ASSUME job[w].kind = "weekly"
                     PROVE  Summarised(job[w].brand, job[w].serial)'
        OBVIOUS
      <3>2. PICK over \in BOOLEAN : period[w] = <<job[w].serial, over>>
        BY <1>6, <3>1 DEF MarksInv, Persist
      <3>3. job[w].brand \in Brands
        BY <2>1 DEF Job, Weekly
      <3>4. period[w] \in ends'[job[w].brand]
        BY <1>6, <3>2, <3>3 DEF Persist
      <3>. QED
        BY <1>6, <3>2, <3>4 DEF Persist, Summarised
    <2>5. \A j \in Weekly : written'[j] > 0 => Summarised(j.brand, j.serial)'
      <3>1. ASSUME NEW j \in Weekly, j # job[w], written'[j] > 0
            PROVE  Summarised(j.brand, j.serial)'
        <4>1. j \in Job /\ j.brand \in Brands
          BY DEF Job, Weekly
        <4>2. Summarised(j.brand, j.serial)
          BY <2>2, <3>1, <4>1 DEF MarksInv
        <4>. QED
          BY <2>3, <4>1, <4>2 DEF Summarised
      <3>2. \A j \in Weekly : j.kind = "weekly"
        BY DEF Weekly
      <3>. QED
        BY <1>6, <2>4, <3>1, <3>2 DEF Persist, Summarised
    <2>6. \A j \in Job : j.kind \in OnDemand /\ (j \in queue' \/ written'[j] > 0) => j.serial <= clicks'
      BY <1>6, <2>1, <2>2 DEF Persist, MarksInv, arqVars
    <2>7. \A v \in Workers : pc'[v] \in {"agent", "persist"} => v # w /\ pc'[v] = pc[v]
      BY <1>6 DEF Persist, Goto
    <2>8. \A v \in Workers : pc'[v] \in {"agent", "persist"} /\ job'[v].kind = "weekly" =>
            \E over \in BOOLEAN : period'[v] = <<job'[v].serial, over>>
      BY <1>6, <2>7 DEF Persist, MarksInv
    <2>. QED
      BY <2>5, <2>6, <2>8 DEF MarksInv
  <1>7. ASSUME NEW w \in Workers, HandleFailure(w)
        PROVE  MarksInv'
    BY <1>7, <1>a DEF HandleFailure, Goto, arqVars
  <1>8. ASSUME NEW w \in Workers, FailAttempt(w)
        PROVE  MarksInv'
    BY <1>8, <1>a DEF FailAttempt, Goto, Raise, dbVars, arqVars
  <1>9. ASSUME NEW w \in Workers, LeaveJob(w)
        PROVE  MarksInv'
    BY <1>9, <1>a DEF LeaveJob, FinishJob, RerunJob, Rest, Goto, dbVars
  <1>10. ASSUME NEW w \in Workers, CrashWorker(w)
         PROVE  MarksInv'
    BY <1>10, <1>a DEF CrashWorker, Rest, Goto, dbVars, arqVars
  <1>11. ASSUME NEW w \in Workers, CheckFails(w)
         PROVE  MarksInv'
    BY <1>11, <1>a DEF CheckFails, dbVars, workerVars, arqVars
  <1>12. ASSUME NEW w \in Workers, EnqueueDue(w)
         PROVE  MarksInv'
    BY <1>12, <1>a DEF EnqueueDue, EnqueueJob, SchedInv, ChecksAreDue, dbVars, workerVars
  <1>13. ASSUME NEW w \in Workers, NEW b \in Brands, CheckBrand(w, b)
         PROVE  MarksInv'
    BY <1>13, <1>a DEF CheckBrand, dbVars, workerVars, arqVars
  <1>14. ASSUME NEW b \in Brands, NextDay(b)
         PROVE  MarksInv'
    BY <1>14, <1>a DEF NextDay, dbVars, workerVars, arqVars
  <1>15. ASSUME NEW b \in Brands, NEW kind \in OnDemand, Generate(kind, b)
         PROVE  MarksInv'
    BY <1>15, <1>a, BrandClicksAssumption DEF Generate, EnqueueJob, Fresh, dbVars, workerVars
  <1>16. ASSUME NEW r \in Requests, NEW letter \in Job, RetryFailedJob(r, letter)
         PROVE  MarksInv'
    BY <1>16, <1>a, BrandClicksAssumption DEF RetryFailedJob, EnqueueJob, Fresh, dbVars, workerVars
  <1>17. ASSUME NEW r \in Requests, DeleteRetriedRow(r) \/ AbortRequest(r)
         PROVE  MarksInv'
    BY <1>17, <1>a DEF DeleteRetriedRow, AbortRequest, dbVars, workerVars, arqVars
  <1>18. ASSUME NEW j \in Job, ExpireInProgress(j) \/ ExpireResult(j)
         PROVE  MarksInv'
    BY <1>18, <1>a DEF ExpireInProgress, RerunJob, ExpireResult, ForgetResult, dbVars, workerVars
  <1>19. CASE UNCHANGED vars
    BY <1>19, <1>a DEF vars, dbVars, workerVars, arqVars
  <1>. QED
    BY <1>1, <1>2, <1>3, <1>4, <1>5, <1>6, <1>7, <1>8, <1>9, <1>10, <1>11, <1>12, <1>13, <1>14,
       <1>15, <1>16, <1>17, <1>18, <1>19
    DEF Next, WorkerStep, WorkerFault

LEMMA NextRowsInv == TypeInv /\ HoldInv /\ SchedInv /\ MarksInv /\ RowsInv /\ [Next]_vars => RowsInv'
  <1> SUFFICES ASSUME TypeInv, HoldInv, SchedInv, MarksInv, RowsInv, [Next]_vars PROVE RowsInv'
    OBVIOUS
  <1> USE BrandNoJobAssumption, BrandFaultAssumption DEF TypeInv, TypeOK, Assigned, QueueTypeOK
  \* A fault pays for one row of each job.
  <1>a. ASSUME UNCHANGED written, Fault
        PROVE  RowsInv'
    BY <1>a DEF Fault, RowsInv
  \* Without rows or faults, what was settled and written stays settled.
  <1>b. ASSUME UNCHANGED <<written, faults>>,
               \A j \in Job : written[j] > 0 /\ Settled(j) => Settled(j)'
        PROVE  RowsInv'
    BY <1>b DEF RowsInv
  <1>c. ASSUME UNCHANGED <<written, faults, queue, check>>, results \subseteq results',
               \A w \in Workers : pc[w] = "committed" => pc'[w] = "committed" /\ job'[w] = job[w]
        PROVE  RowsInv'
    BY <1>b, <1>c DEF Settled
  <1>1. ASSUME NEW w \in Workers, PickJob(w)
        PROVE  RowsInv'
    BY <1>1, <1>c DEF PickJob, StartJob, Goto, dbVars
  <1>2. ASSUME NEW w \in Workers, ExhaustJob(w)
        PROVE  RowsInv'
    BY <1>2, <1>b DEF ExhaustJob, AbandonJob, FinishJob, Settled, dbVars, workerVars
  <1>3. ASSUME NEW w \in Workers, StartRun(w) \/ StartSummary(w) \/ Agent(w) \/ HandleFailure(w)
        PROVE  RowsInv'
    <2>1. pc[w] # "committed" /\ \A v \in Workers : v # w => pc'[v] = pc[v]
      BY <1>3 DEF StartRun, StartSummary, Agent, HandleFailure, Goto, Raise
    <2>. QED
      BY <1>3, <1>c, <2>1 DEF StartRun, StartSummary, Agent, HandleFailure, dbVars, arqVars
  <1>4. ASSUME NEW w \in Workers, Persist(w)
        PROVE  RowsInv'
    <2> DEFINE j == job[w]
    <2>1. j \in Job /\ j \in queue /\ j \notin results /\ pc[w] = "persist"
      BY <1>4 DEF Persist, HoldInv
    <2>2. ~Settled(j)
      BY <2>1 DEF Settled, HoldInv
    <2>3. written'[j] = written[j] + 1 /\ written[j] <= faults /\ UNCHANGED faults
      BY <1>4, <2>1, <2>2 DEF RowsInv, Persist
    <2>4. job'[w] = job[w] /\ pc'[w] = "committed"
      BY <1>4 DEF Persist, Goto
    <2>5. Settled(job[w])'
      BY <2>4 DEF Settled
    <2>6. ASSUME NEW i \in Job, i # j, Settled(i)
          PROVE  Settled(i)'
      BY <1>4, <2>1, <2>6 DEF Settled, Persist, Goto, arqVars
    <2>7. \A i \in Job : i # j => written'[i] = written[i]
      BY <1>4 DEF Persist
    <2>8. ASSUME NEW i \in Job
          PROVE  written'[i] <= faults' \/ (written'[i] <= faults' + 1 /\ Settled(i)')
      <3>1. CASE i = j
        <4>1. Settled(i)'
          BY <3>1, <2>4 DEF Settled
        <4>. QED
          BY <2>3, <3>1, <4>1
      <3>2. CASE i # j
        BY <2>3, <2>6, <2>7, <3>2 DEF RowsInv
      <3>. QED
        BY <3>1, <3>2
    <2>. QED
      BY <2>8 DEF RowsInv
  <1>5. ASSUME NEW w \in Workers, FailAttempt(w) \/ CrashWorker(w) \/ CheckFails(w)
        PROVE  RowsInv'
    BY <1>5, <1>a DEF FailAttempt, CrashWorker, CheckFails, dbVars
  \* An attempt that committed leaves cleanly, so its job finishes.
  <1>6. ASSUME NEW w \in Workers, LeaveJob(w)
        PROVE  RowsInv'
    <2> DEFINE j == job[w]
    <2>1. j \in Job /\ j \in queue /\ j \notin results
      BY <1>6 DEF LeaveJob, HoldInv
    <2>2. pc[w] = "committed" => exit[w] = "ok"
      BY DEF HoldInv, InSession
    <2>3. \A v \in Workers : v # w => job[v] # j /\ pc'[v] = pc[v] /\ job'[v] = job[v]
      BY <1>6, <2>1 DEF LeaveJob, Rest, Goto, HoldInv
    <2>4. ASSUME NEW i \in Job, Settled(i)
          PROVE  Settled(i)'
      <3>1. CASE i = j
        <4>1. pc[w] = "committed"
          BY <2>1, <2>3, <2>4, <3>1 DEF Settled
        <4>2. results' = results \cup {j}
          BY <1>6, <2>2, <4>1 DEF LeaveJob, FinishJob
        <4>. QED
          BY <3>1, <4>2 DEF Settled
      <3>2. CASE i # j
        <4>1. i \in results => i \in results'
          BY <1>6 DEF LeaveJob, FinishJob, RerunJob
        <4>2. i \notin queue => i \notin queue'
          BY <1>6 DEF LeaveJob, FinishJob, RerunJob
        <4>3. UNCHANGED check
          BY <1>6 DEF LeaveJob
        <4>. QED
          BY <2>3, <2>4, <3>2, <4>1, <4>2, <4>3 DEF Settled
      <3>. QED
        BY <3>1, <3>2
    <2>. QED
      BY <1>6, <1>b, <2>4 DEF LeaveJob, dbVars
  \* arq refuses a job that finished or is held, and no check is for another one.
  <1>7. ASSUME NEW w \in Workers, EnqueueDue(w)
        PROVE  RowsInv'
    <2>1. ASSUME NEW i \in Job, Settled(i)
          PROVE  Settled(i)'
      <3>1. UNCHANGED <<results, pc, job>>
        BY <1>7 DEF EnqueueDue, EnqueueJob, workerVars
      <3>2. i \notin queue /\ (\A v \in Workers : check[v] # i) => i \notin queue'
        BY <1>7 DEF EnqueueDue, EnqueueJob
      <3>3. (\A v \in Workers : check[v] # i) => \A v \in Workers : check'[v] # i
        BY <1>7 DEF EnqueueDue
      <3>. QED
        BY <2>1, <3>1, <3>2, <3>3 DEF Settled
    <2>. QED
      BY <1>7, <1>b, <2>1 DEF EnqueueDue, dbVars
  \* The schedule's check finds the row of a week that is written.
  <1>8. ASSUME NEW w \in Workers, NEW b \in Brands, CheckBrand(w, b)
        PROVE  RowsInv'
    <2> DEFINE k == LastCompletedSunday(b)
               due == [kind |-> "weekly", brand |-> b, serial |-> k]
    <2>1. due \in Weekly
      BY Sundays DEF LastCompletedSunday, Weekly
    <2>2. written[due] = 0
      <3>1. ~Summarised(b, k)
        BY <1>8 DEF CheckBrand, Done
      <3>2. due.brand = b /\ due.serial = k
        OBVIOUS
      <3>3. ~(written[due] > 0)
        BY <2>1, <3>1, <3>2 DEF MarksInv, Summarised
      <3>. QED
        BY <2>1, <3>3 DEF Job
    <2>3. ASSUME NEW i \in Job, written[i] > 0, Settled(i)
          PROVE  Settled(i)'
      <3>1. i # due
        BY <2>2, <2>3
      <3>2. check' = [check EXCEPT ![w] = due]
        BY <1>8 DEF CheckBrand
      <3>3. UNCHANGED <<queue, results, pc, job>>
        BY <1>8 DEF CheckBrand, workerVars, arqVars
      <3>. QED
        BY <2>3, <3>1, <3>2, <3>3 DEF Settled
    <2>. QED
      BY <1>8, <1>b, <2>3 DEF CheckBrand, dbVars
  <1>9. ASSUME NEW b \in Brands, NextDay(b)
        PROVE  RowsInv'
    BY <1>9, <1>c DEF NextDay, dbVars, workerVars, arqVars
  \* A new suffix names a job that was never written.
  <1>10. ASSUME NEW kind \in OnDemand, NEW b \in Brands, clicks < MaxClicks,
                EnqueueJob(Fresh(kind, b)), UNCHANGED <<written, check, pc, job, faults>>
         PROVE  RowsInv'
    <2>1. Fresh(kind, b) \in Job /\ Fresh(kind, b).kind \in OnDemand /\ Fresh(kind, b).serial = clicks + 1
      BY <1>10, BrandClicksAssumption DEF Fresh, Job
    <2>2. ~(written[Fresh(kind, b)] > 0)
      BY <2>1 DEF MarksInv
    <2>. QED
      BY <1>10, <1>b, <2>2 DEF EnqueueJob, Settled
  <1>11. ASSUME NEW b \in Brands, NEW kind \in OnDemand, Generate(kind, b)
         PROVE  RowsInv'
    BY <1>10, <1>11 DEF Generate, dbVars, workerVars
  <1>12. ASSUME NEW r \in Requests, NEW letter \in Job, RetryFailedJob(r, letter)
         PROVE  RowsInv'
    <2>1. letter.brand \in Brands /\ RetriedKind(letter.kind) \in OnDemand
      BY DEF Job, Weekly, OnDemand, RetriedKind
    <2>. QED
      BY <1>10, <1>12, <2>1 DEF RetryFailedJob, dbVars, workerVars
  <1>13. ASSUME NEW r \in Requests, DeleteRetriedRow(r) \/ AbortRequest(r)
         PROVE  RowsInv'
    BY <1>13, <1>c DEF DeleteRetriedRow, AbortRequest, dbVars, workerVars, arqVars
  <1>14. ASSUME NEW j \in Job, ExpireInProgress(j)
         PROVE  RowsInv'
    BY <1>14, <1>c DEF ExpireInProgress, RerunJob, dbVars, workerVars
  \* A result that expires is that of a job nobody is about to ask for.
  <1>15. ASSUME NEW j \in Job, ExpireResult(j)
         PROVE  RowsInv'
    <2>1. ASSUME NEW i \in Job, written[i] > 0, Settled(i)
          PROVE  Settled(i)'
      BY <1>15, <2>1 DEF ExpireResult, ForgetResult, Settled, HoldInv, workerVars
    <2>. QED
      BY <1>15, <1>b, <2>1 DEF ExpireResult, dbVars
  <1>16. CASE UNCHANGED vars
    BY <1>16, <1>c DEF vars, dbVars, workerVars, arqVars
  <1>. QED
    BY <1>1, <1>2, <1>3, <1>4, <1>5, <1>6, <1>7, <1>8, <1>9, <1>11, <1>12, <1>13, <1>14, <1>15, <1>16
    DEF Next, WorkerStep, WorkerFault

\* However clicks, two schedules, retries and expiring keys interleave, a job's
\* rows are committed once, and once more for each fault at most.
THEOREM RowsAreWrittenOnce == Spec => []RowsAgainNeedAFault
  <1> DEFINE Inv == TypeInv /\ HoldInv /\ SchedInv /\ MarksInv /\ RowsInv
  <1>1. Init => Inv
    BY InitTypeInv, InitHoldInv, InitSchedInv, InitMarksInv
  <1>2. Inv /\ [Next]_vars => Inv'
    BY NextTypeInv, NextHoldInv, NextSchedInv, NextMarksInv, NextRowsInv
  <1>3. Inv => RowsAgainNeedAFault
    BY DEF TypeInv, TypeOK, RowsInv, RowsAgainNeedAFault
  <1>. QED
    BY <1>1, <1>2, <1>3, PTL DEF Spec
-----------------------------------------------------------------------------
(* The brand's jobs implement BrandLifecycle.                              *)

\* The period a worker is about to write: none before its summary starts, the
\* week of its key, over, for the schedule, and for a click none or a week whose
\* Sunday has begun.
Fits(w) ==
    IF job[w].kind = "weekly" THEN period[w] = <<job[w].serial, TRUE>>
    ELSE \/ period[w] = <<>>
         \/ /\ job[w].kind = "summary"
            /\ \E k \in 1..SundayCounts(job[w].brand) : period[w] = <<k, FALSE>>

PeriodInv ==
    \A w \in Workers :
        /\ pc[w] \in {"idle", "start"} => period[w] = <<>>
        /\ pc[w] \in {"agent", "persist"} => Fits(w)

\* A suffix that was asked for names one job.
Asked(j) == j.kind # "weekly" /\ (j \in queue \/ written[j] > 0)
SuffixInv == \A i, j \in Job : Asked(i) /\ Asked(j) /\ i.serial = j.serial => i = j

LEMMA InitPaidInv == Init => PeriodInv /\ SuffixInv
  BY DEF Init, QueueInit, PeriodInv, SuffixInv, Asked

\* A Sunday that has begun stays one.
LEMMA BegunForGood ==
    ASSUME NEW d \in Nat, NEW e \in Nat, d <= e, NEW k \in 1..((d + 1) \div 2)
    PROVE  k \in 1..((e + 1) \div 2)
  OBVIOUS

LEMMA NextPeriodInv == TypeInv /\ HoldInv /\ SchedInv /\ PeriodInv /\ [Next]_vars => PeriodInv'
  <1> SUFFICES ASSUME TypeInv, HoldInv, SchedInv, PeriodInv, [Next]_vars PROVE PeriodInv'
    OBVIOUS
  <1> USE BrandNoJobAssumption DEF TypeInv, TypeOK, Assigned, QueueTypeOK
  <1>a. ASSUME NEW w \in Workers
        PROVE  /\ pc[w] \in {"idle", "start"} => period[w] = <<>>
               /\ pc[w] \in {"agent", "persist"} => Fits(w)
    BY DEF PeriodInv
  \* The days stand still, and a worker keeps its period, has none or is past
  \* the write.
  <1>b. ASSUME UNCHANGED day,
               \A w \in Workers : \/ pc'[w] \notin {"idle", "start", "agent", "persist"}
                                  \/ pc'[w] \in {"idle", "start"} /\ period'[w] = <<>>
                                  \/ pc'[w] = pc[w] /\ job'[w] = job[w] /\ period'[w] = period[w]
        PROVE  PeriodInv'
    <2>1. ASSUME NEW w \in Workers, pc'[w] = pc[w], job'[w] = job[w], period'[w] = period[w], Fits(w)
          PROVE  Fits(w)'
      BY <1>b, <2>1 DEF Fits, SundayCounts
    <2>2. ASSUME NEW w \in Workers
          PROVE  /\ pc'[w] \in {"idle", "start"} => period'[w] = <<>>
                 /\ pc'[w] \in {"agent", "persist"} => Fits(w)'
      BY <1>a, <1>b, <2>1
    <2>. QED
      BY <2>2 DEF PeriodInv
  \* One worker goes on, with a period that fits where it is about to write it.
  <1>c. ASSUME NEW w \in Workers, UNCHANGED day,
               \A v \in Workers : v # w => pc'[v] = pc[v] /\ job'[v] = job[v] /\ period'[v] = period[v],
               \/ pc'[w] \in {"idle", "start"} /\ period'[w] = <<>>
               \/ pc'[w] \in {"committed", "handling", "raised"}
               \/ pc'[w] \in {"agent", "persist", "handling"} /\ Fits(w)'
        PROVE  PeriodInv'
    <2>1. ASSUME NEW v \in Workers, v # w, Fits(v)
          PROVE  Fits(v)'
      BY <1>c, <2>1 DEF Fits, SundayCounts
    <2>2. ASSUME NEW v \in Workers, v # w
          PROVE  /\ pc'[v] \in {"idle", "start"} => period'[v] = <<>>
                 /\ pc'[v] \in {"agent", "persist"} => Fits(v)'
      BY <1>a, <1>c, <2>1, <2>2
    <2>3. /\ pc'[w] \in {"idle", "start"} => period'[w] = <<>>
          /\ pc'[w] \in {"agent", "persist"} => Fits(w)'
      BY <1>c
    <2>4. ASSUME NEW v \in Workers
          PROVE  /\ pc'[v] \in {"idle", "start"} => period'[v] = <<>>
                 /\ pc'[v] \in {"agent", "persist"} => Fits(v)'
      <3>1. CASE v = w
        BY <2>3, <3>1
      <3>2. CASE v # w
        BY <2>2, <3>2
      <3>. QED
        BY <3>1, <3>2
    <2>. QED
      BY <2>4 DEF PeriodInv
  <1>1. ASSUME NEW w \in Workers, PickJob(w)
        PROVE  PeriodInv'
    <2>1. pc'[w] = "start" /\ period'[w] = <<>>
      BY <1>1, <1>a DEF PickJob, Goto
    <2>2. \A v \in Workers : v # w => pc'[v] = pc[v] /\ job'[v] = job[v] /\ period'[v] = period[v]
      BY <1>1 DEF PickJob, Goto
    <2>3. UNCHANGED day
      BY <1>1 DEF PickJob
    <2>. QED
      BY <1>c, <2>1, <2>2, <2>3
  <1>2. ASSUME NEW w \in Workers,
               ExhaustJob(w) \/ CheckFails(w) \/ EnqueueDue(w)
        PROVE  PeriodInv'
    BY <1>2, <1>b DEF ExhaustJob, CheckFails, EnqueueDue, workerVars
  \* Only a run without a period goes to its agent this way.
  <1>3. ASSUME NEW w \in Workers, StartRun(w)
        PROVE  PeriodInv'
    <2>1. \A v \in Workers : v # w => pc'[v] = pc[v] /\ job'[v] = job[v] /\ period'[v] = period[v]
      BY <1>3 DEF StartRun, Goto, Raise
    <2>2. pc'[w] \in {"agent", "handling"} /\ job'[w] = job[w] /\ period'[w] = <<>> /\ job[w].kind # "weekly"
      BY <1>3, <1>a DEF StartRun, Goto, Raise
    <2>3. Fits(w)'
      BY <2>2 DEF Fits
    <2>. QED
      BY <1>3, <1>c, <2>1, <2>2, <2>3 DEF StartRun
  <1>4. ASSUME NEW w \in Workers, StartSummary(w)
        PROVE  PeriodInv'
    <2>1. \A v \in Workers : v # w => pc'[v] = pc[v] /\ job'[v] = job[v] /\ period'[v] = period[v]
      BY <1>4 DEF StartSummary, Goto
    <2>2. pc'[w] \in {"agent", "persist"} /\ job'[w] = job[w] /\ period'[w] = PeriodOf(job[w])
      BY <1>4 DEF StartSummary, Goto
    <2>3. job[w] \in Job /\ job[w] \in queue
      BY <1>4 DEF StartSummary, HoldInv
    <2>4. CASE job[w].kind = "weekly"
      <3>1. IsOver(job[w].brand, job[w].serial) = TRUE
        BY <2>3, <2>4 DEF SchedInv, ScheduleWaitsForTheWeek, IsOver
      <3>2. period'[w] = <<job[w].serial, TRUE>>
        BY <2>2, <2>4, <3>1 DEF PeriodOf
      <3>3. Fits(w)'
        BY <2>2, <2>4, <3>2 DEF Fits
      <3>. QED
        BY <1>4, <1>c, <2>1, <2>2, <3>3 DEF StartSummary
    <2>5. CASE job[w].kind # "weekly"
      <3>1. job[w].kind = "summary"
        BY <1>4, <2>5 DEF StartSummary
      <3>2. job[w].brand \in Brands
        BY <2>3 DEF Job, Weekly
      <3>3. day[job[w].brand] \in Nat /\ day[job[w].brand] >= 2
        BY <3>2, BrandDayAssumption
      <3>4. ThisSunday(job[w].brand) \in 1..SundayCounts(job[w].brand)
        BY <3>3 DEF ThisSunday, SundayCounts
      <3>5. \/ period'[w] = <<>>
            \/ \E k \in 1..SundayCounts(job[w].brand) : period'[w] = <<k, FALSE>>
        BY <2>2, <2>5, <3>4 DEF PeriodOf
      <3>6. UNCHANGED day
        BY <1>4 DEF StartSummary
      <3>7. Fits(w)'
        BY <2>2, <2>5, <3>1, <3>5, <3>6 DEF Fits, SundayCounts
      <3>. QED
        BY <1>c, <2>1, <2>2, <3>6, <3>7
    <2>. QED
      BY <2>4, <2>5
  <1>5. ASSUME NEW w \in Workers, Agent(w)
        PROVE  PeriodInv'
    <2>1. \A v \in Workers : v # w => pc'[v] = pc[v] /\ job'[v] = job[v] /\ period'[v] = period[v]
      BY <1>5 DEF Agent, Goto
    <2>2. pc[w] = "agent" /\ pc'[w] = "persist" /\ UNCHANGED <<day, job, period>>
      BY <1>5 DEF Agent, Goto
    <2>3. Fits(w)'
      BY <1>a, <2>2 DEF Fits, SundayCounts
    <2>. QED
      BY <1>c, <2>1, <2>2, <2>3
  <1>6. ASSUME NEW w \in Workers, Persist(w) \/ HandleFailure(w) \/ FailAttempt(w)
        PROVE  PeriodInv'
    <2>1. \A v \in Workers : v # w => pc'[v] = pc[v] /\ job'[v] = job[v] /\ period'[v] = period[v]
      BY <1>6 DEF Persist, HandleFailure, FailAttempt, Goto, Raise
    <2>2. pc'[w] \in {"committed", "raised", "handling"}
      BY <1>6 DEF Persist, HandleFailure, FailAttempt, Goto, Raise
    <2>3. UNCHANGED day
      BY <1>6 DEF Persist, HandleFailure, FailAttempt
    <2>. QED
      BY <1>c, <2>1, <2>2, <2>3
  <1>7. ASSUME NEW w \in Workers, LeaveJob(w) \/ CrashWorker(w)
        PROVE  PeriodInv'
    <2>1. \A v \in Workers : v # w => pc'[v] = pc[v] /\ job'[v] = job[v] /\ period'[v] = period[v]
      BY <1>7 DEF LeaveJob, CrashWorker, Rest, Goto
    <2>2. pc'[w] = "idle" /\ period'[w] = <<>>
      BY <1>7 DEF LeaveJob, CrashWorker, Rest, Goto
    <2>3. UNCHANGED day
      BY <1>7 DEF LeaveJob, CrashWorker
    <2>. QED
      BY <1>c, <2>1, <2>2, <2>3
  <1>8. ASSUME NEW b \in Brands, NextDay(b)
        PROVE  PeriodInv'
    <2>1. UNCHANGED <<pc, job, period>>
      BY <1>8 DEF NextDay, workerVars
    <2>2. ASSUME NEW c \in Brands, NEW k \in 1..SundayCounts(c)
          PROVE  k \in 1..SundayCounts(c)'
      <3>1. day[c] \in Nat /\ day'[c] \in Nat /\ day[c] <= day'[c]
        BY <1>8 DEF NextDay
      <3>. QED
        BY <2>2, <3>1, BegunForGood DEF SundayCounts
    <2>3. ASSUME NEW w \in Workers, pc[w] \in {"agent", "persist"}
          PROVE  Fits(w)'
      <3>1. job[w] \in Job /\ job[w].brand \in Brands
        BY <2>3 DEF Job, Weekly
      <3>2. Fits(w)
        BY <1>a, <2>3
      <3>. QED
        BY <2>1, <2>2, <3>1, <3>2 DEF Fits
    <2>. QED
      BY <1>a, <2>1, <2>3 DEF PeriodInv
  <1>9. ASSUME NEW w \in Workers, NEW b \in Brands, CheckBrand(w, b)
        PROVE  PeriodInv'
    BY <1>9, <1>b DEF CheckBrand, workerVars
  <1>10. ASSUME NEW b \in Brands, NEW kind \in OnDemand, Generate(kind, b)
         PROVE  PeriodInv'
    BY <1>10, <1>b DEF Generate, workerVars
  <1>11. ASSUME NEW r \in Requests, NEW letter \in Job, RetryFailedJob(r, letter)
         PROVE  PeriodInv'
    BY <1>11, <1>b DEF RetryFailedJob, workerVars
  <1>12. ASSUME NEW r \in Requests, DeleteRetriedRow(r) \/ AbortRequest(r)
         PROVE  PeriodInv'
    BY <1>12, <1>b DEF DeleteRetriedRow, AbortRequest, workerVars
  <1>13. ASSUME NEW j \in Job, ExpireInProgress(j) \/ ExpireResult(j)
         PROVE  PeriodInv'
    BY <1>13, <1>b DEF ExpireInProgress, ExpireResult, workerVars
  <1>14. CASE UNCHANGED vars
    BY <1>14, <1>b DEF vars, workerVars
  <1>. QED
    BY <1>1, <1>2, <1>3, <1>4, <1>5, <1>6, <1>7, <1>8, <1>9, <1>10, <1>11, <1>12, <1>13, <1>14
    DEF Next, WorkerStep, WorkerFault

\* A click's suffix is new: every job asked for so far has an older one.
LEMMA NextSuffixInv ==
    TypeInv /\ HoldInv /\ SchedInv /\ MarksInv /\ SuffixInv /\ [Next]_vars => SuffixInv'
  <1> SUFFICES ASSUME TypeInv, HoldInv, SchedInv, MarksInv, SuffixInv, [Next]_vars PROVE SuffixInv'
    OBVIOUS
  <1> USE BrandNoJobAssumption DEF TypeInv, TypeOK, Assigned, QueueTypeOK
  \* No click's job is asked for that was not.
  <1>a. ASSUME \A j \in Job : written'[j] > 0 => written[j] > 0 \/ j \in queue,
               \A j \in queue' : j \in queue \/ j.kind = "weekly"
        PROVE  SuffixInv'
    BY <1>a DEF SuffixInv, Asked
  <1>b. ASSUME UNCHANGED <<written, queue>>
        PROVE  SuffixInv'
    BY <1>a, <1>b
  \* A click's job.
  <1>c. ASSUME NEW kind \in OnDemand, NEW b \in Brands, clicks < MaxClicks,
               EnqueueJob(Fresh(kind, b)), UNCHANGED written
        PROVE  SuffixInv'
    <2>1. Fresh(kind, b) \in Job /\ Fresh(kind, b).serial = clicks + 1
      BY <1>c, BrandClicksAssumption DEF Fresh, Job
    <2>2. ASSUME NEW j \in Job, Asked(j)
          PROVE  j.serial # clicks + 1
      <3>1. j.kind \in OnDemand /\ j.serial \in Nat
        BY <2>2 DEF Asked, Job, Weekly, Weeks
      <3>2. j.serial <= clicks
        BY <2>2, <3>1 DEF Asked, MarksInv
      <3>. QED
        BY <3>1, <3>2
    <2>3. \A j \in Job : j.kind # "weekly" /\ (j \in queue' \/ written'[j] > 0) =>
            Asked(j) \/ j = Fresh(kind, b)
      BY <1>c DEF EnqueueJob, Asked
    <2>. QED
      BY <2>1, <2>2, <2>3 DEF SuffixInv, Asked
  <1>1. ASSUME NEW w \in Workers, PickJob(w)
        PROVE  SuffixInv'
    BY <1>1, <1>b DEF PickJob, StartJob, dbVars
  <1>2. ASSUME NEW w \in Workers, ExhaustJob(w) \/ LeaveJob(w)
        PROVE  SuffixInv'
    BY <1>2, <1>a DEF ExhaustJob, AbandonJob, LeaveJob, FinishJob, RerunJob, dbVars
  <1>3. ASSUME NEW w \in Workers,
               StartRun(w) \/ StartSummary(w) \/ Agent(w) \/ HandleFailure(w)
        PROVE  SuffixInv'
    BY <1>3, <1>b DEF StartRun, StartSummary, Agent, HandleFailure, dbVars, arqVars
  \* Its rows are those of a job that is still queued.
  <1>4. ASSUME NEW w \in Workers, Persist(w)
        PROVE  SuffixInv'
    <2>1. job[w] \in queue
      BY <1>4 DEF Persist, HoldInv
    <2>2. \A j \in Job : j # job[w] => written'[j] = written[j]
      BY <1>4 DEF Persist
    <2>3. UNCHANGED queue
      BY <1>4 DEF Persist, arqVars
    <2>. QED
      BY <1>a, <2>1, <2>2, <2>3
  <1>5. ASSUME NEW w \in Workers, FailAttempt(w) \/ CrashWorker(w) \/ CheckFails(w)
        PROVE  SuffixInv'
    BY <1>5, <1>b DEF FailAttempt, CrashWorker, CheckFails, dbVars, arqVars
  <1>6. ASSUME NEW w \in Workers, EnqueueDue(w)
        PROVE  SuffixInv'
    <2>1. check[w].kind = "weekly"
      BY <1>6 DEF EnqueueDue, SchedInv, ChecksAreDue
    <2>. QED
      BY <1>6, <1>a, <2>1 DEF EnqueueDue, EnqueueJob, dbVars
  <1>7. ASSUME NEW w \in Workers, NEW b \in Brands, CheckBrand(w, b)
        PROVE  SuffixInv'
    BY <1>7, <1>b DEF CheckBrand, dbVars, arqVars
  <1>8. ASSUME NEW b \in Brands, NextDay(b)
        PROVE  SuffixInv'
    BY <1>8, <1>b DEF NextDay, dbVars, arqVars
  <1>9. ASSUME NEW b \in Brands, NEW kind \in OnDemand, Generate(kind, b)
        PROVE  SuffixInv'
    BY <1>9, <1>c DEF Generate, dbVars
  <1>10. ASSUME NEW r \in Requests, NEW letter \in Job, RetryFailedJob(r, letter)
         PROVE  SuffixInv'
    <2>1. letter.brand \in Brands /\ RetriedKind(letter.kind) \in OnDemand
      BY DEF Job, Weekly, OnDemand, RetriedKind
    <2>. QED
      BY <1>10, <1>c, <2>1 DEF RetryFailedJob, dbVars
  <1>11. ASSUME NEW r \in Requests, DeleteRetriedRow(r) \/ AbortRequest(r)
         PROVE  SuffixInv'
    BY <1>11, <1>b DEF DeleteRetriedRow, AbortRequest, dbVars, arqVars
  <1>12. ASSUME NEW j \in Job, ExpireInProgress(j) \/ ExpireResult(j)
         PROVE  SuffixInv'
    BY <1>12, <1>b DEF ExpireInProgress, RerunJob, ExpireResult, ForgetResult, dbVars
  <1>13. CASE UNCHANGED vars
    BY <1>13, <1>b DEF vars, dbVars, arqVars
  <1>. QED
    BY <1>1, <1>2, <1>3, <1>4, <1>5, <1>6, <1>7, <1>8, <1>9, <1>10, <1>11, <1>12, <1>13
    DEF Next, WorkerStep, WorkerFault

\* The one step that writes rows saves the run of a click or of a week.
LEMMA PersistSaves ==
    ASSUME TypeInv, HoldInv, SchedInv, MarksInv, RowsInv, PeriodInv, SuffixInv,
           NEW w \in Workers, Persist(w)
    PROVE  Lifecycle!Next
  <1> DEFINE j == job[w]
  <1>1. j \in Job /\ j \in queue /\ j.brand \in Brands /\ pc[w] = "persist"
    BY BrandNoJobAssumption DEF Persist, HoldInv, TypeInv, TypeOK, Assigned, Job, Weekly
  <1>2. written[j] <= faults
    <2>1. ~Settled(j)
      BY <1>1, BrandNoJobAssumption DEF Settled, HoldInv, TypeInv, Assigned
    <2>. QED
      BY <1>1, <2>1 DEF RowsInv
  <1> DEFINE periods == IF period[w] = <<>> THEN {} ELSE {period[w]}
  <1>3. Lifecycle!Save(j, periods)
    <2>1. written' = [written EXCEPT ![j] = @ + 1] /\ UNCHANGED <<day, clicks, faults>>
      BY DEF Persist
    <2>2. ends' = [ends EXCEPT ![j.brand] = @ \cup periods]
      BY DEF Persist
    <2>. QED
      BY <1>2, <2>1, <2>2 DEF Lifecycle!Save
  <1>4. Fits(w)
    BY <1>1 DEF PeriodInv
  <1>5. CASE j.kind = "weekly"
    <2>1. period[w] = <<j.serial, TRUE>>
      BY <1>4, <1>5 DEF Fits
    <2>2. periods = {<<j.serial, TRUE>>}
      BY <2>1
    <2>3. j.serial <= day[j.brand] \div 2
      BY <1>1, <1>5 DEF SchedInv, ScheduleWaitsForTheWeek, IsOver
    <2>. QED
      BY <1>1, <1>3, <1>5, <2>2, <2>3 DEF Lifecycle!Next, Lifecycle!SaveScheduled
  <1>6. CASE j.kind # "weekly"
    <2>1. j.serial <= clicks
      BY <1>1, <1>6 DEF MarksInv, Job, Weekly
    <2>2. Lifecycle!OwnClick(j)
      BY <1>1, <1>6, <2>1 DEF Lifecycle!OwnClick, SuffixInv, Asked
    <2>3. \/ Lifecycle!Save(j, {})
          \/ /\ j.kind = "summary"
             /\ \E k \in 1..((day[j.brand] + 1) \div 2) : Lifecycle!Save(j, {<<k, FALSE>>})
      <3>1. CASE period[w] = <<>>
        BY <1>3, <3>1
      <3>2. CASE period[w] # <<>>
        <4>1. PICK k \in 1..SundayCounts(j.brand) : j.kind = "summary" /\ period[w] = <<k, FALSE>>
          BY <1>4, <1>6, <3>2 DEF Fits
        <4>2. periods = {<<k, FALSE>>}
          BY <3>2, <4>1
        <4>. QED
          BY <1>3, <4>1, <4>2 DEF SundayCounts
      <3>. QED
        BY <3>1, <3>2
    <2>4. Lifecycle!SaveClicked(j)
      BY <1>6, <2>2, <2>3 DEF Lifecycle!SaveClicked
    <2>. QED
      BY <1>1, <2>4 DEF Lifecycle!Next
  <1>. QED
    BY <1>5, <1>6

LEMMA LifecycleStep ==
    ASSUME TypeInv, HoldInv, SchedInv, MarksInv, RowsInv, PeriodInv, SuffixInv, [Next]_vars
    PROVE  [Lifecycle!Next]_(Lifecycle!vars)
  <1>1. ASSUME NEW w \in Workers, Persist(w)
        PROVE  Lifecycle!Next
    BY <1>1, PersistSaves
  <1>2. ASSUME Fault, UNCHANGED <<day, dbVars, clicks>>
        PROVE  Lifecycle!Next
    BY <1>2 DEF Fault, dbVars, Lifecycle!Next, Lifecycle!Fault
  <1>3. ASSUME NEW w \in Workers, WorkerFault(w)
        PROVE  Lifecycle!Next
    BY <1>2, <1>3 DEF WorkerFault, FailAttempt, CrashWorker, CheckFails
  <1>4. ASSUME clicks' = clicks + 1, UNCHANGED <<day, dbVars, faults>>
        PROVE  Lifecycle!Next
    BY <1>4 DEF dbVars, Lifecycle!Next, Lifecycle!Click
  <1>5. ASSUME NEW b \in Brands, NEW kind \in OnDemand, Generate(kind, b)
        PROVE  Lifecycle!Next
    BY <1>4, <1>5 DEF Generate
  <1>6. ASSUME NEW r \in Requests, NEW letter \in Job, RetryFailedJob(r, letter)
        PROVE  Lifecycle!Next
    BY <1>4, <1>6 DEF RetryFailedJob
  <1>7. ASSUME NEW b \in Brands, NextDay(b)
        PROVE  Lifecycle!Next
    BY <1>7 DEF NextDay, dbVars, Lifecycle!Next, Lifecycle!NextDay
  \* Nothing else is seen from outside.
  <1>8. ASSUME UNCHANGED <<day, written, ends, clicks, faults>>
        PROVE  UNCHANGED Lifecycle!vars
    BY <1>8 DEF Lifecycle!vars
  <1>9. ASSUME NEW w \in Workers, WorkerStep(w), ~Persist(w)
        PROVE  UNCHANGED Lifecycle!vars
    BY <1>8, <1>9
    DEF WorkerStep, PickJob, ExhaustJob, StartRun, StartSummary, Agent, HandleFailure, LeaveJob, dbVars
  <1>10. ASSUME NEW w \in Workers, EnqueueDue(w)
         PROVE  UNCHANGED Lifecycle!vars
    BY <1>8, <1>10 DEF EnqueueDue, dbVars
  <1>11. ASSUME NEW w \in Workers, NEW b \in Brands, CheckBrand(w, b)
         PROVE  UNCHANGED Lifecycle!vars
    BY <1>8, <1>11 DEF CheckBrand, dbVars
  <1>12. ASSUME NEW r \in Requests, DeleteRetriedRow(r) \/ AbortRequest(r)
         PROVE  UNCHANGED Lifecycle!vars
    BY <1>8, <1>12 DEF DeleteRetriedRow, AbortRequest, dbVars
  <1>13. ASSUME NEW j \in Job, ExpireInProgress(j) \/ ExpireResult(j)
         PROVE  UNCHANGED Lifecycle!vars
    BY <1>8, <1>13 DEF ExpireInProgress, ExpireResult, dbVars
  <1>14. CASE UNCHANGED vars
    BY <1>8, <1>14 DEF vars, dbVars
  <1>. QED
    BY <1>1, <1>3, <1>5, <1>6, <1>7, <1>9, <1>10, <1>11, <1>12, <1>13, <1>14 DEF Next

\* What a brand gets is a BrandLifecycle: each run that is saved has a click of
\* its own or a week that is over, is saved again only for a fault, and writes a
\* period that the calendar allows.
THEOREM BrandJobsImplementLifecycle == Spec => ImplementsLifecycle
  <1> DEFINE Inv == /\ TypeInv /\ HoldInv /\ SchedInv /\ MarksInv
                    /\ RowsInv /\ PeriodInv /\ SuffixInv
  <1>1. Init => Inv
    BY InitTypeInv, InitHoldInv, InitSchedInv, InitMarksInv, InitPaidInv
  <1>2. Inv /\ [Next]_vars => Inv'
    BY NextTypeInv, NextHoldInv, NextSchedInv, NextMarksInv, NextRowsInv, NextPeriodInv,
       NextSuffixInv
  <1>3. Init => Lifecycle!Init
    BY DEF Init, Lifecycle!Init
  <1>4. Inv /\ [Next]_vars => [Lifecycle!Next]_(Lifecycle!vars)
    BY LifecycleStep
  <1>. QED
    BY <1>1, <1>2, <1>3, <1>4, PTL DEF Spec, ImplementsLifecycle, Lifecycle!Spec
=============================================================================
