---------------------------- MODULE ReportsProofs ----------------------------
(***************************************************************************)
(* Theorems about Reports, for any sets of jobs and workers, any retries   *)
(* and any bounds.                                                         *)
(***************************************************************************)
EXTENDS Reports, FiniteSetTheorems, TLAPS

\* What a worker's record holds besides its type: how far the job's graph is, and
\* for an asset which agent is next, which captions it has and that two agents ran.
Coherent(mine) ==
    /\ mine.pc # "idle" => mine.job \in Jobs
    /\ mine.pc = "start" => mine.ok = 0 /\ mine.unpriced = 0
    /\ mine.pc = "calling" => mine.calls <= Retries
    /\ mine.pc \in {"calling", "answered"} =>
         /\ mine.agent \in Agents
         /\ mine.ok = (IF mine.agent \in {"response", "content"} THEN 1 ELSE 0)
         /\ mine.unpriced <= mine.ok
         /\ KindOf[mine.job] = "asset" => mine.agent \in {"media", "content"}
    /\ mine.pc = "answered" /\ mine.agent = "content" => OneDraftPerPlatform(mine.drafts)
    /\ mine.pc = "persist" /\ KindOf[mine.job] = "asset" =>
         OneDraftPerPlatform(mine.drafts) /\ mine.ok = 2

\* How far a report is.
Paced ==
    /\ report.step = "reading" => report.reads <= 2
    /\ report.step \in {"start", "draining", "polled"} =>
         report.reads = 0 /\ report.quiet < QuietPolls /\ report.misses <= MaxMisses

\* What is counted is finite.
Finite == IsFiniteSet(done) /\ IsFiniteSet(queue) /\ IsFiniteSet(inProgress)

TypeInv == TypeOK /\ (\A w \in Workers : Coherent(work[w])) /\ Paced /\ Finite

-----------------------------------------------------------------------------
(* Types.                                                                  *)

LEMMA NoCaptionsType == NoCaptions \in [Platforms -> 0..2]
  BY DEF NoCaptions

LEMMA RestingWorker == Resting \in Work /\ Coherent(Resting)
  BY ReportsJobsAssumption, ReportsTriesAssumption, NoCaptionsType
  DEF Resting, Work, Coherent, InSession

LEMMA FirstReport == ASSUME NEW kind \in ReportKinds
                     PROVE  /\ Report(kind) \in Reports
                            /\ Report(kind).step = "start" /\ Report(kind).reads = 0
                            /\ Report(kind).quiet = 0 /\ Report(kind).misses = 0
  <1>1. [b \in Buckets |-> 0] \in [Buckets -> Nat]
    OBVIOUS
  <1>. QED
    BY <1>1, ReportsBoundsAssumption DEF Report, Reports

LEMMA InitTypeInv == Init => TypeInv
  <1> SUFFICES ASSUME Init PROVE TypeInv
    OBVIOUS
  <1>1. work \in [Workers -> Work] /\ \A w \in Workers : Coherent(work[w])
    BY RestingWorker DEF Init
  <1>2. report \in Reports /\ Paced
    BY FirstReport, ReportsBoundsAssumption DEF Init, Paced
  <1>3. Finite
    BY FS_EmptySet DEF Init, QueueInit, Finite
  <1>4. captions \in [Assets -> [Platforms -> Nat]]
    BY DEF Init, NoCaptions
  <1>5. QueueTypeOK
    BY ReportsTriesAssumption DEF Init, QueueInit, QueueTypeOK
  <1>. QED
    BY <1>1, <1>2, <1>3, <1>4, <1>5, ReportsBoundsAssumption
    DEF Init, TypeInv, TypeOK, Count, NoRows

\* A worker's record changes to a coherent one.
LEMMA WorkUpdated ==
    ASSUME TypeInv, NEW w \in Workers, NEW mine, mine \in Work, Coherent(mine), Does(w, mine)
    PROVE  work' \in [Workers -> Work] /\ \A v \in Workers : Coherent(work'[v])
  BY DEF TypeInv, TypeOK, Does

\* The worker's steps leave the report alone, the reader's everything else.
LEMMA WorkerTypeInv ==
    ASSUME TypeInv, UNCHANGED report,
           rows' \in Count, failures' \in Nat, unwritten' \in Nat, faults' \in 0..MaxFaults,
           done' \subseteq Subjects, drafted' \subseteq done' \cap Comments, sent' \subseteq drafted',
           captions' \in [Assets -> [Platforms -> Nat]],
           work' \in [Workers -> Work], \A w \in Workers : Coherent(work'[w]),
           QueueTypeOK', Finite'
    PROVE  TypeInv'
  BY DEF TypeInv, TypeOK, Paced

LEMMA ReaderTypeInv ==
    ASSUME TypeInv, Reader, faults' \in 0..MaxFaults, report' \in Reports, Paced'
    PROVE  TypeInv'
  BY DEF TypeInv, TypeOK, Reader, dbVars, arqVars, Finite, QueueTypeOK

\* The queue's operations keep its type and leave it finite.
LEMMA QueueSteps ==
    ASSUME TypeInv, NEW j \in Jobs,
           EnqueueJob(j) \/ StartJob(j) \/ AbandonJob(j) \/ FinishJob(j) \/ RerunJob(j)
    PROVE  QueueTypeOK' /\ IsFiniteSet(queue') /\ IsFiniteSet(inProgress')
  <1>1. QueueTypeOK'
    BY ReportsTriesAssumption
    DEF TypeInv, TypeOK, QueueTypeOK, EnqueueJob, StartJob, AbandonJob, FinishJob, RerunJob
  <1>2. queue' \in {queue, queue \cup {j}, queue \ {j}}
    BY DEF EnqueueJob, StartJob, AbandonJob, FinishJob, RerunJob
  <1>3. inProgress' \in {inProgress, inProgress \cup {j}, inProgress \ {j}}
    BY DEF EnqueueJob, StartJob, AbandonJob, FinishJob, RerunJob
  <1>. QED
    BY <1>1, <1>2, <1>3, FS_AddElement, FS_RemoveElement DEF TypeInv, Finite

\* A worker with an agent, or without one at the end of its attempt.
LEMMA CallingWorker ==
    ASSUME TypeInv, NEW w \in Workers, work[w].pc = "start", NEW agent \in FirstAgents(KindOf[work[w].job]),
           Calling(w, agent)
    PROVE  work' \in [Workers -> Work] /\ \A v \in Workers : Coherent(work'[v])
  <1> DEFINE mine == work[w]
             called == [mine EXCEPT !.agent = agent, !.calls = 0,
                                    !.pc = IF agent = "none" THEN "persist" ELSE "calling"]
  <1>1. mine \in Work /\ Coherent(mine)
    BY DEF TypeInv, TypeOK
  <1>2. mine.job \in Jobs /\ KindOf[mine.job] \in Kinds
    BY <1>1, ReportsJobsAssumption DEF Coherent
  <1>3. /\ agent \in {"triage", "media", "ideation", "insight", "analytics", "none"}
        /\ KindOf[mine.job] = "asset" => agent = "media"
    BY <1>2 DEF FirstAgents, Kinds
  <1>4. /\ called.pc = (IF agent = "none" THEN "persist" ELSE "calling")
        /\ called.agent = agent /\ called.calls = 0 /\ called.ok = mine.ok
        /\ called.unpriced = mine.unpriced /\ called.job = mine.job
        /\ called.drafts = mine.drafts /\ called.exit = mine.exit
    BY <1>1 DEF Work
  <1>a. /\ agent \in Agents \cup {"none"}
        /\ 0 \in 0..(Retries + 1)
        /\ (IF agent = "none" THEN "persist" ELSE "calling") \in InSession
    BY <1>3, ReportsTriesAssumption DEF Agents, InSession
  <1>5. called \in Work
    BY <1>1, <1>a DEF Work
  <1>6. mine.ok = 0 /\ mine.unpriced = 0
    BY <1>1 DEF Coherent
  <1>7. Coherent(called)
    BY <1>2, <1>3, <1>4, <1>6, ReportsTriesAssumption DEF Coherent, Agents
  <1>. QED
    BY <1>5, <1>7, WorkUpdated DEF Calling

\* A call: the record it leaves behind.
LEMMA CallResult ==
    ASSUME TypeInv, NEW w \in Workers, Call(w)
    PROVE  work' \in [Workers -> Work] /\ \A v \in Workers : Coherent(work'[v])
  <1> DEFINE mine == work[w]
  <1>1. mine \in Work /\ Coherent(mine) /\ mine.pc = "calling"
    BY DEF TypeInv, TypeOK, Call
  <1>2. PICK form \in Forms, content \in Contents(mine.agent) :
          IF Passes(mine.agent, form, content)
          THEN Does(w, [mine EXCEPT !.pc = "answered",
                                    !.drafts = IF mine.agent = "content" THEN content ELSE mine.drafts])
          ELSE Does(w, [mine EXCEPT
                          !.calls = mine.calls + 1,
                          !.pc = IF RetriesSpent(mine.calls) THEN "failing" ELSE mine.pc,
                          !.exit = IF RetriesSpent(mine.calls) THEN "error" ELSE mine.exit])
    BY Zenon DEF Call
  <1>3. mine.calls \in Nat /\ mine.calls <= Retries
    BY <1>1, ReportsTriesAssumption DEF Coherent, Work
  <1>4. CASE Passes(mine.agent, form, content)
    <2> DEFINE answered == [mine EXCEPT !.pc = "answered",
                              !.drafts = IF mine.agent = "content" THEN content ELSE mine.drafts]
    <2>1. mine.agent = "content" => content \in [Platforms -> 0..2] /\ OneDraftPerPlatform(content)
      BY <1>4 DEF Contents, Passes, Satisfies
    <2>2. answered \in Work
      BY <1>1, <2>1 DEF Work, InSession
    <2>3. /\ answered.pc = "answered" /\ answered.agent = mine.agent /\ answered.ok = mine.ok
          /\ answered.unpriced = mine.unpriced /\ answered.job = mine.job
          /\ mine.agent = "content" => answered.drafts = content
      BY <1>1 DEF Work
    <2>4. Coherent(answered)
      BY <1>1, <2>1, <2>3 DEF Coherent
    <2>. QED
      BY <1>2, <1>4, <2>2, <2>4, WorkUpdated
  <1>5. CASE ~Passes(mine.agent, form, content)
    <2> DEFINE asked == [mine EXCEPT
                          !.calls = mine.calls + 1,
                          !.pc = IF RetriesSpent(mine.calls) THEN "failing" ELSE mine.pc,
                          !.exit = IF RetriesSpent(mine.calls) THEN "error" ELSE mine.exit]
    <2>1. mine.calls + 1 \in 0..(Retries + 1)
      BY <1>3, ReportsTriesAssumption
    <2>2. asked \in Work
      BY <1>1, <2>1 DEF Work, InSession
    <2>3. /\ asked.pc = (IF mine.calls = Retries THEN "failing" ELSE "calling")
          /\ asked.agent = mine.agent /\ asked.ok = mine.ok
          /\ asked.unpriced = mine.unpriced /\ asked.job = mine.job /\ asked.calls = mine.calls + 1
      BY <1>1 DEF Work, RetriesSpent
    <2>4. asked.pc = "calling" => asked.calls <= Retries
      BY <1>3, <2>3, ReportsTriesAssumption
    <2>5. Coherent(asked)
      BY <1>1, <2>3, <2>4 DEF Coherent
    <2>. QED
      BY <1>2, <1>5, <2>2, <2>5, WorkUpdated
  <1>. QED
    BY <1>4, <1>5

\* The ok row of an agent, and the agent that follows it.
LEMMA RecordRunResult ==
    ASSUME TypeInv, NEW w \in Workers, RecordRun(w)
    PROVE  work' \in [Workers -> Work] /\ \A v \in Workers : Coherent(work'[v])
  <1> DEFINE mine == work[w]
  <1>1. mine \in Work /\ Coherent(mine) /\ mine.pc = "answered"
    BY DEF TypeInv, TypeOK, RecordRun
  <1>2. PICK next \in NextAgents(mine.agent), n \in Unpriced :
          Does(w, [mine EXCEPT
                    !.ok = mine.ok + 1, !.unpriced = mine.unpriced + n, !.agent = next, !.calls = 0,
                    !.pc = IF next = "none" THEN "persist" ELSE "calling"])
    BY Zenon DEF RecordRun
  <1> DEFINE then == [mine EXCEPT
                    !.ok = mine.ok + 1, !.unpriced = mine.unpriced + n, !.agent = next, !.calls = 0,
                    !.pc = IF next = "none" THEN "persist" ELSE "calling"]
  <1>3. n \in {0, 1}
    BY <1>2 DEF Unpriced
  <1>4. /\ mine.agent \in Agents /\ mine.ok \in 0..1 /\ mine.unpriced \in 0..1
        /\ mine.unpriced <= mine.ok
        /\ mine.agent \notin {"response", "content"} => mine.ok = 0
    BY <1>1 DEF Coherent, Work
  <1>5. /\ next \in {"response", "content", "none"}
        /\ next # "none" => mine.agent \in {"triage", "media"}
        /\ mine.agent = "media" => next = "content"
        /\ mine.agent = "content" => next = "none"
    BY <1>4 DEF NextAgents, Agents
  <1>a. /\ next \in Agents \cup {"none"}
        /\ 0 \in 0..(Retries + 1)
        /\ (IF next = "none" THEN "persist" ELSE "calling") \in InSession
        /\ mine.ok + 1 \in 0..2 /\ mine.unpriced + n \in 0..2
    BY <1>3, <1>4, <1>5, ReportsTriesAssumption DEF Agents, InSession
  <1>6. then \in Work
    BY <1>1, <1>a DEF Work
  <1>7. /\ then.pc = (IF next = "none" THEN "persist" ELSE "calling")
        /\ then.agent = next /\ then.calls = 0 /\ then.ok = mine.ok + 1
        /\ then.unpriced = mine.unpriced + n /\ then.job = mine.job /\ then.drafts = mine.drafts
    BY <1>1 DEF Work
  <1>8. then.pc = "calling" =>
          /\ then.agent \in Agents /\ then.ok = 1 /\ then.unpriced <= then.ok
          /\ then.agent \in {"response", "content"} /\ then.calls <= Retries
          /\ KindOf[then.job] = "asset" => then.agent = "content"
    <2>1. then.pc = "calling" => mine.agent \in {"triage", "media"} /\ mine.ok = 0 /\ mine.unpriced = 0
      <3>1. then.pc = "calling" => next # "none"
        BY <1>7
      <3>2. next # "none" => mine.ok = 0
        BY <1>4, <1>5
      <3>3. mine.ok = 0 => mine.unpriced = 0
        BY <1>4
      <3>. QED
        BY <1>5, <3>1, <3>2, <3>3
    <2>2. KindOf[mine.job] = "asset" => mine.agent \in {"media", "content"}
      BY <1>1 DEF Coherent
    <2>. QED
      BY <1>3, <1>5, <1>7, <2>1, <2>2, ReportsTriesAssumption DEF Agents
  <1>9. then.pc = "persist" /\ KindOf[then.job] = "asset" =>
          OneDraftPerPlatform(then.drafts) /\ then.ok = 2
    <2> SUFFICES ASSUME then.pc = "persist", KindOf[then.job] = "asset"
                 PROVE  OneDraftPerPlatform(then.drafts) /\ then.ok = 2
      OBVIOUS
    <2>1. next = "none" /\ KindOf[mine.job] = "asset"
      BY <1>7
    <2>2. mine.agent = "content"
      BY <1>1, <1>5, <2>1 DEF Coherent
    <2>3. OneDraftPerPlatform(mine.drafts) /\ mine.ok = 1
      BY <1>1, <2>2 DEF Coherent
    <2>. QED
      BY <1>7, <2>3
  <1>10. Coherent(then)
    BY <1>1, <1>7, <1>8, <1>9 DEF Coherent
  <1>. QED
    BY <1>2, <1>6, <1>10, WorkUpdated

\* What a SELECT returns is a number.
LEMMA Countable ==
    ASSUME TypeInv
    PROVE  /\ Total(rows) \in Nat /\ rows.error \in Nat /\ rows.unpriced \in Nat
           /\ Cardinality(InRange(done)) \in Nat
           /\ IsFiniteSet(InRange(sent)) /\ Cardinality(InRange(sent)) \in Nat
           /\ Cardinality(queue) \in Nat /\ Cardinality(inProgress) \in Nat
  <1>1. InRange(done) \in SUBSET done /\ InRange(sent) \in SUBSET done
    BY DEF InRange, TypeInv, TypeOK
  <1>2. IsFiniteSet(InRange(done)) /\ IsFiniteSet(InRange(sent))
    BY <1>1, FS_Subset DEF TypeInv, Finite
  <1>3. IsFiniteSet(queue) /\ IsFiniteSet(inProgress)
    BY DEF TypeInv, Finite
  <1>4. rows \in Count
    BY DEF TypeInv, TypeOK
  <1>. QED
    BY <1>2, <1>3, <1>4, FS_CardinalityType DEF Count, Total

\* A SELECT's result is added to the report, and the next one is due.
LEMMA HavingReport ==
    ASSUME TypeInv, report.step = "reading", NEW fields \in Reports, Having(fields),
           fields.step = report.step, fields.reads = report.reads
    PROVE  report' \in Reports /\ Paced'
  <1>1. report \in Reports /\ Paced
    BY DEF TypeInv, TypeOK
  <1>2. report.reads \in 0..2
    BY <1>1 DEF Paced, Reports
  <1>3. report' = [fields EXCEPT !.reads = fields.reads + 1,
                                 !.step = IF report.reads = 2 THEN "done" ELSE fields.step]
    BY DEF Having, Becomes
  <1> DEFINE step == IF report.reads = 2 THEN "done" ELSE fields.step
  <1>a. step \in {"reading", "done"} /\ fields.reads + 1 \in 0..3
    BY <1>2
  <1>4. report' \in Reports
    <2> HIDE DEF step
    <2>. QED
      BY <1>3, <1>a DEF Reports, step
  <1>5. report'.reads = report.reads + 1 /\ report'.step = (IF report.reads = 2 THEN "done" ELSE "reading")
    BY <1>3 DEF Reports
  <1>. QED
    BY <1>2, <1>4, <1>5 DEF Paced

LEMMA ReadTypeInv == TypeInv /\ Read => TypeInv'
  <1> SUFFICES ASSUME TypeInv, Read PROVE TypeInv'
    OBVIOUS
  <1>a. report \in Reports /\ Paced /\ faults \in 0..MaxFaults
    BY DEF TypeInv, TypeOK
  <1>b. ASSUME Reader, UNCHANGED faults, report' \in Reports, Paced'
        PROVE  TypeInv'
    BY <1>a, <1>b, ReaderTypeInv
  <1>c. ASSUME report.step = "reading", NEW fields \in Reports, Having(fields),
               fields.step = report.step, fields.reads = report.reads
        PROVE  TypeInv'
    BY <1>b, <1>c, HavingReport DEF Having
  <1>1. CASE AskAnalytics
    <2>1. PICK from \in 0..Days, to \in 0..Days :
            LET end   == IF to = 0 THEN Days ELSE to
                start == IF from = 0 THEN end - (DefaultDays - 1) ELSE from
            IN IF start > end \/ end - start + 1 > MaxDays
               THEN Becomes([report EXCEPT !.step = "refused"])
               ELSE Becomes([report EXCEPT !.step = "reading", !.from = start, !.to = end])
      BY <1>1, Zenon DEF AskAnalytics
    <2> DEFINE end   == IF to = 0 THEN Days ELSE to
               start == IF from = 0 THEN end - (DefaultDays - 1) ELSE from
    <2>2. end \in Int /\ start \in Int
      BY ReportsDaysAssumption, ReportsBoundsAssumption
    <2>3. \/ report' = [report EXCEPT !.step = "refused"]
          \/ report' = [report EXCEPT !.step = "reading", !.from = start, !.to = end]
      BY <2>1 DEF Becomes
    <2>4. report' \in Reports
      <3> HIDE DEF end, start
      <3>1. CASE report' = [report EXCEPT !.step = "refused"]
        BY <1>a, <3>1 DEF Reports
      <3>2. CASE report' = [report EXCEPT !.step = "reading", !.from = start, !.to = end]
        BY <1>a, <2>2, <3>2 DEF Reports
      <3>. QED
        BY <2>3, <3>1, <3>2
    <2>5. report.step = "start" /\ report'.reads = report.reads /\ report'.step \in {"refused", "reading"}
      BY <1>a, <1>1, <2>3 DEF AskAnalytics, Reports
    <2>6. Paced'
      BY <1>a, <2>5 DEF Paced
    <2>. QED
      BY <1>b, <1>1, <2>4, <2>6 DEF AskAnalytics
  <1>2. CASE AskPage
    BY <1>2, <1>a, <1>b DEF AskPage, Becomes, Reports, Paced
  <1>3. CASE ReadRows
    <2> DEFINE listed == IF Total(rows) < PageSize THEN Total(rows) ELSE PageSize
    <2>1. listed \in Nat
      BY Countable, ReportsBoundsAssumption
    <2>2. [report EXCEPT !.listed = listed] \in Reports
      BY <1>a, <2>1 DEF Reports
    <2>3. Having([report EXCEPT !.listed = listed]) /\ report.step = "reading"
      BY <1>3 DEF ReadRows, Reads
    <2>4. [report EXCEPT !.listed = listed].step = report.step /\ [report EXCEPT !.listed = listed].reads = report.reads
      BY <1>a DEF Reports
    <2>. QED
      BY <1>c, <2>2, <2>3, <2>4
  <1>4. CASE ReadTotals
    <2> DEFINE fields == [report EXCEPT !.total = Total(rows), !.errors = rows.error, !.unpriced = rows.unpriced]
    <2>1. fields \in Reports /\ fields.step = report.step /\ fields.reads = report.reads
      BY <1>a, Countable DEF Reports
    <2>. QED
      BY <1>c, <1>4, <2>1 DEF ReadTotals, Reads
  <1>5. CASE ReadWindow
    <2> DEFINE some == Total(rows) > 0
               fields == [report EXCEPT !.window = some]
    <2>a. some \in BOOLEAN
      OBVIOUS
    <2>1. fields \in Reports /\ fields.step = report.step /\ fields.reads = report.reads
      <3> HIDE DEF some
      <3>. QED
        BY <1>a, <2>a DEF Reports
    <2>. QED
      BY <1>c, <1>5, <2>1 DEF ReadWindow, Reads
  <1>6. CASE ReadSentiment
    <2> DEFINE fields == [report EXCEPT !.sentiment = Cardinality(InRange(done))]
    <2>1. fields \in Reports /\ fields.step = report.step /\ fields.reads = report.reads
      BY <1>a, Countable DEF Reports
    <2>. QED
      BY <1>c, <1>6, <2>1 DEF ReadSentiment, Reads
  <1>7. CASE ReadCategories
    <2> DEFINE fields == [report EXCEPT !.categories = Cardinality(InRange(done))]
    <2>1. fields \in Reports /\ fields.step = report.step /\ fields.reads = report.reads
      BY <1>a, Countable DEF Reports
    <2>. QED
      BY <1>c, <1>7, <2>1 DEF ReadCategories, Reads
  <1>8. CASE ReadResponses
    <2>1. PICK delay \in [InRange(sent) -> Delays] :
            Having([report EXCEPT
                     !.published = Cardinality(InRange(sent)),
                     !.histogram = [b \in Buckets |->
                                      Cardinality({c \in InRange(sent) : InBucket(delay[c], b)})]])
      BY <1>8, Zenon DEF ReadResponses
    <2> DEFINE bucket(b) == {c \in InRange(sent) : InBucket(delay[c], b)}
               fields == [report EXCEPT !.published = Cardinality(InRange(sent)),
                                        !.histogram = [b \in Buckets |-> Cardinality(bucket(b))]]
    <2>2. \A b \in Buckets : Cardinality(bucket(b)) \in Nat
      <3>1. \A b \in Buckets : bucket(b) \in SUBSET InRange(sent)
        OBVIOUS
      <3> HIDE DEF bucket
      <3>. QED
        BY <3>1, Countable, FS_Subset, FS_CardinalityType
    <2>3. [b \in Buckets |-> Cardinality(bucket(b))] \in [Buckets -> Nat]
      BY <2>2
    <2>4. fields \in Reports /\ fields.step = report.step /\ fields.reads = report.reads
      <3> HIDE DEF bucket
      <3>. QED
        BY <1>a, <2>3, Countable DEF Reports
    <2>. QED
      BY <1>c, <1>8, <2>1, <2>4 DEF ReadResponses, Reads
  <1>9. CASE MeasureIngested
    BY <1>9, <1>a, <1>b DEF MeasureIngested, Becomes, Reports, Paced
  <1>10. CASE PollQueued
    BY <1>10, <1>a, <1>b, Countable DEF PollQueued, Becomes, Reports, Paced
  <1>11. CASE PollRunning
    <2> DEFINE quiet == QuietAfter(report.queued + Cardinality(inProgress))
               step   == IF quiet = QuietPolls THEN "reading" ELSE "draining"
               fields == [report EXCEPT !.queued = 0, !.misses = 0, !.quiet = quiet, !.step = step]
    <2>1. report.step = "polled" /\ report' = fields
      BY <1>11, Zenon DEF PollRunning, Becomes
    <2>2. report.reads = 0 /\ report.quiet \in Nat /\ report.quiet < QuietPolls
      BY <1>a, <2>1 DEF Paced, Reports
    <2>3. quiet \in 0..QuietPolls
      BY <2>2, ReportsBoundsAssumption DEF QuietAfter
    <2>4. fields \in Reports
      <3>1. step \in {"reading", "draining"} /\ 0 \in 0..(MaxMisses + 1)
        BY ReportsBoundsAssumption
      <3> HIDE DEF quiet, step
      <3>. QED
        BY <1>a, <2>3, <3>1 DEF Reports
    <2>5. /\ fields.quiet = quiet /\ fields.misses = 0 /\ fields.reads = 0
          /\ fields.step = (IF quiet = QuietPolls THEN "reading" ELSE "draining")
      BY <1>a, <2>2 DEF Reports
    <2>6. Paced'
      <3> HIDE DEF quiet, fields
      <3>. QED
        BY <2>1, <2>3, <2>5, ReportsBoundsAssumption DEF Paced
    <2>. QED
      BY <1>b, <1>11, <2>1, <2>4, <2>6 DEF PollRunning
  <1>12. CASE MissPoll
    <2> DEFINE misses == report.misses + 1
               gives  == misses > MaxMisses \/ report.quiet = QuietPolls
               next   == IF gives THEN "reading" ELSE "draining"
               fields == [report EXCEPT !.queued = 0, !.misses = misses, !.step = next]
    <2>1. report.step \in {"draining", "polled"} /\ report' = fields
      BY <1>12, <1>a DEF MissPoll, Becomes, Missed, Reports
    <2>2. report.reads = 0 /\ report.quiet < QuietPolls /\ misses \in 0..(MaxMisses + 1)
      BY <1>a, <2>1, ReportsBoundsAssumption DEF Paced, Reports
    <2>3. fields \in Reports
      <3>1. next \in {"start", "draining", "polled", "reading", "done", "refused"}
        OBVIOUS
      <3>2. report \in Reports /\ misses \in 0..(MaxMisses + 1) /\ 0 \in Nat
        BY <1>a, <2>2
      <3> HIDE DEF misses, next
      <3>. QED
        BY <3>1, <3>2 DEF Reports
    <2>4. /\ fields.quiet = report.quiet /\ fields.misses = misses /\ fields.reads = 0
          /\ fields.step = next
      <3> HIDE DEF misses, next
      <3>. QED
        BY <1>a, <2>2 DEF Reports
    <2>5. Paced'
      <3> HIDE DEF fields
      <3>. QED
        BY <2>1, <2>2, <2>4, ReportsBoundsAssumption DEF Paced
    <2>. QED
      BY <1>b, <1>12, <2>1, <2>3, <2>5 DEF MissPoll
  <1>. QED
    BY <1>1, <1>2, <1>3, <1>4, <1>5, <1>6, <1>7, <1>8, <1>9, <1>10, <1>11, <1>12 DEF Read

LEMMA NextTypeInv == TypeInv /\ [Next]_vars => TypeInv'
  <1> SUFFICES ASSUME TypeInv, [Next]_vars PROVE TypeInv'
    OBVIOUS
  <1>a. /\ rows \in Count /\ failures \in Nat /\ unwritten \in Nat /\ faults \in 0..MaxFaults
        /\ done \subseteq Subjects /\ drafted \subseteq done \cap Comments /\ sent \subseteq drafted
        /\ captions \in [Assets -> [Platforms -> Nat]]
        /\ work \in [Workers -> Work] /\ QueueTypeOK /\ Finite
        /\ \A w \in Workers : work[w] \in Work /\ Coherent(work[w])
    BY DEF TypeInv, TypeOK
  <1>b. ASSUME UNCHANGED arqVars PROVE QueueTypeOK' /\ IsFiniteSet(queue') /\ IsFiniteSet(inProgress')
    BY <1>a, <1>b DEF arqVars, QueueTypeOK, Finite
  <1>c. ASSUME Fault PROVE faults' \in 0..MaxFaults
    BY <1>a, <1>c, ReportsBoundsAssumption DEF Fault
  \* What a worker holds changes, and perhaps the queue; nothing is committed.
  <1>d. ASSUME UNCHANGED <<rows, done, drafted, captions, sent, report>>,
               failures' \in Nat, unwritten' \in Nat, faults' \in 0..MaxFaults,
               work' \in [Workers -> Work], \A w \in Workers : Coherent(work'[w]),
               QueueTypeOK', IsFiniteSet(queue'), IsFiniteSet(inProgress')
        PROVE  TypeInv'
    <2>1. Finite'
      BY <1>a, <1>d DEF Finite
    <2>. QED
      BY <1>a, <1>d, <2>1, WorkerTypeInv
  <1>1. ASSUME NEW j \in Jobs, Submit(j)
        PROVE  TypeInv'
    BY <1>1, <1>a, <1>d, QueueSteps DEF Submit, dbVars
  <1>2. ASSUME NEW j \in Jobs, ExpireInProgress(j)
        PROVE  TypeInv'
    BY <1>2, <1>a, <1>d, QueueSteps DEF ExpireInProgress, dbVars
  <1>3. ASSUME NEW w \in Workers, PickJob(w)
        PROVE  TypeInv'
    <2>1. PICK j \in Jobs : StartJob(j) /\ Does(w, [Resting EXCEPT !.pc = "start", !.job = j])
      BY <1>3 DEF PickJob
    <2> DEFINE mine == [Resting EXCEPT !.pc = "start", !.job = j]
    <2>2. mine \in Work /\ Coherent(mine)
      BY RestingWorker DEF Resting, Work, InSession, Coherent
    <2>3. work' \in [Workers -> Work] /\ \A v \in Workers : Coherent(work'[v])
      BY <2>1, <2>2, WorkUpdated
    <2>. QED
      BY <1>3, <1>a, <1>d, <2>1, <2>3, QueueSteps DEF PickJob, dbVars
  <1>4. ASSUME NEW w \in Workers, ExhaustJob(w)
        PROVE  TypeInv'
    BY <1>4, <1>a, <1>d, QueueSteps DEF ExhaustJob, dbVars
  <1>5. ASSUME NEW w \in Workers, StartAttempt(w)
        PROVE  TypeInv'
    <2> DEFINE back == [work[w] EXCEPT !.pc = "committed"]
    <2>1. back \in Work /\ back.pc = "committed" /\ back.job = work[w].job
      BY <1>a DEF Work, InSession
    <2>2. Coherent(back)
      BY <1>5, <1>a, <2>1 DEF Coherent, StartAttempt
    <2>3. work' \in [Workers -> Work] /\ \A v \in Workers : Coherent(work'[v])
      <3>1. CASE Does(w, back)
        BY <2>1, <2>2, <3>1, WorkUpdated
      <3>2. CASE \E agent \in FirstAgents(KindOf[work[w].job]) : Calling(w, agent)
        BY <1>5, <3>2, CallingWorker DEF StartAttempt
      <3>. QED
        BY <1>5, <3>1, <3>2 DEF StartAttempt
    <2>. QED
      BY <1>5, <1>a, <1>b, <1>d, <2>3 DEF StartAttempt, dbVars
  <1>6. ASSUME NEW w \in Workers, Call(w)
        PROVE  TypeInv'
    <2>1. failures' \in Nat
      BY <1>6, <1>a DEF Call
    <2>. QED
      BY <1>6, <1>a, <1>b, <1>d, <2>1, CallResult DEF Call
  <1>7. ASSUME NEW w \in Workers, RecordRun(w)
        PROVE  TypeInv'
    BY <1>7, <1>a, <1>b, <1>d, RecordRunResult DEF RecordRun, dbVars
  <1>8. ASSUME NEW w \in Workers, CallRaises(w)
        PROVE  TypeInv'
    <2>1. PICK e \in {"error", "rerun"} : Does(w, [work[w] EXCEPT !.pc = "failing", !.exit = e])
      BY <1>8 DEF CallRaises
    <2> DEFINE mine == [work[w] EXCEPT !.pc = "failing", !.exit = e]
    <2>2. mine \in Work /\ mine.pc = "failing" /\ mine.job = work[w].job
      <3>1. work[w] \in Work
        BY <1>a
      <3>. QED
        BY <3>1 DEF Work
    <2>3. Coherent(mine)
      BY <1>8, <1>a, <2>2 DEF Coherent, CallRaises
    <2>4. work' \in [Workers -> Work] /\ \A v \in Workers : Coherent(work'[v])
      BY <2>1, <2>2, <2>3, WorkUpdated
    <2>. QED
      BY <1>8, <1>a, <1>b, <1>c, <1>d, <2>4 DEF CallRaises
  <1>9. ASSUME NEW w \in Workers, work[w].pc = "failing", Raised(w)
        PROVE  work' \in [Workers -> Work] /\ \A v \in Workers : Coherent(work'[v])
    <2> DEFINE mine == [work[w] EXCEPT !.pc = "raised", !.agent = "none", !.calls = 0, !.ok = 0,
                                       !.unpriced = 0, !.drafts = NoCaptions]
    <2>1. /\ 0 \in 0..(Retries + 1) /\ 0 \in 0..2
          /\ "raised" \in InSession \cup {"idle", "failing", "committed", "raised"}
          /\ "none" \in Agents \cup {"none"}
      BY ReportsTriesAssumption
    <2>a. mine \in Work
      <3>1. work[w] \in Work
        BY <1>a
      <3> HIDE DEF NoCaptions
      <3>. QED
        BY <2>1, <3>1, NoCaptionsType DEF Work
    <2>2. mine \in Work /\ mine.pc = "raised" /\ mine.job = work[w].job
      <3>1. work[w] \in Work
        BY <1>a
      <3> HIDE DEF NoCaptions
      <3>. QED
        BY <2>a, <3>1 DEF Work
    <2>3. Coherent(mine)
      BY <1>9, <1>a, <2>2 DEF Coherent
    <2>. QED
      BY <1>9, <2>2, <2>3, WorkUpdated DEF Raised
  <1>10. ASSUME NEW w \in Workers, RecordFailedRun(w)
         PROVE  TypeInv'
    <2>1. rows' \in Count
      <3>1. rows.error + 1 \in Nat /\ rows.unpriced + 1 \in Nat
        BY <1>a DEF Count
      <3>2. rows' = [rows EXCEPT !.error = rows.error + 1, !.unpriced = rows.unpriced + 1]
        BY <1>10, <1>a DEF RecordFailedRun, WithErrorRow, Count
      <3>. QED
        BY <1>a, <3>1, <3>2 DEF Count
    <2>2. Finite'
      BY <1>10, <1>a, <1>b DEF RecordFailedRun, Finite
    <2>3. work' \in [Workers -> Work] /\ \A v \in Workers : Coherent(work'[v])
      BY <1>9, <1>10 DEF RecordFailedRun
    <2>. QED
      BY <1>10, <1>a, <1>b, <2>1, <2>2, <2>3, WorkerTypeInv DEF RecordFailedRun
  <1>11. ASSUME NEW w \in Workers, FailedRunUnwritten(w)
         PROVE  TypeInv'
    <2>1. work' \in [Workers -> Work] /\ \A v \in Workers : Coherent(work'[v])
      BY <1>9, <1>11 DEF FailedRunUnwritten
    <2>. QED
      BY <1>11, <1>a, <1>b, <1>c, <1>d, <2>1 DEF FailedRunUnwritten
  <1>12. ASSUME NEW w \in Workers, CommitAttempt(w)
         PROVE  TypeInv'
    <2> DEFINE mine == work[w]
               left == [Resting EXCEPT !.pc = "committed", !.job = mine.job]
    <2>1. mine.pc = "persist" /\ mine.job \in Jobs
      BY <1>12, <1>a DEF CommitAttempt, Coherent
    <2>2. mine.ok \in Nat /\ mine.unpriced \in Nat /\ mine.drafts \in [Platforms -> 0..2]
      BY <1>a DEF Work
    <2>3. rows' \in Count
      <3>1. rows.ok + mine.ok \in Nat /\ rows.unpriced + mine.unpriced \in Nat
        BY <1>a, <2>2 DEF Count
      <3>2. rows' = [rows EXCEPT !.ok = rows.ok + mine.ok, !.unpriced = rows.unpriced + mine.unpriced]
        BY <1>12, <1>a DEF CommitAttempt, Count
      <3>. QED
        BY <1>a, <3>1, <3>2 DEF Count
    <2>4. captions' \in [Assets -> [Platforms -> Nat]]
      <3> DEFINE added(a, p) == IF a = SubjectOf[mine.job] THEN mine.drafts[p] ELSE 0
      <3>1. \A a \in Assets, p \in Platforms : added(a, p) \in Nat
        BY <2>2
      <3>2. \A a \in Assets, p \in Platforms : captions[a][p] \in Nat
        BY <1>a
      <3>3. \A a \in Assets, p \in Platforms : captions[a][p] + added(a, p) \in Nat
        BY <3>1, <3>2
      <3>4. captions' = [a \in Assets |-> [p \in Platforms |-> captions[a][p] + added(a, p)]]
        BY <1>12 DEF CommitAttempt, WithCaptions
      <3>. HIDE DEF added
      <3>. QED
        BY <3>3, <3>4
    <2>5. done' = done \cup {SubjectOf[mine.job]}
      BY <1>12 DEF CommitAttempt
    <2>6. drafted' \in {drafted, drafted \cup ({mine.job} \cap Comments)}
      BY <1>12 DEF CommitAttempt, WithDraft
    <2>a. mine.job \in Comments => SubjectOf[mine.job] = mine.job
      BY <2>1, ReportsSubjectsAssumption DEF Comments
    <2>7. drafted' \subseteq done' \cap Comments /\ done' \subseteq Subjects /\ sent' \subseteq drafted'
      BY <1>12, <1>a, <2>1, <2>5, <2>6, <2>a DEF CommitAttempt, Subjects
    <2>8. left \in Work /\ Coherent(left)
      BY <2>1, RestingWorker DEF Resting, Work, InSession, Coherent
    <2>9. work' \in [Workers -> Work] /\ \A v \in Workers : Coherent(work'[v])
      BY <1>12, <2>8, WorkUpdated DEF CommitAttempt
    <2>10. Finite'
      <3>1. IsFiniteSet(done')
        BY <1>a, <2>5, FS_AddElement DEF Finite
      <3>. QED
        BY <1>a, <1>12, <1>b, <3>1 DEF CommitAttempt, Finite
    <2>. QED
      BY <1>12, <1>a, <1>b, <2>3, <2>4, <2>7, <2>9, <2>10, WorkerTypeInv DEF CommitAttempt
  <1>13. ASSUME NEW w \in Workers, FailAttempt(w)
         PROVE  TypeInv'
    <2>0. PICK e \in {"error", "rerun"} :
            Does(w, [Resting EXCEPT !.pc = "raised", !.job = work[w].job, !.exit = e])
      BY <1>13 DEF FailAttempt
    <2> DEFINE mine == [Resting EXCEPT !.pc = "raised", !.job = work[w].job, !.exit = e]
    <2>1. work[w].job \in Jobs
      BY <1>13, <1>a DEF FailAttempt, Coherent
    <2>2. mine \in Work /\ Coherent(mine)
      BY <2>1, RestingWorker DEF Resting, Work, InSession, Coherent
    <2>3. work' \in [Workers -> Work] /\ \A v \in Workers : Coherent(work'[v])
      BY <2>0, <2>2, WorkUpdated
    <2>. QED
      BY <1>13, <1>a, <1>b, <1>c, <1>d, <2>3 DEF FailAttempt, dbVars
  <1>14. ASSUME NEW w \in Workers, LeaveJob(w)
         PROVE  TypeInv'
    <2>1. work[w].job \in Jobs
      BY <1>14, <1>a DEF LeaveJob, Coherent
    <2>2. QueueTypeOK' /\ IsFiniteSet(queue') /\ IsFiniteSet(inProgress')
      BY <1>14, <2>1, QueueSteps DEF LeaveJob
    <2>3. work' \in [Workers -> Work] /\ \A v \in Workers : Coherent(work'[v])
      BY <1>14, RestingWorker, WorkUpdated DEF LeaveJob
    <2>. QED
      BY <1>14, <1>a, <1>d, <2>2, <2>3 DEF LeaveJob, dbVars
  <1>15. ASSUME NEW w \in Workers, CrashWorker(w)
         PROVE  TypeInv'
    <2>1. work' \in [Workers -> Work] /\ \A v \in Workers : Coherent(work'[v])
      BY <1>15, RestingWorker, WorkUpdated DEF CrashWorker
    <2>2. unwritten' \in Nat
      BY <1>15, <1>a DEF CrashWorker
    <2>. QED
      BY <1>15, <1>a, <1>b, <1>c, <1>d, <2>1, <2>2 DEF CrashWorker
  <1>16. CASE Publish
    <2>1. sent' \subseteq drafted
      BY <1>16, <1>a DEF Publish
    <2>2. Finite'
      BY <1>16, <1>a, <1>b DEF Publish, Finite
    <2>. QED
      BY <1>16, <1>a, <1>b, <2>1, <2>2, WorkerTypeInv DEF Publish
  <1>17. CASE Read
    BY <1>17, ReadTypeInv
  <1>18. CASE RequestFails
    <2>1. report' \in Reports /\ Paced'
      BY <1>18 DEF RequestFails, Becomes, TypeInv, TypeOK, Reports, Paced
    <2>. QED
      BY <1>18, <1>c, <2>1, ReaderTypeInv DEF RequestFails
  <1>19. CASE UNCHANGED vars
    BY <1>19, <1>a, <1>b, <1>d DEF vars, dbVars
  <1>. QED
    BY <1>1, <1>2, <1>3, <1>4, <1>5, <1>6, <1>7, <1>8, <1>10, <1>11, <1>12, <1>13, <1>14, <1>15,
       <1>16, <1>17, <1>18, <1>19
    DEF Next, Step, Faulty

\* The state of Reports has its type in every reachable state: no invocation is
\* retried more often than its agent allows, and no counter of a poll runs over.
THEOREM ReportsTypes == Spec => []TypeOK
  <1>1. Init => TypeInv
    BY InitTypeInv
  <1>2. TypeInv /\ [Next]_vars => TypeInv'
    BY NextTypeInv
  <1>3. TypeInv => TypeOK
    BY DEF TypeInv
  <1>. QED
    BY <1>1, <1>2, <1>3, PTL DEF Spec

-----------------------------------------------------------------------------
(* Every failure is on record.                                             *)

\* The workers that are about to write an error row.
Failing == {w \in Workers : work[w].pc = "failing"}

RecordInv == IsFiniteSet(Failing) /\ FailuresAreOnRecord

LEMMA InitRecordInv == Init => RecordInv
  <1> SUFFICES ASSUME Init PROVE RecordInv
    OBVIOUS
  <1>1. Failing = {}
    BY DEF Init, Failing, Resting
  <1>. QED
    BY <1>1, FS_EmptySet DEF Init, RecordInv, FailuresAreOnRecord, Failing, NoRows

\* A worker joins the failing ones, or leaves them, or neither.
LEMMA FailingCount ==
    ASSUME IsFiniteSet(Failing), NEW w \in Workers
    PROVE  /\ Cardinality(Failing) \in Nat
           /\ IsFiniteSet(Failing \cup {w}) /\ IsFiniteSet(Failing \ {w})
           /\ w \notin Failing => Cardinality(Failing \cup {w}) = Cardinality(Failing) + 1
           /\ w \in Failing => Cardinality(Failing \ {w}) = Cardinality(Failing) - 1
  BY FS_CardinalityType, FS_AddElement, FS_RemoveElement

LEMMA NextRecordInv == TypeInv /\ RecordInv /\ [Next]_vars => RecordInv'
  <1> SUFFICES ASSUME TypeInv, RecordInv, [Next]_vars PROVE RecordInv'
    OBVIOUS
  <1>a. /\ rows \in Count /\ rows.error \in Nat /\ failures \in Nat /\ unwritten \in Nat
        /\ IsFiniteSet(Failing) /\ Cardinality(Failing) \in Nat
        /\ rows.error + unwritten + Cardinality(Failing) = failures
        /\ \A w \in Workers : work[w] \in Work
        /\ work \in [Workers -> Work]
    BY FS_CardinalityType DEF TypeInv, TypeOK, RecordInv, FailuresAreOnRecord, Failing, Count
  <1>b. ASSUME IsFiniteSet(Failing'), rows'.error + unwritten' + Cardinality(Failing') = failures'
        PROVE  RecordInv'
    BY <1>b DEF RecordInv, FailuresAreOnRecord, Failing
  <1>c. ASSUME rows'.error = rows.error, UNCHANGED <<failures, unwritten>>, Failing' = Failing
        PROVE  RecordInv'
    BY <1>a, <1>b, <1>c
  \* One worker goes from one stage to another, neither of which is failing.
  <1>d. ASSUME NEW w \in Workers, NEW mine, Does(w, mine), mine.pc # "failing", work[w].pc # "failing",
               rows'.error = rows.error, UNCHANGED <<failures, unwritten>>
        PROVE  RecordInv'
    <2>1. Failing' = Failing
      BY <1>a, <1>d DEF Failing, Does
    <2>. QED
      BY <1>c, <1>d, <2>1
  \* A worker joins: one more failure.
  <1>e. ASSUME NEW w \in Workers, NEW mine, Does(w, mine), mine.pc = "failing", work[w].pc # "failing",
               UNCHANGED <<rows, unwritten>>, failures' = failures + 1
        PROVE  RecordInv'
    <2>1. Failing' = Failing \cup {w} /\ w \notin Failing
      BY <1>a, <1>e DEF Failing, Does
    <2>2. IsFiniteSet(Failing') /\ Cardinality(Failing') = Cardinality(Failing) + 1
      BY <1>a, <2>1, FailingCount
    <2>3. rows'.error = rows.error /\ unwritten' = unwritten
      BY <1>e
    <2>4. rows'.error + unwritten' + Cardinality(Failing') = failures'
      BY <1>a, <1>e, <2>2, <2>3
    <2>. QED
      BY <1>b, <2>2, <2>4
  \* A worker leaves: its row is written, or is known not to be.
  <1>f. ASSUME NEW w \in Workers, NEW mine, Does(w, mine), mine.pc # "failing", work[w].pc = "failing",
               UNCHANGED failures,
               \/ rows'.error = rows.error + 1 /\ UNCHANGED unwritten
               \/ rows'.error = rows.error /\ unwritten' = unwritten + 1
        PROVE  RecordInv'
    <2>1. Failing' = Failing \ {w} /\ w \in Failing
      BY <1>a, <1>f DEF Failing, Does
    <2>2. IsFiniteSet(Failing') /\ Cardinality(Failing') = Cardinality(Failing) - 1
      BY <1>a, <2>1, FailingCount
    <2>3. rows'.error + unwritten' = rows.error + unwritten + 1
      BY <1>a, <1>f
    <2>4. rows'.error + unwritten' + Cardinality(Failing') = failures'
      BY <1>a, <1>f, <2>2, <2>3
    <2>. QED
      BY <1>b, <2>2, <2>4
  <1>1. ASSUME NEW j \in Jobs, Submit(j) \/ ExpireInProgress(j)
        PROVE  RecordInv'
    BY <1>1, <1>c DEF Submit, ExpireInProgress, dbVars, Failing
  <1>2. ASSUME NEW w \in Workers, PickJob(w)
        PROVE  RecordInv'
    <2>1. PICK j \in Jobs : Does(w, [Resting EXCEPT !.pc = "start", !.job = j])
      BY <1>2 DEF PickJob
    <2>2. [Resting EXCEPT !.pc = "start", !.job = j].pc = "start"
      BY DEF Resting
    <2>. QED
      BY <1>2, <1>d, <2>1, <2>2 DEF PickJob, dbVars
  <1>3. ASSUME NEW w \in Workers, ExhaustJob(w)
        PROVE  RecordInv'
    BY <1>3, <1>c DEF ExhaustJob, dbVars, Failing
  <1>4. ASSUME NEW w \in Workers, StartAttempt(w)
        PROVE  RecordInv'
    <2>1. work[w].pc = "start" /\ UNCHANGED <<rows, failures, unwritten>>
      BY <1>4 DEF StartAttempt, dbVars
    <2>2. CASE Does(w, [work[w] EXCEPT !.pc = "committed"])
      <3>1. [work[w] EXCEPT !.pc = "committed"].pc = "committed"
        BY <1>a DEF Work
      <3>. QED
        BY <1>d, <2>1, <2>2, <3>1
    <2>3. CASE \E agent \in FirstAgents(KindOf[work[w].job]) : Calling(w, agent)
      <3>1. PICK agent \in FirstAgents(KindOf[work[w].job]) : Calling(w, agent)
        BY <2>3
      <3> DEFINE mine == [work[w] EXCEPT !.agent = agent, !.calls = 0,
                                         !.pc = IF agent = "none" THEN "persist" ELSE "calling"]
      <3>2. mine.pc \in {"persist", "calling"}
        BY <1>a DEF Work
      <3>3. Does(w, mine)
        BY <3>1 DEF Calling
      <3>. QED
        BY <1>d, <2>1, <3>2, <3>3
    <2>. QED
      BY <1>4, <2>2, <2>3 DEF StartAttempt
  <1>5. ASSUME NEW w \in Workers, Call(w)
        PROVE  RecordInv'
    <2>1. PICK mine : Does(w, mine)
      BY <1>5, Zenon DEF Call
    <2>2. work'[w] = mine
      BY <1>a, <2>1 DEF Does
    <2>3. work[w].pc = "calling" /\ UNCHANGED <<rows, unwritten>>
      BY <1>5 DEF Call
    <2>4. failures' = IF mine.pc = "failing" THEN failures + 1 ELSE failures
      BY <1>5, <2>2 DEF Call
    <2>5. CASE mine.pc = "failing"
      BY <1>e, <2>1, <2>3, <2>4, <2>5
    <2>6. CASE mine.pc # "failing"
      BY <1>d, <2>1, <2>3, <2>4, <2>6
    <2>. QED
      BY <2>5, <2>6
  <1>6. ASSUME NEW w \in Workers, CallRaises(w)
        PROVE  RecordInv'
    <2>1. PICK e \in {"error", "rerun"} : Does(w, [work[w] EXCEPT !.pc = "failing", !.exit = e])
      BY <1>6 DEF CallRaises
    <2>2. [work[w] EXCEPT !.pc = "failing", !.exit = e].pc = "failing"
      BY <1>a DEF Work
    <2>. QED
      BY <1>6, <1>e, <2>1, <2>2 DEF CallRaises
  <1>7. ASSUME NEW w \in Workers, RecordRun(w)
        PROVE  RecordInv'
    <2>1. PICK next \in NextAgents(work[w].agent), n \in Unpriced :
            Does(w, [work[w] EXCEPT
                      !.ok = work[w].ok + 1, !.unpriced = work[w].unpriced + n, !.agent = next, !.calls = 0,
                      !.pc = IF next = "none" THEN "persist" ELSE "calling"])
      BY <1>7, Zenon DEF RecordRun
    <2> DEFINE mine == [work[w] EXCEPT
                      !.ok = work[w].ok + 1, !.unpriced = work[w].unpriced + n, !.agent = next, !.calls = 0,
                      !.pc = IF next = "none" THEN "persist" ELSE "calling"]
    <2>2. mine.pc \in {"persist", "calling"}
      BY <1>a DEF Work
    <2>. QED
      BY <1>7, <1>d, <2>1, <2>2 DEF RecordRun, dbVars
  <1>8. ASSUME NEW w \in Workers, RecordFailedRun(w)
        PROVE  RecordInv'
    <2>1. rows'.error = rows.error + 1
      BY <1>8, <1>a DEF RecordFailedRun, WithErrorRow, Count
    <2> DEFINE mine == [work[w] EXCEPT !.pc = "raised", !.agent = "none", !.calls = 0, !.ok = 0,
                                       !.unpriced = 0, !.drafts = NoCaptions]
    <2>2. mine.pc = "raised"
      BY <1>a DEF Work
    <2>3. Does(w, mine)
      BY <1>8 DEF RecordFailedRun, Raised
    <2>. QED
      BY <1>8, <1>f, <2>1, <2>2, <2>3 DEF RecordFailedRun
  <1>9. ASSUME NEW w \in Workers, FailedRunUnwritten(w)
        PROVE  RecordInv'
    <2> DEFINE mine == [work[w] EXCEPT !.pc = "raised", !.agent = "none", !.calls = 0, !.ok = 0,
                                       !.unpriced = 0, !.drafts = NoCaptions]
    <2>1. mine.pc = "raised"
      BY <1>a DEF Work
    <2>2. Does(w, mine)
      BY <1>9 DEF FailedRunUnwritten, Raised
    <2>. QED
      BY <1>9, <1>f, <2>1, <2>2 DEF FailedRunUnwritten
  <1>10. ASSUME NEW w \in Workers, CommitAttempt(w)
         PROVE  RecordInv'
    <2>1. rows'.error = rows.error
      BY <1>10, <1>a DEF CommitAttempt, Count
    <2>2. [Resting EXCEPT !.pc = "committed", !.job = work[w].job].pc = "committed"
      BY DEF Resting
    <2>. QED
      BY <1>10, <1>d, <2>1, <2>2 DEF CommitAttempt
  <1>11. ASSUME NEW w \in Workers, FailAttempt(w)
         PROVE  RecordInv'
    <2>1. PICK e \in {"error", "rerun"} :
            Does(w, [Resting EXCEPT !.pc = "raised", !.job = work[w].job, !.exit = e])
      BY <1>11 DEF FailAttempt
    <2>2. [Resting EXCEPT !.pc = "raised", !.job = work[w].job, !.exit = e].pc = "raised"
      BY DEF Resting
    <2>. QED
      BY <1>11, <1>d, <2>1, <2>2 DEF FailAttempt, dbVars
  <1>12. ASSUME NEW w \in Workers, LeaveJob(w)
         PROVE  RecordInv'
    BY <1>12, <1>d DEF LeaveJob, dbVars, Resting
  <1>13. ASSUME NEW w \in Workers, CrashWorker(w)
         PROVE  RecordInv'
    <2>1. Resting.pc = "idle" /\ Does(w, Resting) /\ UNCHANGED <<rows, failures>>
      BY <1>13 DEF CrashWorker, Resting
    <2>2. CASE work[w].pc = "failing"
      BY <1>13, <1>f, <2>1, <2>2 DEF CrashWorker
    <2>3. CASE work[w].pc # "failing"
      BY <1>13, <1>d, <2>1, <2>3 DEF CrashWorker
    <2>. QED
      BY <2>2, <2>3
  <1>14. CASE Publish
    BY <1>14, <1>c DEF Publish, Failing
  <1>15. CASE Read
    BY <1>15, <1>c
    DEF Read, AskAnalytics, AskPage, ReadRows, ReadTotals, ReadWindow, ReadSentiment, ReadCategories,
        ReadResponses, MeasureIngested, PollQueued, PollRunning, MissPoll, Having, Reader, dbVars, Failing
  <1>16. CASE RequestFails
    BY <1>16, <1>c DEF RequestFails, Reader, dbVars, Failing
  <1>17. CASE UNCHANGED vars
    BY <1>17, <1>c DEF vars, dbVars, Failing
  <1>. QED
    BY <1>1, <1>2, <1>3, <1>4, <1>5, <1>6, <1>7, <1>8, <1>9, <1>10, <1>11, <1>12, <1>13, <1>14,
       <1>15, <1>16, <1>17
    DEF Next, Step, Faulty

\* Whatever an attempt's session rolls back and however many workers fail at once,
\* each invocation that raised has its error row, is about to write it, or is one
\* that could not.
THEOREM FailuresStayOnRecord == Spec => []FailuresAreOnRecord
  <1>1. Init => TypeInv /\ RecordInv
    BY InitTypeInv, InitRecordInv
  <1>2. TypeInv /\ RecordInv /\ [Next]_vars => (TypeInv /\ RecordInv)'
    BY NextTypeInv, NextRecordInv
  <1>3. RecordInv => FailuresAreOnRecord
    BY DEF RecordInv
  <1>. QED
    BY <1>1, <1>2, <1>3, PTL DEF Spec

-----------------------------------------------------------------------------
(* Captions.                                                               *)

\* Only a commit touches what is finished and the captions.
LEMMA OnlyCommitsFinish ==
    ASSUME TypeInv, [Next]_vars, ~(UNCHANGED <<done, captions>>)
    PROVE  \E w \in Workers : CommitAttempt(w)
  <1>1. ASSUME NEW j \in Jobs, Submit(j) \/ ExpireInProgress(j)
        PROVE  UNCHANGED <<done, captions>>
    BY <1>1 DEF Submit, ExpireInProgress, dbVars
  <1>2. ASSUME NEW w \in Workers, Step(w), ~CommitAttempt(w)
        PROVE  UNCHANGED <<done, captions>>
    BY <1>2
    DEF Step, PickJob, ExhaustJob, StartAttempt, Call, RecordRun, RecordFailedRun, LeaveJob, dbVars
  <1>3. ASSUME NEW w \in Workers, Faulty(w)
        PROVE  UNCHANGED <<done, captions>>
    BY <1>3 DEF Faulty, CallRaises, FailedRunUnwritten, FailAttempt, CrashWorker, dbVars
  <1>4. Publish => UNCHANGED <<done, captions>>
    BY DEF Publish
  <1>5. Read \/ RequestFails => UNCHANGED <<done, captions>>
    BY DEF Read, AskAnalytics, AskPage, ReadRows, ReadTotals, ReadWindow, ReadSentiment,
           ReadCategories, ReadResponses, MeasureIngested, PollQueued, PollRunning, MissPoll, Having,
           RequestFails, Reader, dbVars
  <1>6. UNCHANGED vars => UNCHANGED <<done, captions>>
    BY DEF vars, dbVars
  <1>. QED
    BY <1>1, <1>2, <1>3, <1>4, <1>5, <1>6 DEF Next

\* A commit of an attempt changes the captions of its own photo, by one for each
\* platform.
LEMMA CommittedCaptions ==
    ASSUME TypeInv, NEW w \in Workers, CommitAttempt(w), NEW a \in Assets,
           captions'[a] # captions[a] \/ a \in done' \ done
    PROVE  /\ a \in done'
           /\ \A p \in Platforms : captions'[a][p] = captions[a][p] + 1
           /\ rows'.ok = rows.ok + 2
  <1> DEFINE mine == work[w]
  <1>1. mine \in Work /\ Coherent(mine) /\ mine.pc = "persist" /\ rows \in Count
    BY DEF CommitAttempt, TypeInv, TypeOK
  <1>2. mine.job \in Jobs /\ mine.drafts \in [Platforms -> 0..2]
    BY <1>1 DEF Coherent, Work
  <1>3. captions \in [Assets -> [Platforms -> Nat]]
    BY DEF TypeInv, TypeOK
  <1>4. /\ captions' = WithCaptions(mine)
        /\ done' = done \cup {SubjectOf[mine.job]}
        /\ rows'.ok = rows.ok + mine.ok
    BY <1>1 DEF CommitAttempt, Count
  <1>5. a = SubjectOf[mine.job]
    <2> SUFFICES ASSUME a # SubjectOf[mine.job] PROVE FALSE
      OBVIOUS
    <2>1. captions'[a] = [p \in Platforms |-> captions[a][p] + 0]
      BY <1>4 DEF WithCaptions
    <2>2. captions'[a] = captions[a]
      BY <1>3, <2>1
    <2>. QED
      BY <1>4, <2>2
  <1>6. KindOf[mine.job] = "asset"
    BY <1>2, <1>5, ReportsSubjectsAssumption DEF Assets
  <1>7. OneDraftPerPlatform(mine.drafts) /\ mine.ok = 2
    BY <1>1, <1>6 DEF Coherent
  <1>8. ASSUME NEW p \in Platforms PROVE captions'[a][p] = captions[a][p] + 1
    <2>1. captions'[a] = [q \in Platforms |-> captions[a][q] + mine.drafts[q]]
      BY <1>4, <1>5 DEF WithCaptions
    <2>2. mine.drafts[p] = 1
      BY <1>7 DEF OneDraftPerPlatform
    <2>. QED
      BY <2>1, <2>2
  <1>. QED
    BY <1>4, <1>5, <1>7, <1>8

\* However many jobs a photo has and however they overlap, fail and are run again,
\* and whatever the model answers, an attempt that commits adds one caption for each
\* platform, together with the analysis and the audit rows of both its agents.
THEOREM CommitsAddWholeSets == Spec => OneSetPerCommit
  <1> DEFINE OneSet == \A a \in Assets :
                         captions'[a] # captions[a] \/ a \in done' \ done =>
                           /\ a \in done'
                           /\ \A p \in Platforms : captions'[a][p] = captions[a][p] + 1
                           /\ rows'.ok = rows.ok + 2
  <1>1. Init => TypeInv
    BY InitTypeInv
  <1>2. TypeInv /\ [Next]_vars => TypeInv'
    BY NextTypeInv
  <1>3. TypeInv /\ [Next]_vars => [OneSet]_vars
    <2> SUFFICES ASSUME TypeInv, [Next]_vars, NEW a \in Assets,
                        captions'[a] # captions[a] \/ a \in done' \ done
                 PROVE  /\ a \in done'
                        /\ \A p \in Platforms : captions'[a][p] = captions[a][p] + 1
                        /\ rows'.ok = rows.ok + 2
      OBVIOUS
    <2>1. PICK w \in Workers : CommitAttempt(w)
      BY OnlyCommitsFinish
    <2>. QED
      BY <2>1, CommittedCaptions
  <1>. QED
    BY <1>1, <1>2, <1>3, PTL DEF Spec, OneSetPerCommit

-----------------------------------------------------------------------------
(* A report that did not give up.                                          *)

\* A worker's job is queued and in progress, and no other worker's; what is in
\* progress is queued, and what is queued has no result.
HoldInv ==
    /\ \A w \in Workers : work[w].job # NoJob => work[w].job \in queue \cap inProgress
    /\ \A v, w \in Workers : v # w /\ work[v].job # NoJob => work[v].job # work[w].job
    /\ inProgress \subseteq queue
    /\ queue \cap results = {}

LEMMA InitHoldInv == Init => HoldInv
  BY DEF Init, QueueInit, HoldInv, Resting

LEMMA NextHoldInv == TypeInv /\ HoldInv /\ [Next]_vars => HoldInv'
  <1> SUFFICES ASSUME TypeInv, HoldInv, [Next]_vars PROVE HoldInv'
    OBVIOUS
  <1>a. work \in [Workers -> Work] /\ (\A w \in Workers : work[w] \in Work) /\ NoJob \notin Jobs
    BY ReportsJobsAssumption DEF TypeInv, TypeOK
  <1>b. Resting.job = NoJob
    BY DEF Resting
  \* Nobody takes a job or leaves one.
  <1>c. ASSUME UNCHANGED arqVars, \A v \in Workers : work'[v].job \in {work[v].job, NoJob}
        PROVE  HoldInv'
    BY <1>c DEF HoldInv, arqVars
  <1>d. ASSUME NEW w \in Workers, NEW mine, Does(w, mine), mine.job \in {work[w].job, NoJob}, UNCHANGED arqVars
        PROVE  HoldInv'
    BY <1>a, <1>c, <1>d DEF Does
  <1>1. ASSUME NEW j \in Jobs, Submit(j)
        PROVE  HoldInv'
    BY <1>1 DEF Submit, EnqueueJob, Known, HoldInv
  <1>2. ASSUME NEW j \in Jobs, ExpireInProgress(j)
        PROVE  HoldInv'
    BY <1>2 DEF ExpireInProgress, RerunJob, HoldInv
  <1>3. ASSUME NEW w \in Workers, PickJob(w)
        PROVE  HoldInv'
    <2>1. PICK j \in Jobs : StartJob(j) /\ Does(w, [Resting EXCEPT !.pc = "start", !.job = j])
      BY <1>3 DEF PickJob
    <2>2. [Resting EXCEPT !.pc = "start", !.job = j].job = j
      BY DEF Resting
    <2>3. work'[w].job = j /\ \A v \in Workers \ {w} : work'[v] = work[v]
      BY <1>a, <2>1, <2>2 DEF Does
    <2>. QED
      BY <2>1, <2>3 DEF StartJob, HoldInv
  <1>4. ASSUME NEW w \in Workers, ExhaustJob(w)
        PROVE  HoldInv'
    BY <1>4 DEF ExhaustJob, AbandonJob, FinishJob, HoldInv
  <1>5. ASSUME NEW w \in Workers, StartAttempt(w)
        PROVE  HoldInv'
    <2>1. UNCHANGED arqVars
      BY <1>5 DEF StartAttempt
    <2>2. CASE Does(w, [work[w] EXCEPT !.pc = "committed"])
      <3>1. [work[w] EXCEPT !.pc = "committed"].job = work[w].job
        BY <1>a DEF Work
      <3>. QED
        BY <1>d, <2>1, <2>2, <3>1
    <2>3. CASE \E agent \in FirstAgents(KindOf[work[w].job]) : Calling(w, agent)
      <3>1. PICK agent \in FirstAgents(KindOf[work[w].job]) : Calling(w, agent)
        BY <2>3
      <3> DEFINE mine == [work[w] EXCEPT !.agent = agent, !.calls = 0,
                                         !.pc = IF agent = "none" THEN "persist" ELSE "calling"]
      <3>2. mine.job = work[w].job
        BY <1>a DEF Work
      <3>3. Does(w, mine)
        BY <3>1 DEF Calling
      <3>. QED
        BY <1>d, <2>1, <3>2, <3>3
    <2>. QED
      BY <1>5, <2>2, <2>3 DEF StartAttempt
  <1>6. ASSUME NEW w \in Workers, Call(w)
        PROVE  HoldInv'
    <2>1. PICK mine : Does(w, mine) /\ mine.job = work[w].job
      <3> DEFINE agent == work[w].agent
                 answered(content) == [work[w] EXCEPT !.pc = "answered",
                                         !.drafts = IF agent = "content" THEN content ELSE work[w].drafts]
                 asked == [work[w] EXCEPT
                             !.calls = work[w].calls + 1,
                             !.pc = IF RetriesSpent(work[w].calls) THEN "failing" ELSE work[w].pc,
                             !.exit = IF RetriesSpent(work[w].calls) THEN "error" ELSE work[w].exit]
      <3>1. PICK form \in Forms, content \in Contents(agent) :
              IF Passes(agent, form, content) THEN Does(w, answered(content)) ELSE Does(w, asked)
        BY <1>6, Zenon DEF Call
      <3>2. answered(content).job = work[w].job /\ asked.job = work[w].job
        BY <1>a DEF Work
      <3>. QED
        BY <3>1, <3>2
    <2>2. UNCHANGED arqVars
      BY <1>6 DEF Call
    <2>. QED
      BY <1>d, <2>1, <2>2
  <1>7. ASSUME NEW w \in Workers, CallRaises(w)
        PROVE  HoldInv'
    <2>1. PICK e \in {"error", "rerun"} : Does(w, [work[w] EXCEPT !.pc = "failing", !.exit = e])
      BY <1>7 DEF CallRaises
    <2>2. [work[w] EXCEPT !.pc = "failing", !.exit = e].job = work[w].job
      BY <1>a DEF Work
    <2>. QED
      BY <1>7, <1>d, <2>1, <2>2 DEF CallRaises
  <1>8. ASSUME NEW w \in Workers, RecordRun(w)
        PROVE  HoldInv'
    <2>1. PICK next \in NextAgents(work[w].agent), n \in Unpriced :
            Does(w, [work[w] EXCEPT
                      !.ok = work[w].ok + 1, !.unpriced = work[w].unpriced + n, !.agent = next, !.calls = 0,
                      !.pc = IF next = "none" THEN "persist" ELSE "calling"])
      BY <1>8, Zenon DEF RecordRun
    <2> DEFINE mine == [work[w] EXCEPT
                      !.ok = work[w].ok + 1, !.unpriced = work[w].unpriced + n, !.agent = next, !.calls = 0,
                      !.pc = IF next = "none" THEN "persist" ELSE "calling"]
    <2>2. mine.job = work[w].job
      BY <1>a DEF Work
    <2>. QED
      BY <1>8, <1>d, <2>1, <2>2 DEF RecordRun
  <1>9. ASSUME NEW w \in Workers, RecordFailedRun(w) \/ FailedRunUnwritten(w)
        PROVE  HoldInv'
    <2> DEFINE mine == [work[w] EXCEPT !.pc = "raised", !.agent = "none", !.calls = 0, !.ok = 0,
                                       !.unpriced = 0, !.drafts = NoCaptions]
    <2>1. mine.job = work[w].job
      BY <1>a DEF Work
    <2>2. Does(w, mine) /\ UNCHANGED arqVars
      BY <1>9 DEF RecordFailedRun, FailedRunUnwritten, Raised
    <2>. QED
      BY <1>d, <2>1, <2>2
  <1>10. ASSUME NEW w \in Workers, CommitAttempt(w)
         PROVE  HoldInv'
    <2>1. [Resting EXCEPT !.pc = "committed", !.job = work[w].job].job = work[w].job
      BY DEF Resting
    <2>. QED
      BY <1>10, <1>d, <2>1 DEF CommitAttempt
  <1>11. ASSUME NEW w \in Workers, FailAttempt(w)
         PROVE  HoldInv'
    <2>1. PICK e \in {"error", "rerun"} :
            Does(w, [Resting EXCEPT !.pc = "raised", !.job = work[w].job, !.exit = e])
      BY <1>11 DEF FailAttempt
    <2>2. [Resting EXCEPT !.pc = "raised", !.job = work[w].job, !.exit = e].job = work[w].job
      BY DEF Resting
    <2>. QED
      BY <1>11, <1>d, <2>1, <2>2 DEF FailAttempt
  <1>12. ASSUME NEW w \in Workers, LeaveJob(w)
         PROVE  HoldInv'
    <2>1. work[w].job # NoJob
      BY <1>12, <1>a DEF LeaveJob, TypeInv, Coherent
    <2>2. work'[w].job = NoJob /\ \A v \in Workers \ {w} : work'[v] = work[v]
      BY <1>12, <1>a, <1>b DEF LeaveJob, Does
    <2>3. CASE RerunJob(work[w].job)
      BY <2>1, <2>2, <2>3 DEF RerunJob, HoldInv
    <2>4. CASE FinishJob(work[w].job)
      BY <2>1, <2>2, <2>4 DEF FinishJob, HoldInv
    <2>. QED
      BY <1>12, <2>3, <2>4 DEF LeaveJob
  <1>13. ASSUME NEW w \in Workers, CrashWorker(w)
         PROVE  HoldInv'
    BY <1>13, <1>b, <1>d DEF CrashWorker
  <1>14. ASSUME UNCHANGED <<work, arqVars>>
         PROVE  HoldInv'
    BY <1>14, <1>c
  <1>15. CASE Publish
    BY <1>14, <1>15 DEF Publish
  <1>16. CASE Read
    BY <1>14, <1>16
    DEF Read, AskAnalytics, AskPage, ReadRows, ReadTotals, ReadWindow, ReadSentiment, ReadCategories,
        ReadResponses, MeasureIngested, PollQueued, PollRunning, MissPoll, Having, Reader
  <1>17. CASE RequestFails
    BY <1>14, <1>17 DEF RequestFails, Reader
  <1>18. CASE UNCHANGED vars
    BY <1>14, <1>18 DEF vars
  <1>. QED
    BY <1>1, <1>2, <1>3, <1>4, <1>5, <1>6, <1>7, <1>8, <1>9, <1>10, <1>11, <1>12, <1>13,
       <1>15, <1>16, <1>17, <1>18
    DEF Next, Step, Faulty

\* A measurement that has begun has its dump in arq; once it has seen an empty
\* queue, the whole dump is finished.
DrainInv ==
    report.kind = "measure" =>
        /\ report.step = "start" => report.quiet = 0
        /\ report.step \in {"draining", "polled", "reading", "done"} => Comments \subseteq queue \cup results
        /\ report.step \in {"draining", "polled"} /\ report.quiet > 0 => Comments \subseteq results
        /\ report.step = "polled" /\ report.queued = 0 => Comments \subseteq results
        /\ report.step \in {"reading", "done"} /\ report.misses <= MaxMisses => Comments \subseteq results

LEMMA InitDrainInv == Init => DrainInv
  BY FirstReport DEF Init, DrainInv

\* Reading on changes neither the kind of a report nor what it missed.
LEMMA HavingMore ==
    ASSUME report \in Reports, report.step = "reading", NEW fields, Having(fields),
           DOMAIN fields = DOMAIN report,
           fields.step = report.step, fields.kind = report.kind, fields.misses = report.misses
    PROVE  /\ report'.kind = report.kind /\ report'.misses = report.misses
           /\ report'.step \in {"reading", "done"}
  <1> DEFINE step == IF report.reads = 2 THEN "done" ELSE fields.step
             reads == fields.reads + 1
  <1>1. report' = [fields EXCEPT !.reads = reads, !.step = step]
    BY DEF Having, Becomes
  <1>2. step \in {"reading", "done"}
    OBVIOUS
  <1>3. {"kind", "misses", "step"} \subseteq DOMAIN fields
    BY DEF Reports
  <1> HIDE DEF step, reads
  <1>. QED
    BY <1>1, <1>2, <1>3

LEMMA HavingRead ==
    ASSUME TypeInv, Read, report.step = "reading"
    PROVE  /\ report'.kind = report.kind /\ report'.misses = report.misses
           /\ report'.step \in {"reading", "done"}
  <1>a. report \in Reports
    BY DEF TypeInv, TypeOK
  <1>1. CASE ReadRows
    <2> DEFINE fields == [report EXCEPT !.listed = IF Total(rows) < PageSize THEN Total(rows) ELSE PageSize]
    <2>1. /\ DOMAIN fields = DOMAIN report /\ fields.step = report.step
          /\ fields.kind = report.kind /\ fields.misses = report.misses
      BY <1>a DEF Reports
    <2>2. Having(fields)
      BY <1>1 DEF ReadRows
    <2>. QED
      BY <1>a, <2>1, <2>2, HavingMore
  <1>2. CASE ReadTotals
    <2> DEFINE fields == [report EXCEPT !.total = Total(rows), !.errors = rows.error, !.unpriced = rows.unpriced]
    <2>1. /\ DOMAIN fields = DOMAIN report /\ fields.step = report.step
          /\ fields.kind = report.kind /\ fields.misses = report.misses
      BY <1>a DEF Reports
    <2>2. Having(fields)
      BY <1>2 DEF ReadTotals
    <2>. QED
      BY <1>a, <2>1, <2>2, HavingMore
  <1>3. CASE ReadWindow
    <2> DEFINE fields == [report EXCEPT !.window = Total(rows) > 0]
    <2>1. /\ DOMAIN fields = DOMAIN report /\ fields.step = report.step
          /\ fields.kind = report.kind /\ fields.misses = report.misses
      BY <1>a DEF Reports
    <2>2. Having(fields)
      BY <1>3 DEF ReadWindow
    <2>. QED
      BY <1>a, <2>1, <2>2, HavingMore
  <1>4. CASE ReadSentiment
    <2> DEFINE fields == [report EXCEPT !.sentiment = Cardinality(InRange(done))]
    <2>1. /\ DOMAIN fields = DOMAIN report /\ fields.step = report.step
          /\ fields.kind = report.kind /\ fields.misses = report.misses
      BY <1>a DEF Reports
    <2>2. Having(fields)
      BY <1>4 DEF ReadSentiment
    <2>. QED
      BY <1>a, <2>1, <2>2, HavingMore
  <1>5. CASE ReadCategories
    <2> DEFINE fields == [report EXCEPT !.categories = Cardinality(InRange(done))]
    <2>1. /\ DOMAIN fields = DOMAIN report /\ fields.step = report.step
          /\ fields.kind = report.kind /\ fields.misses = report.misses
      BY <1>a DEF Reports
    <2>2. Having(fields)
      BY <1>5 DEF ReadCategories
    <2>. QED
      BY <1>a, <2>1, <2>2, HavingMore
  <1>6. CASE ReadResponses
    <2>1. PICK delay \in [InRange(sent) -> Delays] :
            Having([report EXCEPT
                     !.published = Cardinality(InRange(sent)),
                     !.histogram = [b \in Buckets |->
                                      Cardinality({c \in InRange(sent) : InBucket(delay[c], b)})]])
      BY <1>6, Zenon DEF ReadResponses
    <2> DEFINE histogram == [b \in Buckets |-> Cardinality({c \in InRange(sent) : InBucket(delay[c], b)})]
               fields == [report EXCEPT !.published = Cardinality(InRange(sent)), !.histogram = histogram]
    <2>2. /\ DOMAIN fields = DOMAIN report /\ fields.step = report.step
          /\ fields.kind = report.kind /\ fields.misses = report.misses
      <3> HIDE DEF histogram
      <3>. QED
        BY <1>a DEF Reports
    <2>3. Having(fields)
      BY <2>1
    <2>. QED
      BY <1>a, <2>2, <2>3, HavingMore
  <1>. QED
    BY <1>1, <1>2, <1>3, <1>4, <1>5, <1>6
    DEF Read, AskAnalytics, AskPage, MeasureIngested, PollQueued, PollRunning, MissPoll

LEMMA NextDrainInv == TypeInv /\ HoldInv /\ DrainInv /\ [Next]_vars => DrainInv'
  <1> SUFFICES ASSUME TypeInv, HoldInv, DrainInv, [Next]_vars PROVE DrainInv'
    OBVIOUS
  <1>a. report \in Reports /\ report.quiet \in Nat /\ report.misses \in Nat /\ report.queued \in Nat
    BY ReportsBoundsAssumption DEF TypeInv, TypeOK, Reports
  <1>b. Cardinality(queue) \in Nat /\ Cardinality(inProgress) \in Nat
        /\ (Cardinality(queue) = 0 => queue = {})
    BY FS_CardinalityType, FS_EmptySet DEF TypeInv, Finite
  \* What is in arq stays there, and what is finished stays finished.
  <1>c. ASSUME UNCHANGED report, queue \cup results \subseteq (queue \cup results)', results \subseteq results'
        PROVE  DrainInv'
    BY <1>c DEF DrainInv
  <1>d. ASSUME NEW j \in Jobs, Submit(j) \/ ExpireInProgress(j)
        PROVE  DrainInv'
    BY <1>c, <1>d DEF Submit, EnqueueJob, ExpireInProgress, RerunJob
  <1>e. ASSUME NEW w \in Workers, Step(w)
        PROVE  DrainInv'
    <2>1. UNCHANGED report /\ queue \cup results \subseteq (queue \cup results)' /\ results \subseteq results'
      BY <1>e
      DEF Step, PickJob, StartJob, ExhaustJob, AbandonJob, FinishJob, StartAttempt, Call, RecordRun,
          RecordFailedRun, CommitAttempt, LeaveJob, RerunJob, arqVars
    <2>. QED
      BY <1>c, <2>1
  <1>f. ASSUME NEW w \in Workers, Faulty(w)
        PROVE  DrainInv'
    BY <1>c, <1>f DEF Faulty, CallRaises, FailedRunUnwritten, FailAttempt, CrashWorker, arqVars
  <1>g. CASE Publish \/ UNCHANGED vars
    BY <1>c, <1>g DEF Publish, vars, arqVars
  <1>h. ASSUME report'.step = "refused"
        PROVE  DrainInv'
    BY <1>h DEF DrainInv
  <1>i. CASE RequestFails
    <2>1. report'.step = "refused"
      BY <1>a, <1>i DEF RequestFails, Becomes, Reports
    <2>. QED
      BY <1>h, <2>1
  <1>j. CASE Read
    <2>1. UNCHANGED <<queue, results>>
      BY <1>j
      DEF Read, AskAnalytics, AskPage, ReadRows, ReadTotals, ReadWindow, ReadSentiment, ReadCategories,
          ReadResponses, MeasureIngested, PollQueued, PollRunning, MissPoll, Having, Reader, arqVars
    <2>2. CASE report.step = "reading"
      BY <1>j, <2>1, <2>2, HavingRead DEF DrainInv
    <2>3. CASE AskAnalytics
      <3>1. PICK from \in 0..Days, to \in 0..Days :
              LET end   == IF to = 0 THEN Days ELSE to
                  start == IF from = 0 THEN end - (DefaultDays - 1) ELSE from
              IN IF start > end \/ end - start + 1 > MaxDays
                 THEN Becomes([report EXCEPT !.step = "refused"])
                 ELSE Becomes([report EXCEPT !.step = "reading", !.from = start, !.to = end])
        BY <2>3, Zenon DEF AskAnalytics
      <3> DEFINE end   == IF to = 0 THEN Days ELSE to
                 start == IF from = 0 THEN end - (DefaultDays - 1) ELSE from
      <3>2. \/ report' = [report EXCEPT !.step = "refused"]
            \/ report' = [report EXCEPT !.step = "reading", !.from = start, !.to = end]
        BY <3>1 DEF Becomes
      <3>3. report.kind = "analytics"
        BY <2>3 DEF AskAnalytics
      <3>4. report'.kind = report.kind
        <4> HIDE DEF end, start
        <4>. QED
          BY <1>a, <3>2 DEF Reports
      <3>. QED
        BY <3>3, <3>4 DEF DrainInv
    <2>4. CASE AskPage
      <3>1. report'.kind = "page"
        BY <1>a, <2>4 DEF AskPage, Becomes, Reports
      <3>. QED
        BY <3>1 DEF DrainInv
    <2>5. CASE MeasureIngested
      <3>1. Comments \subseteq queue \cup results
        BY <2>5 DEF MeasureIngested, Known
      <3>2. PICK step \in {"draining", "refused"} : report' = [report EXCEPT !.step = step]
        BY <2>5 DEF MeasureIngested, Becomes
      <3>3. report'.step = step /\ report'.quiet = report.quiet /\ report'.kind = report.kind
        BY <1>a, <3>2 DEF Reports
      <3>4. report.step = "start"
        BY <2>5 DEF MeasureIngested
      <3>. QED
        BY <2>1, <3>1, <3>2, <3>3, <3>4 DEF DrainInv
    <2>6. CASE PollQueued
      <3>1. report' = [report EXCEPT !.step = "polled", !.queued = Cardinality(queue)] /\ report.step = "draining"
        BY <2>6 DEF PollQueued, Becomes
      <3>2. /\ report'.step = "polled" /\ report'.queued = Cardinality(queue)
            /\ report'.quiet = report.quiet /\ report'.kind = report.kind
        BY <1>a, <3>1 DEF Reports
      <3>. QED
        BY <1>b, <2>1, <3>1, <3>2 DEF DrainInv
    <2>7. CASE PollRunning
      <3> DEFINE quiet == QuietAfter(report.queued + Cardinality(inProgress))
                 step  == IF quiet = QuietPolls THEN "reading" ELSE "draining"
      <3>1. /\ report.step = "polled"
            /\ report' = [report EXCEPT !.queued = 0, !.misses = 0, !.quiet = quiet, !.step = step]
        BY <2>7 DEF PollRunning, Becomes
      <3>2. quiet > 0 => report.queued = 0
        BY <1>a, <1>b DEF QuietAfter
      <3>3. step = "reading" => quiet > 0
        BY ReportsBoundsAssumption
      <3>4. step \in {"reading", "draining"}
        OBVIOUS
      <3> HIDE DEF quiet, step
      <3>5. report'.step = step /\ report'.quiet = quiet /\ report'.kind = report.kind
        BY <1>a, <3>1 DEF Reports
      <3>. QED
        BY <2>1, <3>1, <3>2, <3>3, <3>4, <3>5 DEF DrainInv
    <2>8. CASE MissPoll
      <3> DEFINE misses == report.misses + 1
                 step == IF misses > MaxMisses \/ report.quiet = QuietPolls THEN "reading" ELSE "draining"
      <3>1. report.step \in {"draining", "polled"}
        BY <2>8 DEF MissPoll
      <3>2. report' = [report EXCEPT !.queued = 0, !.misses = misses, !.step = step]
        <4> DEFINE once == [report EXCEPT !.queued = 0]
                   after == [once EXCEPT !.misses = once.misses + 1]
        <4>1. once.misses = report.misses /\ DOMAIN once = DOMAIN report
          BY <1>a DEF Reports
        <4>2. after.misses = misses /\ after.quiet = report.quiet
          BY <1>a, <4>1 DEF Reports
        <4>3. report' = [after EXCEPT !.step = IF after.misses > MaxMisses \/ after.quiet = QuietPolls
                                               THEN "reading" ELSE "draining"]
          BY <2>8, Zenon DEF MissPoll, Missed, Becomes
        <4>4. report' = [after EXCEPT !.step = step]
          BY <4>2, <4>3
        <4> HIDE DEF step
        <4>. QED
          BY <1>a, <4>1, <4>4 DEF Reports
      <3>3. report.quiet < QuietPolls
        BY <3>1 DEF TypeInv, Paced
      <3>4. step = "reading" => misses > MaxMisses
        BY <1>a, <3>3, ReportsBoundsAssumption
      <3>5. step \in {"reading", "draining"} /\ misses \in Nat
        BY <1>a
      <3> HIDE DEF misses, step
      <3>6. report'.step = step /\ report'.misses = misses /\ report'.quiet = report.quiet /\ report'.kind = report.kind
        BY <1>a, <3>2 DEF Reports
      <3>7. ~(misses <= MaxMisses) \/ step # "reading"
        BY <3>4, <3>5, ReportsBoundsAssumption
      <3>. QED
        BY <2>1, <3>1, <3>5, <3>6, <3>7 DEF DrainInv
    <2>. QED
      BY <1>j, <2>2, <2>3, <2>4, <2>5, <2>6, <2>7, <2>8
      DEF Read, ReadRows, ReadTotals, ReadWindow, ReadSentiment, ReadCategories, ReadResponses, Reads
  <1>. QED
    BY <1>d, <1>e, <1>f, <1>g, <1>i, <1>j DEF Next

\* A measurement that did not give up is read when the dump is finished: every
\* comment's job has its result and no worker has one, whatever was polled, missed,
\* retried or expired meanwhile.
THEOREM MeasurementIsComplete == Spec => []ReportIsComplete
  <1>1. Init => TypeInv /\ HoldInv /\ DrainInv
    BY InitTypeInv, InitHoldInv, InitDrainInv
  <1>2. TypeInv /\ HoldInv /\ DrainInv /\ [Next]_vars => (TypeInv /\ HoldInv /\ DrainInv)'
    BY NextTypeInv, NextHoldInv, NextDrainInv
  <1>3. HoldInv /\ DrainInv => ReportIsComplete
    <2> SUFFICES ASSUME HoldInv, DrainInv, report.kind = "measure",
                        report.step \in {"reading", "done"}, report.misses <= MaxMisses
                 PROVE  Comments \subseteq results /\ \A w \in Workers : work[w].job \notin Comments
      BY DEF ReportIsComplete
    <2>1. Comments \subseteq results
      BY DEF DrainInv
    <2>2. NoJob \notin Comments
      BY ReportsJobsAssumption DEF Comments
    <2>. QED
      BY <2>1, <2>2 DEF HoldInv
  <1>. QED
    BY <1>1, <1>2, <1>3, PTL DEF Spec

-----------------------------------------------------------------------------
(* Counting by bucket.                                                     *)

\* Taking one bucket out of a set of buckets takes its elements out of the count.
LEMMA OneBucketLess ==
    ASSUME NEW A, IsFiniteSet(A), NEW B, NEW bucket \in [A -> B], NEW s \in SUBSET B, NEW x \in s
    PROVE  Cardinality({c \in A : bucket[c] \in s})
             = Cardinality({c \in A : bucket[c] = x}) + Cardinality({c \in A : bucket[c] \in s \ {x}})
  <1> DEFINE here  == {c \in A : bucket[c] = x}
             there == {c \in A : bucket[c] \in s \ {x}}
  <1>1. {c \in A : bucket[c] \in s} = here \cup there /\ here \cap there = {}
    OBVIOUS
  <1>2. here \in SUBSET A /\ there \in SUBSET A
    OBVIOUS
  <1> HIDE DEF here, there
  <1>3. IsFiniteSet(here) /\ IsFiniteSet(there)
    BY <1>2, FS_Subset
  <1>4. Cardinality(here) \in Nat /\ Cardinality(there) \in Nat
    BY <1>3, FS_CardinalityType
  <1>5. Cardinality(here \cup there) = Cardinality(here) + Cardinality(there) - Cardinality({})
    BY <1>1, <1>3, FS_Union
  <1>6. Cardinality({}) = 0
    BY FS_EmptySet
  <1>7. Cardinality(here \cup there) = Cardinality(here) + Cardinality(there)
    BY <1>4, <1>5, <1>6
  <1>. QED
    BY <1>1, <1>7 DEF here, there

\* The equation of a fold that adds up the function f, and what it computes.
Adds(f, B, g) ==
    g = [s \in SUBSET B |->
           IF s = {} THEN 0 ELSE f[CHOOSE x \in s : TRUE] + g[s \ {CHOOSE x \in s : TRUE}]]

\* The sizes of the buckets add up to the size of what they are filled with.
LEMMA BucketsAddUp ==
    ASSUME NEW A, IsFiniteSet(A), NEW B, IsFiniteSet(B), NEW bucket \in [A -> B]
    PROVE  SumFunction([b \in B |-> Cardinality({c \in A : bucket[c] = b})]) = Cardinality(A)
  <1> DEFINE f       == [b \in B |-> Cardinality({c \in A : bucket[c] = b})]
             upTo(s) == Cardinality({c \in A : bucket[c] \in s})
  <1>1. \A s \in SUBSET B : \A x \in s : upTo(s) = f[x] + upTo(s \ {x})
    BY OneBucketLess
  <1>2. upTo({}) = 0
    BY FS_EmptySet
  <1>3. upTo(B) = Cardinality(A)
    <2>1. {c \in A : bucket[c] \in B} = A
      OBVIOUS
    <2>. QED
      BY <2>1
  <1>4. DOMAIN f = B
    OBVIOUS
  <1> HIDE DEF f, upTo
  <1>5. \E g : Adds(f, B, g)
    <2> DEFINE g == [s \in SUBSET B |-> upTo(s)]
    <2>1. \A s \in SUBSET B :
            g[s] = IF s = {} THEN 0 ELSE f[CHOOSE x \in s : TRUE] + g[s \ {CHOOSE x \in s : TRUE}]
      BY <1>1, <1>2
    <2>2. g = [s \in SUBSET B |-> g[s]]
      OBVIOUS
    <2>3. Adds(f, B, g)
      BY <2>1, <2>2 DEF Adds
    <2>. QED
      BY <2>3
  \* A smallest set on which the fold is wrong is neither empty nor not.
  <1>6. ASSUME NEW g, Adds(f, B, g)
        PROVE  g[B] = upTo(B)
    <2> DEFINE Bad == {s \in SUBSET B : g[s] # upTo(s)}
    <2>1. SUFFICES ASSUME Bad # {} PROVE FALSE
      OBVIOUS
    <2>2. IsWellFoundedOn(StrictSubsetOrdering(B), SUBSET B)
      BY FS_StrictSubsetOrderingWellFounded, FS_FiniteSubsetsOfFinite
    <2>3. PICK s \in Bad : \A t \in Bad : ~ (<<t, s>> \in StrictSubsetOrdering(B))
      <3>1. Bad \subseteq SUBSET B
        OBVIOUS
      <3> HIDE DEF Bad
      <3>. QED
        BY <2>1, <2>2, <3>1, WFMin
    <2>4. CASE s = {}
      BY <1>2, <1>6, <2>4 DEF Adds
    <2>5. CASE s # {}
      <3> DEFINE x == CHOOSE x \in s : TRUE
      <3>1. x \in s
        BY <2>5
      <3>2. g[s] = f[x] + g[s \ {x}]
        BY <1>6, <2>5 DEF Adds
      <3> HIDE DEF x
      <3>3. <<s \ {x}, s>> \in StrictSubsetOrdering(B)
        BY <3>1 DEF StrictSubsetOrdering
      <3>4. g[s \ {x}] = upTo(s \ {x})
        BY <2>3, <3>3
      <3>. QED
        BY <1>1, <3>1, <3>2, <3>4
    <2>. QED
      BY <2>4, <2>5
  <1> DEFINE iter == CHOOSE g : Adds(f, B, g)
  <1>7. Adds(f, B, iter)
    BY <1>5
  <1>8. SumFunction(f) = iter[B]
    BY <1>4 DEF SumFunction, SumFunctionOnSet, FoldFunctionOnSet, MapThenFoldSet, Adds
  <1> HIDE DEF iter
  <1>9. SumFunction(f) = Cardinality(A)
    BY <1>3, <1>6, <1>7, <1>8
  <1>. QED
    BY <1>9 DEF f

\* A reply's delay belongs to one bucket, whichever it is.
LEMMA OneBucket ==
    ASSUME NEW delay \in Int
    PROVE  /\ \E b \in Buckets : InBucket(delay, b)
           /\ \A a, b \in Buckets : InBucket(delay, a) /\ InBucket(delay, b) => a = b
  <1> DEFINE s == IF delay < 0 THEN 0 ELSE delay
  <1>1. Buckets = {0, 1, 2, 3, 4, 5, 6}
    BY DEF Buckets
  <1>2. /\ InBucket(delay, 0) <=> s < 60
        /\ InBucket(delay, 1) <=> s >= 60 /\ s < 300
        /\ InBucket(delay, 2) <=> s >= 300 /\ s < 900
        /\ InBucket(delay, 3) <=> s >= 900 /\ s < 3600
        /\ InBucket(delay, 4) <=> s >= 3600 /\ s < 14400
        /\ InBucket(delay, 5) <=> s >= 14400 /\ s < 86400
        /\ InBucket(delay, 6) <=> s >= 86400
    BY DEF InBucket, Edges, AtLeast
  <1>3. s \in Int
    OBVIOUS
  <1> HIDE DEF s
  <1>. QED
    BY <1>1, <1>2, <1>3

\* The histogram of the replies in range counts each of them once.
LEMMA HistogramAddsUp ==
    ASSUME NEW A, IsFiniteSet(A), NEW delay \in [A -> Delays]
    PROVE  SumFunction([b \in Buckets |-> Cardinality({c \in A : InBucket(delay[c], b)})])
             = Cardinality(A)
  <1> DEFINE bucket == [c \in A |-> CHOOSE b \in Buckets : InBucket(delay[c], b)]
  <1>1. \A c \in A : delay[c] \in Int
    BY ReportsDelaysAssumption
  <1>2. \A c \in A : bucket[c] \in Buckets /\ InBucket(delay[c], bucket[c])
    BY <1>1, OneBucket
  <1>3. \A c \in A, b \in Buckets : InBucket(delay[c], b) <=> bucket[c] = b
    BY <1>1, <1>2, OneBucket
  <1>4. bucket \in [A -> Buckets]
    BY <1>2
  <1> HIDE DEF bucket
  <1>5. \A b \in Buckets : {c \in A : InBucket(delay[c], b)} = {c \in A : bucket[c] = b}
    BY <1>3
  <1>6. [b \in Buckets |-> Cardinality({c \in A : InBucket(delay[c], b)})]
          = [b \in Buckets |-> Cardinality({c \in A : bucket[c] = b})]
    BY <1>5
  <1>7. IsFiniteSet(Buckets)
    <2>1. 0 \in Int /\ 6 \in Int
      OBVIOUS
    <2>. QED
      BY <2>1, FS_Interval DEF Buckets
  <1>8. SumFunction([b \in Buckets |-> Cardinality({c \in A : bucket[c] = b})]) = Cardinality(A)
    BY <1>4, <1>7, BucketsAddUp
  <1>. QED
    BY <1>6, <1>8

-----------------------------------------------------------------------------
(* The rows.                                                               *)

\* Every error row is without a cost, and no session has more rows without one than
\* rows.
PricedInv ==
    /\ rows.error <= rows.unpriced
    /\ rows.unpriced <= Total(rows)
    /\ \A w \in Workers : work[w].unpriced <= work[w].ok

LEMMA InitPricedInv == Init => PricedInv
  BY DEF Init, PricedInv, NoRows, Total, Resting

LEMMA NextPricedInv == TypeInv /\ PricedInv /\ [Next]_vars => PricedInv'
  <1> SUFFICES ASSUME TypeInv, PricedInv, [Next]_vars PROVE PricedInv'
    OBVIOUS
  <1>a. /\ work \in [Workers -> Work] /\ \A w \in Workers : work[w] \in Work
        /\ rows \in Count
    BY DEF TypeInv, TypeOK
  <1>b. ASSUME UNCHANGED rows, NEW w \in Workers, NEW mine, Does(w, mine), mine.unpriced <= mine.ok
        PROVE  PricedInv'
    BY <1>a, <1>b DEF Does, PricedInv, Total
  <1>c. ASSUME UNCHANGED <<rows, work>>
        PROVE  PricedInv'
    BY <1>c DEF PricedInv, Total
  <1>d. Resting.ok = 0 /\ Resting.unpriced = 0
    BY DEF Resting
  <1>1. ASSUME NEW j \in Jobs, Submit(j) \/ ExpireInProgress(j)
        PROVE  PricedInv'
    BY <1>1, <1>c DEF Submit, ExpireInProgress, dbVars
  <1>2. ASSUME NEW w \in Workers, PickJob(w)
        PROVE  PricedInv'
    <2>1. PICK j \in Jobs : Does(w, [Resting EXCEPT !.pc = "start", !.job = j])
      BY <1>2 DEF PickJob
    <2> DEFINE mine == [Resting EXCEPT !.pc = "start", !.job = j]
    <2>2. mine.unpriced <= mine.ok
      BY DEF Resting
    <2>3. Does(w, mine) /\ UNCHANGED rows
      BY <1>2, <2>1 DEF PickJob, dbVars
    <2> HIDE DEF mine
    <2>. QED
      BY <1>b, <2>2, <2>3
  <1>3. ASSUME NEW w \in Workers, ExhaustJob(w)
        PROVE  PricedInv'
    BY <1>3, <1>c DEF ExhaustJob, dbVars
  \* The steps that leave a worker's rows as they are.
  <1>e. ASSUME UNCHANGED rows, NEW w \in Workers, NEW mine, Does(w, mine),
               mine.ok = work[w].ok, mine.unpriced = work[w].unpriced
        PROVE  PricedInv'
    <2>1. mine.unpriced <= mine.ok
      BY <1>e DEF PricedInv
    <2>. QED
      BY <1>b, <1>e, <2>1
  <1>4. ASSUME NEW w \in Workers, StartAttempt(w)
        PROVE  PricedInv'
    <2>1. UNCHANGED rows
      BY <1>4 DEF StartAttempt, dbVars
    <2>2. CASE Does(w, [work[w] EXCEPT !.pc = "committed"])
      <3>1. [work[w] EXCEPT !.pc = "committed"].ok = work[w].ok
            /\ [work[w] EXCEPT !.pc = "committed"].unpriced = work[w].unpriced
        BY <1>a DEF Work
      <3>. QED
        BY <1>e, <2>1, <2>2, <3>1
    <2>3. CASE \E agent \in FirstAgents(KindOf[work[w].job]) : Calling(w, agent)
      <3>1. PICK agent \in FirstAgents(KindOf[work[w].job]) : Calling(w, agent)
        BY <2>3
      <3> DEFINE mine == [work[w] EXCEPT !.agent = agent, !.calls = 0,
                                         !.pc = IF agent = "none" THEN "persist" ELSE "calling"]
      <3>2. mine.ok = work[w].ok /\ mine.unpriced = work[w].unpriced
        BY <1>a DEF Work
      <3>3. Does(w, mine)
        BY <3>1 DEF Calling
      <3> HIDE DEF mine
      <3>. QED
        BY <1>e, <2>1, <3>2, <3>3
    <2>. QED
      BY <1>4, <2>2, <2>3 DEF StartAttempt
  <1>5. ASSUME NEW w \in Workers, Call(w)
        PROVE  PricedInv'
    <2>1. PICK mine : Does(w, mine) /\ mine.ok = work[w].ok /\ mine.unpriced = work[w].unpriced
      <3> DEFINE agent == work[w].agent
                 answered(content) == [work[w] EXCEPT !.pc = "answered",
                                         !.drafts = IF agent = "content" THEN content ELSE work[w].drafts]
                 asked == [work[w] EXCEPT
                             !.calls = work[w].calls + 1,
                             !.pc = IF RetriesSpent(work[w].calls) THEN "failing" ELSE work[w].pc,
                             !.exit = IF RetriesSpent(work[w].calls) THEN "error" ELSE work[w].exit]
      <3>1. PICK form \in Forms, content \in Contents(agent) :
              IF Passes(agent, form, content) THEN Does(w, answered(content)) ELSE Does(w, asked)
        BY <1>5, Zenon DEF Call
      <3>2. answered(content).ok = work[w].ok /\ answered(content).unpriced = work[w].unpriced
        BY <1>a DEF Work
      <3>3. asked.ok = work[w].ok /\ asked.unpriced = work[w].unpriced
        BY <1>a DEF Work
      <3>. QED
        BY <3>1, <3>2, <3>3
    <2>. QED
      BY <1>5, <1>e, <2>1 DEF Call
  <1>6. ASSUME NEW w \in Workers, CallRaises(w)
        PROVE  PricedInv'
    <2>1. PICK e \in {"error", "rerun"} : Does(w, [work[w] EXCEPT !.pc = "failing", !.exit = e])
      BY <1>6 DEF CallRaises
    <2>2. [work[w] EXCEPT !.pc = "failing", !.exit = e].ok = work[w].ok
          /\ [work[w] EXCEPT !.pc = "failing", !.exit = e].unpriced = work[w].unpriced
      BY <1>a DEF Work
    <2>. QED
      BY <1>6, <1>e, <2>1, <2>2 DEF CallRaises
  <1>7. ASSUME NEW w \in Workers, RecordRun(w)
        PROVE  PricedInv'
    <2>1. PICK next \in NextAgents(work[w].agent), n \in Unpriced :
            Does(w, [work[w] EXCEPT
                      !.ok = work[w].ok + 1, !.unpriced = work[w].unpriced + n, !.agent = next, !.calls = 0,
                      !.pc = IF next = "none" THEN "persist" ELSE "calling"])
      BY <1>7, Zenon DEF RecordRun
    <2> DEFINE mine == [work[w] EXCEPT
                      !.ok = work[w].ok + 1, !.unpriced = work[w].unpriced + n, !.agent = next, !.calls = 0,
                      !.pc = IF next = "none" THEN "persist" ELSE "calling"]
    <2>2. mine.ok = work[w].ok + 1 /\ mine.unpriced = work[w].unpriced + n
      BY <1>a DEF Work
    <2>3. n \in {0, 1} /\ work[w].ok \in Nat /\ work[w].unpriced \in Nat
      BY <1>a DEF Unpriced, Work
    <2>4. mine.unpriced <= mine.ok
      <3>1. work[w].unpriced <= work[w].ok
        BY DEF PricedInv
      <3> HIDE DEF mine
      <3>. QED
        BY <2>2, <2>3, <3>1
    <2>5. Does(w, mine)
      BY <2>1
    <2> HIDE DEF mine
    <2>. QED
      BY <1>7, <1>b, <2>4, <2>5 DEF RecordRun, dbVars
  <1>f. ASSUME NEW w \in Workers, Raised(w)
        PROVE  \A v \in Workers : work'[v].unpriced <= work'[v].ok
    <2> DEFINE mine == [work[w] EXCEPT !.pc = "raised", !.agent = "none", !.calls = 0, !.ok = 0,
                                       !.unpriced = 0, !.drafts = NoCaptions]
    <2>1. mine.ok = 0 /\ mine.unpriced = 0
      BY <1>a DEF Work
    <2>2. Does(w, mine)
      BY <1>f DEF Raised
    <2> HIDE DEF mine
    <2>. QED
      BY <1>a, <2>1, <2>2 DEF Does, PricedInv
  <1>8. ASSUME NEW w \in Workers, RecordFailedRun(w)
        PROVE  PricedInv'
    <2>1. rows' = [rows EXCEPT !.error = rows.error + 1, !.unpriced = rows.unpriced + 1]
      BY <1>8 DEF RecordFailedRun, WithErrorRow
    <2>2. rows'.error = rows.error + 1 /\ rows'.unpriced = rows.unpriced + 1 /\ rows'.ok = rows.ok
      BY <1>a, <2>1 DEF Count
    <2>3. rows.error \in Nat /\ rows.unpriced \in Nat /\ rows.ok \in Nat
      BY <1>a DEF Count
    <2>4. Raised(w)
      BY <1>8 DEF RecordFailedRun
    <2>. QED
      BY <1>f, <2>2, <2>3, <2>4 DEF PricedInv, Total
  <1>9. ASSUME NEW w \in Workers, FailedRunUnwritten(w)
        PROVE  PricedInv'
    BY <1>9, <1>f DEF FailedRunUnwritten, PricedInv, Total
  <1>10. ASSUME NEW w \in Workers, CommitAttempt(w)
         PROVE  PricedInv'
    <2> DEFINE mine == work[w]
               after == [Resting EXCEPT !.pc = "committed", !.job = mine.job]
    <2>1. rows' = [rows EXCEPT !.ok = rows.ok + mine.ok, !.unpriced = rows.unpriced + mine.unpriced]
      BY <1>10 DEF CommitAttempt
    <2>2. rows'.error = rows.error /\ rows'.unpriced = rows.unpriced + mine.unpriced /\ rows'.ok = rows.ok + mine.ok
      BY <1>a, <2>1 DEF Count
    <2>3. /\ rows.error \in Nat /\ rows.unpriced \in Nat /\ rows.ok \in Nat
          /\ mine.ok \in Nat /\ mine.unpriced \in Nat
      BY <1>a DEF Count, Work
    <2>4. mine.unpriced <= mine.ok
      BY DEF PricedInv
    <2>5. rows'.error <= rows'.unpriced /\ rows'.unpriced <= Total(rows')
      <3> HIDE DEF mine
      <3>. QED
        BY <2>2, <2>3, <2>4 DEF PricedInv, Total
    <2>6. after.unpriced <= after.ok
      BY DEF Resting
    <2>7. Does(w, after)
      BY <1>10 DEF CommitAttempt
    <2> HIDE DEF after
    <2>8. \A v \in Workers : work'[v].unpriced <= work'[v].ok
      BY <1>a, <2>6, <2>7 DEF Does, PricedInv
    <2>. QED
      BY <2>5, <2>8 DEF PricedInv, Total
  <1>11. ASSUME NEW w \in Workers, FailAttempt(w)
         PROVE  PricedInv'
    <2>0. PICK e \in {"error", "rerun"} :
            Does(w, [Resting EXCEPT !.pc = "raised", !.job = work[w].job, !.exit = e])
      BY <1>11 DEF FailAttempt
    <2> DEFINE after == [Resting EXCEPT !.pc = "raised", !.job = work[w].job, !.exit = e]
    <2>1. after.unpriced <= after.ok
      BY DEF Resting
    <2>2. Does(w, after) /\ UNCHANGED rows
      BY <1>11, <2>0 DEF FailAttempt, dbVars
    <2> HIDE DEF after
    <2>. QED
      BY <1>b, <2>1, <2>2
  <1>12. ASSUME NEW w \in Workers, LeaveJob(w) \/ CrashWorker(w)
         PROVE  PricedInv'
    <2>1. Does(w, Resting) /\ UNCHANGED rows
      BY <1>12 DEF LeaveJob, CrashWorker, dbVars
    <2>. QED
      BY <1>b, <1>d, <2>1
  <1>13. CASE Publish
    BY <1>13, <1>c DEF Publish
  <1>14. CASE Read \/ RequestFails
    BY <1>14, <1>c
    DEF Read, AskAnalytics, AskPage, ReadRows, ReadTotals, ReadWindow, ReadSentiment, ReadCategories,
        ReadResponses, MeasureIngested, PollQueued, PollRunning, MissPoll, Having, RequestFails, Reader, dbVars
  <1>15. CASE UNCHANGED vars
    BY <1>15, <1>c DEF vars, dbVars
  <1>. QED
    BY <1>1, <1>2, <1>3, <1>4, <1>5, <1>6, <1>7, <1>8, <1>9, <1>10, <1>11, <1>12, <1>13, <1>14, <1>15
    DEF Next, Step, Faulty

-----------------------------------------------------------------------------
(* The answers.                                                            *)

\* What a report has so far, against what is in the database now and what it reads
\* later.
AnswerInv ==
    /\ report.listed <= Total(rows)
    /\ report.total <= Total(rows)
    /\ report.errors <= report.unpriced
    /\ report.unpriced <= report.total
    /\ report.kind # "analytics" /\ report.reads >= 2 => report.listed <= report.total
    /\ report.kind # "analytics" /\ report.reads = 3 /\ report.total > 0 => report.window
    /\ report.sentiment <= Cardinality(InRange(done))
    /\ report.kind # "analytics" \/ report.reads = 0 => report.sentiment = 0
    /\ report.kind = "analytics" /\ report.reads >= 2 => report.sentiment <= report.categories
    /\ SumFunction(report.histogram) = report.published
    /\ report.step = "done" => report.reads = 3

LEMMA InitAnswerInv == Init => AnswerInv
  <1> SUFFICES ASSUME Init PROVE AnswerInv
    OBVIOUS
  <1>1. PICK kind \in ReportKinds : report = Report(kind)
    BY DEF Init
  <1>2. SumFunction([b \in Buckets |-> 0]) = 0
    <2>2. PICK delay : delay \in [{} -> Delays]
      <3>1. [c \in {} |-> 0] \in [{} -> Delays]
        OBVIOUS
      <3>. QED
        BY <3>1
    <2>3. IsFiniteSet({}) /\ Cardinality({}) = 0
      BY FS_EmptySet
    <2>4. SumFunction([b \in Buckets |-> Cardinality({c \in {} : InBucket(delay[c], b)})]) = Cardinality({})
      BY <2>2, <2>3, HistogramAddsUp
    <2>5. \A b \in Buckets : {c \in {} : InBucket(delay[c], b)} = {}
      OBVIOUS
    <2>6. [b \in Buckets |-> Cardinality({c \in {} : InBucket(delay[c], b)})] = [b \in Buckets |-> 0]
      BY <2>3, <2>5
    <2>. QED
      BY <2>3, <2>4, <2>6
  <1>3. /\ report.listed = 0 /\ report.total = 0 /\ report.errors = 0 /\ report.unpriced = 0
        /\ report.reads = 0 /\ report.sentiment = 0 /\ report.published = 0 /\ report.step = "start"
        /\ report.histogram = [b \in Buckets |-> 0]
    BY <1>1 DEF Report
  <1>4. Total(rows) = 0
    BY DEF Init, NoRows, Total
  <1>5. Cardinality(InRange(done)) = 0
    BY FS_EmptySet DEF Init, InRange
  <1>. QED
    BY <1>2, <1>3, <1>4, <1>5 DEF AnswerInv

\* Rows are never taken away and work is never undone.
LEMMA DatabaseGrows ==
    ASSUME TypeInv, [Next]_vars
    PROVE  Total(rows) <= Total(rows)' /\ done \subseteq done'
  <1>a. rows \in Count /\ \A w \in Workers : work[w] \in Work
    BY DEF TypeInv, TypeOK
  <1>b. rows.ok \in Nat /\ rows.error \in Nat /\ rows.unpriced \in Nat
    BY <1>a DEF Count
  <1>1. ASSUME NEW w \in Workers, RecordFailedRun(w)
        PROVE  Total(rows) <= Total(rows)' /\ done \subseteq done'
    <2>1. rows' = [rows EXCEPT !.error = rows.error + 1, !.unpriced = rows.unpriced + 1] /\ done' = done
      BY <1>1 DEF RecordFailedRun, WithErrorRow
    <2>2. rows'.error = rows.error + 1 /\ rows'.ok = rows.ok
      BY <1>a, <2>1 DEF Count
    <2>. QED
      BY <1>b, <2>1, <2>2 DEF Total
  <1>2. ASSUME NEW w \in Workers, CommitAttempt(w)
        PROVE  Total(rows) <= Total(rows)' /\ done \subseteq done'
    <2>1. /\ rows' = [rows EXCEPT !.ok = rows.ok + work[w].ok, !.unpriced = rows.unpriced + work[w].unpriced]
          /\ done \subseteq done'
      BY <1>2 DEF CommitAttempt
    <2>2. rows'.error = rows.error /\ rows'.ok = rows.ok + work[w].ok /\ work[w].ok \in Nat
      BY <1>a, <2>1 DEF Count, Work
    <2>. QED
      BY <1>b, <2>1, <2>2 DEF Total
  <1>3. ASSUME UNCHANGED <<rows, done>>
        PROVE  Total(rows) <= Total(rows)' /\ done \subseteq done'
    BY <1>b, <1>3 DEF Total
  <1>4. ASSUME NEW w \in Workers, Step(w) \/ Faulty(w)
        PROVE  Total(rows) <= Total(rows)' /\ done \subseteq done'
    BY <1>1, <1>2, <1>3, <1>4
    DEF Step, Faulty, PickJob, ExhaustJob, StartAttempt, Call, CallRaises, RecordRun, FailedRunUnwritten,
        FailAttempt, LeaveJob, CrashWorker, dbVars
  <1>5. CASE Read \/ RequestFails \/ Publish \/ UNCHANGED vars
    BY <1>3, <1>5
    DEF Read, AskAnalytics, AskPage, ReadRows, ReadTotals, ReadWindow, ReadSentiment, ReadCategories,
        ReadResponses, MeasureIngested, PollQueued, PollRunning, MissPoll, Having, RequestFails, Reader,
        Publish, vars, dbVars
  <1>6. ASSUME NEW j \in Jobs, Submit(j) \/ ExpireInProgress(j)
        PROVE  Total(rows) <= Total(rows)' /\ done \subseteq done'
    BY <1>3, <1>6 DEF Submit, ExpireInProgress, dbVars
  <1>. QED
    BY <1>4, <1>5, <1>6 DEF Next

\* While nothing is read, the answer stays true of a database that grows.
LEMMA UnreadAnswerInv ==
    ASSUME TypeInv, AnswerInv, [Next]_vars, UNCHANGED report
    PROVE  AnswerInv'
  <1>1. Total(rows) <= Total(rows)' /\ done \subseteq done'
    BY DatabaseGrows
  <1>2. TypeInv'
    BY NextTypeInv
  <1>3. Cardinality(InRange(done)) <= Cardinality(InRange(done))'
    <2>1. InRange(done)' \in SUBSET done'
      BY DEF InRange
    <2>2. IsFiniteSet(InRange(done)')
      BY <1>2, <2>1, FS_Subset DEF TypeInv, Finite
    <2>3. InRange(done) \subseteq InRange(done)'
      BY <1>1 DEF InRange
    <2>. QED
      BY <2>2, <2>3, FS_Subset
  <1>4. /\ Total(rows) \in Nat /\ Total(rows)' \in Nat
        /\ Cardinality(InRange(done)) \in Nat /\ Cardinality(InRange(done))' \in Nat
    <2>1. Total(rows)' \in Nat
      BY <1>2 DEF TypeInv, TypeOK, Count, Total
    <2>2. IsFiniteSet(InRange(done)')
      <3>1. InRange(done)' \in SUBSET done'
        BY DEF InRange
      <3>. QED
        BY <1>2, <3>1, FS_Subset DEF TypeInv, Finite
    <2>. QED
      BY <2>1, <2>2, Countable, FS_CardinalityType
  <1>5. report.listed \in Nat /\ report.total \in Nat /\ report.sentiment \in Nat
    BY DEF TypeInv, TypeOK, Reports
  <1>. QED
    BY <1>1, <1>3, <1>4, <1>5 DEF AnswerInv

\* A request changes the report without reading: it has read nothing, or it ends.
LEMMA AskedAnswerInv ==
    ASSUME TypeInv, AnswerInv, UNCHANGED <<rows, done>>,
           report'.kind = report.kind, report'.reads = report.reads,
           report'.listed = report.listed, report'.total = report.total, report'.errors = report.errors,
           report'.unpriced = report.unpriced, report'.window = report.window,
           report'.sentiment = report.sentiment, report'.categories = report.categories,
           report'.published = report.published, report'.histogram = report.histogram,
           report'.step # "done",
           report.reads = 0 \/ (report'.from = report.from /\ report'.to = report.to)
    PROVE  AnswerInv'
  <1>1. Total(rows)' = Total(rows)
    BY DEF Total
  <1>2. report'.sentiment <= Cardinality(InRange(done))'
    <2>1. CASE report.reads = 0
      <3>1. IsFiniteSet(InRange(done)')
        <4>1. InRange(done)' \in SUBSET done
          BY DEF InRange
        <4>. QED
          BY <4>1, FS_Subset DEF TypeInv, Finite
      <3>2. Cardinality(InRange(done)') \in Nat
        BY <3>1, FS_CardinalityType
      <3>. QED
        BY <2>1, <3>2 DEF AnswerInv
    <2>2. CASE report'.from = report.from /\ report'.to = report.to
      <3>1. InRange(done)' = InRange(done)
        BY <2>2 DEF InRange
      <3>. QED
        BY <3>1 DEF AnswerInv
    <2>. QED
      BY <2>1, <2>2
  <1>. QED
    BY <1>1, <1>2 DEF AnswerInv

\* What a SELECT that comes next changes in the report: its own fields, named by
\* the caller, the count of SELECTs, and after the third the step.
LEMMA HavingFields ==
    ASSUME report \in Reports, report.step = "reading", Paced, NEW fields, Having(fields),
           DOMAIN fields = DOMAIN report,
           fields.reads = report.reads, fields.step = report.step
    PROVE  /\ \A f \in DOMAIN report \ {"reads", "step"} : report'[f] = fields[f]
           /\ report'.reads = report.reads + 1
           /\ report'.step = "done" => report.reads = 2
           /\ DOMAIN report' = DOMAIN report
  <1> DEFINE step == IF report.reads = 2 THEN "done" ELSE fields.step
             reads == fields.reads + 1
  <1>1. report' = [fields EXCEPT !.reads = reads, !.step = step]
    BY DEF Having, Becomes
  <1>2. step = "done" => report.reads = 2
    OBVIOUS
  <1>3. {"reads", "step"} \subseteq DOMAIN fields
    BY DEF Reports
  <1> HIDE DEF step
  <1>. QED
    BY <1>1, <1>2, <1>3

Names == {"kind", "step", "reads", "from", "to", "listed", "total", "errors", "unpriced", "window",
          "sentiment", "categories", "published", "histogram", "queued", "quiet", "misses"}

LEMMA ReportNames == report \in Reports => DOMAIN report = Names
  BY DEF Reports, Names

\* Which SELECT comes when.
LEMMA ReadsInOrder ==
    ASSUME TypeInv, report.step = "reading"
    PROVE  /\ report.reads \in 0..2
           /\ report.kind # "analytics" =>
                /\ Reads("rows") => report.reads = 0
                /\ Reads("totals") => report.reads = 1
                /\ Reads("window") => report.reads = 2
                /\ ~Reads("sentiment") /\ ~Reads("categories") /\ ~Reads("responses")
           /\ report.kind = "analytics" =>
                /\ Reads("sentiment") => report.reads = 0
                /\ Reads("categories") => report.reads = 1
                /\ Reads("responses") => report.reads = 2
                /\ ~Reads("rows") /\ ~Reads("totals") /\ ~Reads("window")
  <1>1. report.reads \in 0..2
    BY DEF TypeInv, TypeOK, Paced, Reports
  <1>2. PageReads[1] = "rows" /\ PageReads[2] = "totals" /\ PageReads[3] = "window"
    BY DEF PageReads
  <1>3. AnalyticsReads[1] = "sentiment" /\ AnalyticsReads[2] = "categories" /\ AnalyticsReads[3] = "responses"
    BY DEF AnalyticsReads
  <1>4. report.reads = 0 \/ report.reads = 1 \/ report.reads = 2
    BY <1>1
  <1>. QED
    BY <1>1, <1>2, <1>3, <1>4 DEF Reads

LEMMA ReadingAnswerInv ==
    ASSUME TypeInv, PricedInv, AnswerInv, report.step = "reading", Read
    PROVE  AnswerInv'
  <1>a. report \in Reports /\ Paced /\ DOMAIN report = Names
    BY ReportNames DEF TypeInv, TypeOK
  <1>b. /\ report.listed \in Nat /\ report.total \in Nat /\ report.errors \in Nat /\ report.unpriced \in Nat
        /\ report.sentiment \in Nat /\ report.categories \in Nat /\ report.reads \in 0..2
    BY <1>a, ReadsInOrder DEF Reports
  <1>c. /\ Total(rows) \in Nat /\ rows.error \in Nat /\ rows.unpriced \in Nat
        /\ Cardinality(InRange(done)) \in Nat
        /\ IsFiniteSet(InRange(sent)) /\ Cardinality(InRange(sent)) \in Nat
    BY Countable
  <1>d. rows.error <= rows.unpriced /\ rows.unpriced <= Total(rows)
    BY DEF PricedInv
  \* Any SELECT: the fields it does not set keep their values.
  <1>e. ASSUME NEW fields, Having(fields), DOMAIN fields = Names,
               fields.reads = report.reads, fields.step = report.step,
               fields.from = report.from, fields.to = report.to
        PROVE  /\ UNCHANGED <<rows, done, sent>>
               /\ \A f \in Names \ {"reads", "step"} : report'[f] = fields[f]
               /\ report'.reads = report.reads + 1
               /\ report'.step = "done" => report'.reads = 3
               /\ Total(rows)' = Total(rows)
               /\ InRange(done)' = InRange(done)
    <2>1. /\ \A f \in Names \ {"reads", "step"} : report'[f] = fields[f]
          /\ report'.reads = report.reads + 1
          /\ report'.step = "done" => report.reads = 2
      BY <1>a, <1>e, HavingFields
    <2>2. UNCHANGED <<rows, done, sent>>
      BY <1>e DEF Having, Reader, dbVars
    <2>3. report'.from = report.from /\ report'.to = report.to
      BY <1>e, <2>1 DEF Names
    <2>4. InRange(done)' = InRange(done) /\ Total(rows)' = Total(rows)
      BY <2>2, <2>3 DEF InRange, Total
    <2>. QED
      BY <1>b, <2>1, <2>2, <2>4
  <1>1. CASE ReadRows
    <2> DEFINE listed == IF Total(rows) < PageSize THEN Total(rows) ELSE PageSize
               fields == [report EXCEPT !.listed = listed]
    <2>1. listed <= Total(rows)
      BY <1>c, ReportsBoundsAssumption
    <2>2. Having(fields) /\ Reads("rows")
      BY <1>1 DEF ReadRows
    <2>3. DOMAIN fields = Names /\ fields.listed = listed /\ \A f \in Names \ {"listed"} : fields[f] = report[f]
      BY <1>a DEF Names
    <2> HIDE DEF fields, listed
    <2>4. /\ \A f \in Names \ {"reads", "step"} : report'[f] = fields[f]
          /\ report'.reads = report.reads + 1
          /\ report'.step = "done" => report'.reads = 3
          /\ Total(rows)' = Total(rows) /\ InRange(done)' = InRange(done)
      BY <1>e, <2>2, <2>3 DEF Names
    <2>5. report.reads = 0 /\ report.kind # "analytics"
      BY <2>2, ReadsInOrder
    <2>. QED
      BY <2>1, <2>3, <2>4, <2>5 DEF AnswerInv, Names
  <1>2. CASE ReadTotals
    <2> DEFINE fields == [report EXCEPT !.total = Total(rows), !.errors = rows.error, !.unpriced = rows.unpriced]
    <2>2. Having(fields) /\ Reads("totals")
      BY <1>2 DEF ReadTotals
    <2>3. /\ DOMAIN fields = Names /\ fields.total = Total(rows)
          /\ fields.errors = rows.error /\ fields.unpriced = rows.unpriced
          /\ \A f \in Names \ {"total", "errors", "unpriced"} : fields[f] = report[f]
      BY <1>a DEF Names
    <2> HIDE DEF fields
    <2>4. /\ \A f \in Names \ {"reads", "step"} : report'[f] = fields[f]
          /\ report'.reads = report.reads + 1
          /\ report'.step = "done" => report'.reads = 3
          /\ Total(rows)' = Total(rows) /\ InRange(done)' = InRange(done)
      BY <1>e, <2>2, <2>3 DEF Names
    <2>5. report.reads = 1 /\ report.kind # "analytics"
      BY <2>2, ReadsInOrder
    <2>. QED
      BY <1>c, <1>d, <2>3, <2>4, <2>5 DEF AnswerInv, Names
  <1>3. CASE ReadWindow
    <2> DEFINE some == Total(rows) > 0
               fields == [report EXCEPT !.window = some]
    <2>2. Having(fields) /\ Reads("window")
      BY <1>3 DEF ReadWindow
    <2>3. DOMAIN fields = Names /\ fields.window = some /\ \A f \in Names \ {"window"} : fields[f] = report[f]
      <3> HIDE DEF some
      <3>. QED
        BY <1>a DEF Names
    <2> HIDE DEF fields
    <2>4. /\ \A f \in Names \ {"reads", "step"} : report'[f] = fields[f]
          /\ report'.reads = report.reads + 1
          /\ report'.step = "done" => report'.reads = 3
          /\ Total(rows)' = Total(rows) /\ InRange(done)' = InRange(done)
      BY <1>e, <2>2, <2>3 DEF Names
    <2>5. report.reads = 2 /\ report.kind # "analytics"
      BY <2>2, ReadsInOrder
    <2>6. report.total > 0 => some
      BY <1>b, <1>c DEF AnswerInv
    <2>7. report'.window = some
      BY <2>3, <2>4 DEF Names
    <2> HIDE DEF some
    <2>8. report'.total > 0 => report'.window
      BY <2>3, <2>4, <2>6, <2>7 DEF Names
    <2>. QED
      BY <2>3, <2>4, <2>5, <2>8 DEF AnswerInv, Names
  <1>4. CASE ReadSentiment
    <2> DEFINE fields == [report EXCEPT !.sentiment = Cardinality(InRange(done))]
    <2>2. Having(fields) /\ Reads("sentiment")
      BY <1>4 DEF ReadSentiment
    <2>3. /\ DOMAIN fields = Names /\ fields.sentiment = Cardinality(InRange(done))
          /\ \A f \in Names \ {"sentiment"} : fields[f] = report[f]
      BY <1>a DEF Names
    <2> HIDE DEF fields
    <2>4. /\ \A f \in Names \ {"reads", "step"} : report'[f] = fields[f]
          /\ report'.reads = report.reads + 1
          /\ report'.step = "done" => report'.reads = 3
          /\ Total(rows)' = Total(rows) /\ InRange(done)' = InRange(done)
      BY <1>e, <2>2, <2>3 DEF Names
    <2>5. report.reads = 0 /\ report.kind = "analytics"
      BY <2>2, ReadsInOrder
    <2>. QED
      BY <1>c, <2>3, <2>4, <2>5 DEF AnswerInv, Names
  <1>5. CASE ReadCategories
    <2> DEFINE fields == [report EXCEPT !.categories = Cardinality(InRange(done))]
    <2>2. Having(fields) /\ Reads("categories")
      BY <1>5 DEF ReadCategories
    <2>3. /\ DOMAIN fields = Names /\ fields.categories = Cardinality(InRange(done))
          /\ \A f \in Names \ {"categories"} : fields[f] = report[f]
      BY <1>a DEF Names
    <2> HIDE DEF fields
    <2>4. /\ \A f \in Names \ {"reads", "step"} : report'[f] = fields[f]
          /\ report'.reads = report.reads + 1
          /\ report'.step = "done" => report'.reads = 3
          /\ Total(rows)' = Total(rows) /\ InRange(done)' = InRange(done)
      BY <1>e, <2>2, <2>3 DEF Names
    <2>5. report.reads = 1 /\ report.kind = "analytics"
      BY <2>2, ReadsInOrder
    <2>. QED
      BY <1>c, <2>3, <2>4, <2>5 DEF AnswerInv, Names
  <1>6. CASE ReadResponses
    <2>1. PICK delay \in [InRange(sent) -> Delays] :
            Having([report EXCEPT
                     !.published = Cardinality(InRange(sent)),
                     !.histogram = [b \in Buckets |->
                                      Cardinality({c \in InRange(sent) : InBucket(delay[c], b)})]])
      BY <1>6, Zenon DEF ReadResponses
    <2> DEFINE histogram == [b \in Buckets |-> Cardinality({c \in InRange(sent) : InBucket(delay[c], b)})]
               fields == [report EXCEPT !.published = Cardinality(InRange(sent)), !.histogram = histogram]
    <2>2. Having(fields) /\ Reads("responses")
      BY <1>6, <2>1 DEF ReadResponses
    <2>a. SumFunction(histogram) = Cardinality(InRange(sent))
      BY <1>c, HistogramAddsUp
    <2> HIDE DEF histogram
    <2>3. /\ DOMAIN fields = Names /\ fields.published = Cardinality(InRange(sent)) /\ fields.histogram = histogram
          /\ \A f \in Names \ {"published", "histogram"} : fields[f] = report[f]
      BY <1>a DEF Names
    <2> HIDE DEF fields
    <2>4. /\ \A f \in Names \ {"reads", "step"} : report'[f] = fields[f]
          /\ report'.reads = report.reads + 1
          /\ report'.step = "done" => report'.reads = 3
          /\ Total(rows)' = Total(rows) /\ InRange(done)' = InRange(done)
      BY <1>e, <2>2, <2>3 DEF Names
    <2>5. report.reads = 2 /\ report.kind = "analytics"
      BY <2>2, ReadsInOrder
    <2>. QED
      BY <2>a, <2>3, <2>4, <2>5 DEF AnswerInv, Names
  <1>. QED
    BY <1>1, <1>2, <1>3, <1>4, <1>5, <1>6
    DEF Read, AskAnalytics, AskPage, MeasureIngested, PollQueued, PollRunning, MissPoll

\* A range is fixed, a dump is watched, a request fails.
LEMMA AskingAnswerInv ==
    ASSUME TypeInv, AnswerInv, Read \/ RequestFails, report.step # "reading" \/ RequestFails
    PROVE  AnswerInv'
  <1>a. report \in Reports /\ Paced /\ DOMAIN report = Names
    BY ReportNames DEF TypeInv, TypeOK
  <1>b. UNCHANGED <<rows, done>>
    BY DEF Read, AskAnalytics, AskPage, ReadRows, ReadTotals, ReadWindow, ReadSentiment, ReadCategories,
           ReadResponses, MeasureIngested, PollQueued, PollRunning, MissPoll, Having, RequestFails, Reader, dbVars
  \* Nothing that was read changes.
  <1>c. ASSUME report' = [f \in Names |-> report'[f]], report'.step # "done",
               \A f \in Names \ {"step", "from", "to", "queued", "quiet", "misses"} : report'[f] = report[f],
               report.reads = 0 \/ (report'.from = report.from /\ report'.to = report.to)
        PROVE  AnswerInv'
    BY <1>b, <1>c, AskedAnswerInv DEF Names
  <1>1. CASE AskAnalytics
    <2>1. PICK from \in 0..Days, to \in 0..Days :
            LET end   == IF to = 0 THEN Days ELSE to
                start == IF from = 0 THEN end - (DefaultDays - 1) ELSE from
            IN IF start > end \/ end - start + 1 > MaxDays
               THEN Becomes([report EXCEPT !.step = "refused"])
               ELSE Becomes([report EXCEPT !.step = "reading", !.from = start, !.to = end])
      BY <1>1, Zenon DEF AskAnalytics
    <2> DEFINE end   == IF to = 0 THEN Days ELSE to
               start == IF from = 0 THEN end - (DefaultDays - 1) ELSE from
    <2>2. \/ report' = [report EXCEPT !.step = "refused"]
          \/ report' = [report EXCEPT !.step = "reading", !.from = start, !.to = end]
      BY <2>1 DEF Becomes
    <2>3. report.reads = 0
      BY <1>a, <1>1 DEF AskAnalytics, Paced
    <2> HIDE DEF end, start
    <2>. QED
      BY <1>a, <1>c, <2>2, <2>3 DEF Names
  <1>2. CASE AskPage
    BY <1>2, <1>a, <1>c DEF AskPage, Becomes, Names
  <1>3. CASE MeasureIngested
    BY <1>3, <1>a, <1>c DEF MeasureIngested, Becomes, Names
  <1>4. CASE PollQueued
    BY <1>4, <1>a, <1>c DEF PollQueued, Becomes, Names
  <1>5. CASE PollRunning
    <2> DEFINE quiet == QuietAfter(report.queued + Cardinality(inProgress))
               step  == IF quiet = QuietPolls THEN "reading" ELSE "draining"
    <2>1. report' = [report EXCEPT !.queued = 0, !.misses = 0, !.quiet = quiet, !.step = step]
      BY <1>5 DEF PollRunning, Becomes
    <2>2. step # "done"
      OBVIOUS
    <2> HIDE DEF quiet, step
    <2>. QED
      BY <1>a, <1>c, <2>1, <2>2 DEF Names
  <1>6. CASE MissPoll
    <2> DEFINE once  == [report EXCEPT !.queued = 0]
               after == [once EXCEPT !.misses = once.misses + 1]
               step  == IF after.misses > MaxMisses \/ after.quiet = QuietPolls THEN "reading" ELSE "draining"
    <2>1. report' = [after EXCEPT !.step = step]
      BY <1>6, Zenon DEF MissPoll, Missed, Becomes
    <2>2. DOMAIN after = Names /\ \A f \in Names \ {"queued", "misses"} : after[f] = report[f]
      BY <1>a DEF Names
    <2>3. step # "done"
      OBVIOUS
    <2> HIDE DEF after, step
    <2>. QED
      BY <1>c, <2>1, <2>2, <2>3 DEF Names
  <1>7. CASE RequestFails
    BY <1>7, <1>a, <1>c DEF RequestFails, Becomes, Names
  <1>. QED
    BY <1>1, <1>2, <1>3, <1>4, <1>5, <1>6, <1>7
    DEF Read, ReadRows, ReadTotals, ReadWindow, ReadSentiment, ReadCategories, ReadResponses, Reads

LEMMA NextAnswerInv == TypeInv /\ PricedInv /\ AnswerInv /\ [Next]_vars => AnswerInv'
  <1> SUFFICES ASSUME TypeInv, PricedInv, AnswerInv, [Next]_vars PROVE AnswerInv'
    OBVIOUS
  <1>1. CASE Read
    BY <1>1, ReadingAnswerInv, AskingAnswerInv
  <1>2. CASE RequestFails
    BY <1>2, AskingAnswerInv
  <1>3. CASE UNCHANGED report
    BY <1>3, UnreadAnswerInv
  <1>4. ASSUME NEW j \in Jobs, Submit(j) \/ ExpireInProgress(j)
        PROVE  UNCHANGED report
    BY <1>4 DEF Submit, ExpireInProgress
  <1>5. ASSUME NEW w \in Workers, Step(w) \/ Faulty(w)
        PROVE  UNCHANGED report
    BY <1>5
    DEF Step, Faulty, PickJob, ExhaustJob, StartAttempt, Call, CallRaises, RecordRun, RecordFailedRun,
        FailedRunUnwritten, CommitAttempt, FailAttempt, LeaveJob, CrashWorker
  <1>6. CASE Publish \/ UNCHANGED vars
    BY <1>3, <1>6 DEF Publish, vars
  <1>. QED
    BY <1>1, <1>2, <1>3, <1>4, <1>5, <1>6 DEF Next

\* A page never lists more rows than its totals count, an error row with a cost or
\* rows without a window, a day's comments never have fewer categories than
\* sentiments, and the response buckets count each published reply once, whatever is
\* committed between an answer's SELECTs.
THEOREM ReportsAddUp == Spec => []AnswersAddUp
  <1>1. Init => TypeInv /\ PricedInv /\ AnswerInv
    BY InitTypeInv, InitPricedInv, InitAnswerInv
  <1>2. TypeInv /\ PricedInv /\ AnswerInv /\ [Next]_vars => (TypeInv /\ PricedInv /\ AnswerInv)'
    BY NextTypeInv, NextPricedInv, NextAnswerInv
  <1>3. TypeInv /\ AnswerInv => AnswersAddUp
    <2> SUFFICES ASSUME TypeInv, AnswerInv, report.step = "done" PROVE AnswersAddUp
      BY DEF AnswersAddUp
    <2>1. report.kind = "analytics" => report.sentiment <= report.categories
      BY DEF AnswerInv
    <2>2. report.kind # "analytics" => report.sentiment <= report.categories
      BY DEF AnswerInv, TypeInv, TypeOK, Reports
    <2>. QED
      BY <2>1, <2>2 DEF AnswerInv, AnswersAddUp
  <1>. QED
    BY <1>1, <1>2, <1>3, PTL DEF Spec
=============================================================================
