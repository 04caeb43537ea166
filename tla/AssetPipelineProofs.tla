------------------------ MODULE AssetPipelineProofs ------------------------
(***************************************************************************)
(* Theorems about AssetPipeline, for any sets of assets, workers and       *)
(* requests and any bounds.                                                *)
(***************************************************************************)
EXTENDS AssetPipeline, FiniteSetTheorems, TLAPS

\* A worker has a job exactly when it is not idle.
Assigned ==
    \A w \in Workers :
        /\ pc[w] = "idle" => job[w] = NoJob
        /\ pc[w] # "idle" => job[w] \in Job

\* The requests that deal with one upload name one asset.
OneAsset ==
    \A r \in Requests : req[r].op \in {"put", "insert", "erase"} => \E a \in Assets : req[r].todo = {a}

TypeInv == TypeOK /\ Assigned /\ OneAsset

-----------------------------------------------------------------------------
(* Types.                                                                  *)

\* Updating a function at one point keeps its type.
LEMMA ExceptType ==
    ASSUME NEW S, NEW T, NEW f \in [S -> T], NEW x, NEW v, x \in S => v \in T
    PROVE  [f EXCEPT ![x] = v] \in [S -> T]
  OBVIOUS

LEMMA InitTypeInv == Init => TypeInv
  BY AssetClockAssumption, AssetFaultAssumption, AssetTriesAssumption, AssetNoJobAssumption
  DEF Init, QueueInit, StoreInit, TypeInv, TypeOK, Assigned, OneAsset, QueueTypeOK,
      StoreTypeOK, Card, Stage, Request, IdleRequest, Job, Running

LEMMA NextTypeInv == TypeInv /\ [Next]_vars => TypeInv'
  <1> SUFFICES ASSUME TypeInv, [Next]_vars PROVE TypeInv'
    OBVIOUS
  <1> USE AssetNoJobAssumption, AssetClockAssumption
      DEF TypeInv, TypeOK, Assigned, OneAsset, StoreTypeOK, QueueTypeOK
  <1>a. IdleRequest \in Request /\ IdleRequest.op = "idle"
    BY DEF IdleRequest, Request
  <1>1. ASSUME NEW r \in Requests, FinishUpload(r)
        PROVE  TypeInv'
    BY <1>1 DEF FinishUpload, FinishPut, Continue, Request, dbVars, workerVars, arqVars
  <1>2. ASSUME NEW r \in Requests, InsertAsset(r)
        PROVE  TypeInv'
    BY <1>2 DEF InsertAsset, NotAnalysed, Continue, Card, Request, storeVars, workerVars, arqVars
  <1>3. ASSUME NEW r \in Requests, EnqueueNext(r)
        PROVE  TypeInv'
    <2>1. PICK a \in req[r].todo :
            /\ EnqueueJob([asset |-> a, attempt |-> req[r].attempt])
            /\ req' = [req EXCEPT ![r] =
                         IF req[r].todo \ {a} = {} /\ req[r].op = "enqueue"
                         THEN IdleRequest ELSE [req[r] EXCEPT !.todo = req[r].todo \ {a}]]
      BY <1>3 DEF EnqueueNext
    <2>2. req[r] \in Request
      OBVIOUS
    <2>3. [req[r] EXCEPT !.todo = req[r].todo \ {a}] \in Request
      BY <2>2 DEF Request
    <2>4. req' \in [Requests -> Request]
      BY <2>1, <1>a, <2>3
    <2>5. OneAsset'
      BY <1>3, <1>a, <2>1, <2>2 DEF EnqueueNext, Request
    <2>6. [asset |-> a, attempt |-> req[r].attempt] \in Job
      BY <2>2 DEF Request, Job
    <2>7. QueueTypeOK'
      BY <2>1, <2>6 DEF EnqueueJob, Known
    <2>. QED
      BY <1>3, <2>4, <2>5, <2>7 DEF EnqueueNext, dbVars, storeVars, workerVars
  <1>4. ASSUME NEW r \in Requests, DeleteRetriedRow(r)
        PROVE  TypeInv'
    <2>1. dlq' \in [Job -> Nat]
      <3> DEFINE letter == req[r].row
      <3>1. dlq' = [dlq EXCEPT ![letter] = IF dlq[letter] > 0 THEN dlq[letter] - 1 ELSE dlq[letter]]
        BY <1>4 DEF DeleteRetriedRow, DeleteFailedJob
      <3>2. letter \in Job => (IF dlq[letter] > 0 THEN dlq[letter] - 1 ELSE dlq[letter]) \in Nat
        OBVIOUS
      <3>. QED
        BY <3>1, <3>2, ExceptType
    <2>. QED
      BY <1>4, <1>a, <2>1 DEF DeleteRetriedRow, storeVars, workerVars, arqVars
  <1>5. ASSUME NEW r \in Requests, EraseObject(r)
        PROVE  TypeInv'
    BY <1>5, <1>a DEF EraseObject, RemoveObject, dbVars, workerVars, arqVars
  <1>6. ASSUME NEW r \in Requests, AbortRequest(r)
        PROVE  TypeInv'
    BY <1>6, <1>a, AssetFaultAssumption
    DEF AbortRequest, Fault, dbVars, storeVars, workerVars, arqVars
  <1>7. ASSUME NEW r \in Requests, RequeueUnprocessed(r)
        PROVE  TypeInv'
    BY <1>7 DEF RequeueUnprocessed, AttemptSuffix, Request, dbVars, storeVars, workerVars, arqVars
  <1>8. ASSUME NEW r \in Requests, NEW a \in Assets, UploadAsset(r, a) \/ UploadToS3(r, a)
        PROVE  TypeInv'
    <2>1. sound' \in SUBSET Assets
      BY <1>8 DEF UploadAsset, UploadToS3, NewUpload
    <2>2. objects' \in SUBSET Assets /\ parts' \in SUBSET Assets
      BY <1>8 DEF UploadAsset, UploadToS3, BeginPut, PutObject
    <2>3. req' \in [Requests -> Request] /\ OneAsset'
      BY <1>8 DEF UploadAsset, UploadToS3, Continue, Request
    <2>. QED
      BY <1>8, <2>1, <2>2, <2>3 DEF UploadAsset, UploadToS3, NewUpload, dbVars, workerVars, arqVars
  <1>9. ASSUME NEW r \in Requests, NEW a \in Assets, DeleteAsset(r, a)
        PROVE  TypeInv'
    BY <1>9 DEF DeleteAsset, CascadedCaptions, Continue, Card, Request, storeVars, workerVars, arqVars
  <1>10. ASSUME NEW r \in Requests, NEW letter \in Job, RetryFailedJob(r, letter)
         PROVE  TypeInv'
    BY <1>10 DEF RetryFailedJob, AttemptSuffix, Request, Job, dbVars, storeVars, workerVars, arqVars
  <1>11. ASSUME NEW w \in Workers, PickJob(w)
         PROVE  TypeInv'
    BY <1>11, AssetTriesAssumption DEF PickJob, StartJob, Goto, Stage, Running, dbVars, storeVars
  <1>12. ASSUME NEW w \in Workers, ExhaustJob(w)
         PROVE  TypeInv'
    BY <1>12 DEF ExhaustJob, AbandonJob, FinishJob, dbVars, storeVars, workerVars
  <1>13. ASSUME NEW w \in Workers, IngestAsset(w)
         PROVE  TypeInv'
    BY <1>13 DEF IngestAsset, Goto, Raise, Stage, Running, PastGuard, dbVars, storeVars, arqVars
  <1>14. ASSUME NEW w \in Workers, LoadImage(w) \/ Media(w) \/ Content(w) \/ PersistGone(w)
         PROVE  TypeInv'
    BY <1>14 DEF LoadImage, Media, Content, PersistGone, Goto, Raise, Stage, Running, PastGuard,
                 dbVars, storeVars, arqVars
  <1>15. ASSUME NEW w \in Workers, PersistContent(w)
         PROVE  TypeInv'
    <2> DEFINE a == Subject(w)
    <2>1. a \in Assets
      BY <1>15 DEF PersistContent, Subject, Job
    <2>2. row' \in [Assets -> Card] /\ captions' \in [Assets -> Nat]
      BY <1>15, <2>1 DEF PersistContent, Card
    <2>3. runs' \in [Assets -> SUBSET Agents]
      BY <1>15, <2>1 DEF PersistContent, GraphRuns, Agents
    <2>. QED
      BY <1>15, <2>2, <2>3 DEF PersistContent, Goto, Stage, Running, storeVars, arqVars
  <1>16. ASSUME NEW w \in Workers, FailAttempt(w) \/ RecordFailureFails(w)
         PROVE  TypeInv'
    BY <1>16, AssetFaultAssumption
    DEF FailAttempt, RecordFailureFails, Fault, Raise, Goto, Stage, Running, PastGuard,
        dbVars, storeVars, arqVars
  <1>17. ASSUME NEW w \in Workers, HandleFailure(w)
         PROVE  TypeInv'
    <2>1. job[w] \in Job => dlq[job[w]] + 1 \in Nat
      OBVIOUS
    <2>2. dlq' \in [Job -> Nat]
      BY <1>17, <2>1, ExceptType DEF HandleFailure
    <2>. QED
      BY <1>17, <2>2 DEF HandleFailure, Goto, Stage, storeVars, arqVars
  <1>18. ASSUME NEW w \in Workers, LeaveJob(w)
         PROVE  TypeInv'
    BY <1>18 DEF LeaveJob, FinishJob, RerunJob, Rest, Goto, Stage, dbVars, storeVars
  <1>19. ASSUME NEW w \in Workers, CrashWorker(w)
         PROVE  TypeInv'
    BY <1>19, AssetFaultAssumption DEF CrashWorker, Fault, Rest, Goto, Stage, dbVars, storeVars, arqVars
  <1>20. ASSUME NEW j \in Job, ExpireInProgress(j)
         PROVE  TypeInv'
    BY <1>20 DEF ExpireInProgress, RerunJob, dbVars, storeVars, workerVars
  <1>21. ASSUME NEW letter \in Job, DiscardFailedJob(letter)
         PROVE  TypeInv'
    BY <1>21 DEF DiscardFailedJob, DeleteFailedJob, storeVars, workerVars, arqVars
  <1>22. CASE Tick
    BY <1>22 DEF Tick, dbVars, storeVars, workerVars, arqVars
  <1>23. CASE UNCHANGED vars
    BY <1>23 DEF vars, dbVars, storeVars, workerVars, arqVars
  <1>. QED
    BY <1>1, <1>2, <1>3, <1>4, <1>5, <1>6, <1>7, <1>8, <1>9, <1>10, <1>11, <1>12, <1>13, <1>14,
       <1>15, <1>16, <1>17, <1>18, <1>19, <1>20, <1>21, <1>22, <1>23
    DEF Next, WorkerStep, WorkerFault, RequestStep, Operator

\* The state of AssetPipeline has its type in every reachable state.
THEOREM AssetTypes == Spec => []TypeOK
  <1>1. Init => TypeInv
    BY InitTypeInv
  <1>2. TypeInv /\ [Next]_vars => TypeInv'
    BY NextTypeInv
  <1>3. TypeInv => TypeOK
    BY DEF TypeInv
  <1>. QED
    BY <1>1, <1>2, <1>3, PTL DEF Spec

-----------------------------------------------------------------------------
(* The row and its object.                                                 *)

\* A request that has put bytes, or is about to insert their row, is the only one
\* of its asset, which has no row yet; one that erases has deleted the row.
UploadsApart ==
    /\ \A r \in Requests : \A a \in req[r].todo :
         /\ req[r].op = "put" => row[a] = "absent" /\ a \in parts
         /\ req[r].op = "insert" => row[a] = "absent" /\ a \in objects \ parts
         /\ req[r].op = "erase" => row[a] = "deleted"
    /\ \A r, s \in Requests : r # s /\ {req[r].op, req[s].op} \subseteq {"put", "insert"} =>
         req[r].todo \cap req[s].todo = {}

StoreInv == UploadsApart /\ RowHasObject

LEMMA InitStoreInv == Init => StoreInv
  BY DEF Init, StoreInit, StoreInv, UploadsApart, RowHasObject, IdleRequest, Live

\* What a step that leaves the store alone, starts no upload and no delete, and
\* changes a row only from live to live, can disturb: nothing.
LEMMA StoreUntouched ==
    ASSUME TypeInv, StoreInv, UNCHANGED <<objects, parts>>,
           row' \in [Assets -> Card],
           \A a \in Assets : row'[a] # row[a] => {row[a], row'[a]} \subseteq Live,
           \A r \in Requests : req'[r] # req[r] => req'[r].op \notin {"put", "insert", "erase"}
    PROVE  StoreInv'
  BY DEF TypeInv, TypeOK, StoreInv, UploadsApart, RowHasObject, Live, Request, Card

LEMMA NextStoreInv == TypeInv /\ StoreInv /\ [Next]_vars => StoreInv'
  <1> SUFFICES ASSUME TypeInv, StoreInv, [Next]_vars PROVE StoreInv'
    OBVIOUS
  <1>a. TypeInv'
    BY NextTypeInv
  <1>b. IdleRequest.op = "idle" /\ IdleRequest.todo = {}
    BY DEF IdleRequest
  <1>1. ASSUME NEW r \in Requests, FinishUpload(r)
        PROVE  StoreInv'
    <2>1. PICK a \in Assets : req[r].todo = {a}
      BY <1>1 DEF FinishUpload, TypeInv, OneAsset
    <2>2. /\ a \in parts /\ parts' = parts \ {a} /\ objects' = objects \cup {a}
          /\ row' = row /\ row[a] = "absent"
          /\ req' = [req EXCEPT ![r] = [op |-> "insert", todo |-> {a}, attempt |-> 0, row |-> NoJob]]
      BY <1>1, <2>1 DEF FinishUpload, FinishPut, Continue, dbVars, StoreInv, UploadsApart
    <2>3. \A s \in Requests : s # r /\ req[s].op \in {"put", "insert"} => a \notin req[s].todo
      BY <1>1, <2>1 DEF FinishUpload, StoreInv, UploadsApart
    <2>4. RowHasObject'
      BY <2>2 DEF StoreInv, RowHasObject
    <2>5. \A s \in Requests : \A b \in req'[s].todo :
            /\ req'[s].op = "put" => row[b] = "absent" /\ b \in parts'
            /\ req'[s].op = "insert" => row[b] = "absent" /\ b \in objects' \ parts'
            /\ req'[s].op = "erase" => row[b] = "deleted"
      BY <2>2, <2>3 DEF TypeInv, TypeOK, StoreInv, UploadsApart
    <2>6. \A s, t \in Requests : s # t /\ {req'[s].op, req'[t].op} \subseteq {"put", "insert"} =>
            req'[s].todo \cap req'[t].todo = {}
      BY <1>1, <2>1, <2>2 DEF FinishUpload, TypeInv, TypeOK, StoreInv, UploadsApart
    <2>. QED
      BY <2>2, <2>4, <2>5, <2>6 DEF StoreInv, UploadsApart
  <1>2. ASSUME NEW r \in Requests, InsertAsset(r)
        PROVE  StoreInv'
    <2>1. PICK a \in Assets : req[r].todo = {a}
      BY <1>2 DEF InsertAsset, TypeInv, OneAsset
    <2>2. /\ UNCHANGED <<objects, parts>> /\ row[a] = "absent" /\ a \in objects
          /\ row' = [b \in Assets |-> IF b = a THEN "waiting" ELSE row[b]]
          /\ req' = [req EXCEPT ![r] = [op |-> "enqueue", todo |-> {a}, attempt |-> 0, row |-> NoJob]]
      BY <1>2, <2>1 DEF InsertAsset, NotAnalysed, Continue, storeVars, StoreInv, UploadsApart
    <2>3. \A s \in Requests : s # r /\ req[s].op \in {"put", "insert"} => a \notin req[s].todo
      BY <1>2, <2>1 DEF InsertAsset, StoreInv, UploadsApart
    <2>4. RowHasObject'
      BY <2>2 DEF StoreInv, RowHasObject, Live
    <2>5. \A s \in Requests : \A b \in req'[s].todo :
            /\ req'[s].op = "put" => row'[b] = "absent" /\ b \in parts
            /\ req'[s].op = "insert" => row'[b] = "absent" /\ b \in objects \ parts
            /\ req'[s].op = "erase" => row'[b] = "deleted"
      BY <2>2, <2>3 DEF TypeInv, TypeOK, StoreInv, UploadsApart, Request
    <2>6. \A s, t \in Requests : s # t /\ {req'[s].op, req'[t].op} \subseteq {"put", "insert"} =>
            req'[s].todo \cap req'[t].todo = {}
      BY <2>2 DEF TypeInv, TypeOK, StoreInv, UploadsApart
    <2>. QED
      BY <2>2, <2>4, <2>5, <2>6 DEF StoreInv, UploadsApart
  <1>3. ASSUME NEW r \in Requests, EraseObject(r)
        PROVE  StoreInv'
    <2>1. PICK a \in Assets : req[r].todo = {a}
      BY <1>3 DEF EraseObject, TypeInv, OneAsset
    <2>2. /\ objects' = objects \ {a} /\ parts' = parts /\ row' = row /\ row[a] = "deleted"
          /\ req' = [req EXCEPT ![r] = IdleRequest]
      BY <1>3, <2>1 DEF EraseObject, RemoveObject, dbVars, StoreInv, UploadsApart
    <2>3. \A s \in Requests : req'[s] = IdleRequest \/ req'[s] = req[s]
      BY <2>2 DEF TypeInv, TypeOK
    <2>. QED
      BY <1>b, <2>2, <2>3 DEF StoreInv, UploadsApart, RowHasObject, Live
  <1>4. ASSUME NEW r \in Requests, NEW a \in Assets, UploadAsset(r, a) \/ UploadToS3(r, a)
        PROVE  StoreInv'
    <2>1. /\ row' = row /\ row[a] = "absent" /\ a \notin objects \cup parts
          /\ objects \subseteq objects' /\ parts \subseteq parts' /\ parts' \ parts \subseteq {a}
      BY <1>4 DEF UploadAsset, UploadToS3, NewUpload, FreshKey, BeginPut, PutObject, dbVars
    <2>2. PICK op \in {"put", "insert"} :
            /\ req' = [req EXCEPT ![r] = [op |-> op, todo |-> {a}, attempt |-> 0, row |-> NoJob]]
            /\ op = "put" => a \in parts'
            /\ op = "insert" => a \in objects' \ parts'
      BY <1>4 DEF UploadAsset, UploadToS3, NewUpload, FreshKey, BeginPut, PutObject, Continue
    <2>3. \A s \in Requests : req[s].op \in {"put", "insert"} => a \notin req[s].todo
      BY <2>1 DEF StoreInv, UploadsApart
    <2>4. RowHasObject'
      BY <2>1 DEF StoreInv, RowHasObject
    <2>5. \A s \in Requests : \A b \in req'[s].todo :
            /\ req'[s].op = "put" => row[b] = "absent" /\ b \in parts'
            /\ req'[s].op = "insert" => row[b] = "absent" /\ b \in objects' \ parts'
            /\ req'[s].op = "erase" => row[b] = "deleted"
      BY <2>1, <2>2, <2>3 DEF TypeInv, TypeOK, StoreInv, UploadsApart
    <2>6. \A s, t \in Requests : s # t /\ {req'[s].op, req'[t].op} \subseteq {"put", "insert"} =>
            req'[s].todo \cap req'[t].todo = {}
      BY <2>2, <2>3 DEF TypeInv, TypeOK, StoreInv, UploadsApart
    <2>. QED
      BY <2>1, <2>4, <2>5, <2>6 DEF StoreInv, UploadsApart
  <1>5. ASSUME NEW r \in Requests, NEW a \in Assets, DeleteAsset(r, a)
        PROVE  StoreInv'
    <2>1. /\ UNCHANGED <<objects, parts>> /\ row[a] \in Live
          /\ row' = [row EXCEPT ![a] = "deleted"]
          /\ req' = [req EXCEPT ![r] = [op |-> "erase", todo |-> {a}, attempt |-> 0, row |-> NoJob]]
      BY <1>5 DEF DeleteAsset, Continue, storeVars
    <2>2. \A s \in Requests : req[s].op \in {"put", "insert"} => a \notin req[s].todo
      BY <2>1 DEF StoreInv, UploadsApart, Live
    <2>3. \A s \in Requests : \A b \in req'[s].todo :
            /\ req'[s].op = "put" => row'[b] = "absent" /\ b \in parts
            /\ req'[s].op = "insert" => row'[b] = "absent" /\ b \in objects \ parts
            /\ req'[s].op = "erase" => row'[b] = "deleted"
      BY <2>1, <2>2 DEF TypeInv, TypeOK, StoreInv, UploadsApart, Request
    <2>4. \A s, t \in Requests : s # t /\ {req'[s].op, req'[t].op} \subseteq {"put", "insert"} =>
            req'[s].todo \cap req'[t].todo = {}
      BY <2>1 DEF TypeInv, TypeOK, StoreInv, UploadsApart
    <2>5. RowHasObject'
      BY <2>1 DEF TypeInv, TypeOK, StoreInv, RowHasObject, Live
    <2>. QED
      BY <2>1, <2>3, <2>4, <2>5 DEF StoreInv, UploadsApart
  <1>6. ASSUME NEW w \in Workers, PersistContent(w)
        PROVE  StoreInv'
    BY <1>6, <1>a, StoreUntouched
    DEF PersistContent, RowIsThere, Live, TypeInv, TypeOK, storeVars
  <1>7. ASSUME UNCHANGED <<row, objects, parts>>,
               \A r \in Requests : req'[r] # req[r] => req'[r].op \notin {"put", "insert", "erase"}
        PROVE  StoreInv'
    BY <1>7, <1>a, StoreUntouched DEF TypeInv, TypeOK
  <1>8. ASSUME NEW r \in Requests,
               \/ EnqueueNext(r) \/ DeleteRetriedRow(r) \/ AbortRequest(r) \/ RequeueUnprocessed(r)
               \/ \E letter \in Job : RetryFailedJob(r, letter)
        PROVE  StoreInv'
    <2>1. UNCHANGED <<row, objects, parts>>
      BY <1>8 DEF EnqueueNext, DeleteRetriedRow, AbortRequest, RequeueUnprocessed, RetryFailedJob,
                  dbVars, storeVars
    <2>2. \A s \in Requests : req'[s] # req[s] => req'[s].op \notin {"put", "insert", "erase"}
      <3>1. PICK v : req' = [req EXCEPT ![r] = v] /\ v.op \notin {"put", "insert", "erase"}
        <4>1. CASE EnqueueNext(r)
          <5>1. PICK a : req' = [req EXCEPT ![r] =
                           IF req[r].todo \ {a} = {} /\ req[r].op = "enqueue"
                           THEN IdleRequest ELSE [req[r] EXCEPT !.todo = req[r].todo \ {a}]]
            BY <4>1 DEF EnqueueNext
          <5>2. req[r] \in Request /\ req[r].op \in {"enqueue", "retry"}
            BY <4>1 DEF EnqueueNext, TypeInv, TypeOK
          <5>3. [req[r] EXCEPT !.todo = req[r].todo \ {a}].op = req[r].op
            BY <5>2 DEF Request
          <5>. QED
            BY <5>1, <5>2, <5>3, <1>b
        <4>2. CASE DeleteRetriedRow(r) \/ AbortRequest(r)
          BY <4>2, <1>b DEF DeleteRetriedRow, AbortRequest
        <4>3. CASE RequeueUnprocessed(r)
          <5> DEFINE v == [op |-> "enqueue", todo |-> {a \in Assets : row[a] = "waiting"},
                           attempt |-> now, row |-> NoJob]
          <5>1. req' = [req EXCEPT ![r] = v]
            BY <4>3 DEF RequeueUnprocessed, AttemptSuffix
          <5>2. v.op = "enqueue"
            OBVIOUS
          <5>. QED
            BY <5>1, <5>2
        <4>4. CASE \E letter \in Job : RetryFailedJob(r, letter)
          <5>1. PICK letter \in Job : RetryFailedJob(r, letter)
            BY <4>4
          <5> DEFINE v == [op |-> "retry", todo |-> {letter.asset}, attempt |-> now, row |-> letter]
          <5>2. req' = [req EXCEPT ![r] = v]
            BY <5>1 DEF RetryFailedJob, AttemptSuffix
          <5>3. v.op = "retry"
            OBVIOUS
          <5>. QED
            BY <5>2, <5>3
        <4>. QED
          BY <1>8, <4>1, <4>2, <4>3, <4>4
      <3>. QED
        BY <3>1 DEF TypeInv, TypeOK
    <2>. QED
      BY <2>1, <2>2, <1>7
  <1>9. ASSUME NEW w \in Workers,
               \/ PickJob(w) \/ ExhaustJob(w) \/ IngestAsset(w) \/ LoadImage(w) \/ Media(w)
               \/ Content(w) \/ PersistGone(w) \/ HandleFailure(w) \/ LeaveJob(w) \/ WorkerFault(w)
        PROVE  StoreInv'
    <2>1. UNCHANGED <<row, objects, parts, req>>
      BY <1>9 DEF PickJob, ExhaustJob, IngestAsset, LoadImage, Media, Content, PersistGone,
                  HandleFailure, LeaveJob, WorkerFault, FailAttempt, RecordFailureFails,
                  CrashWorker, dbVars, storeVars
    <2>. QED
      BY <2>1, <1>7
  <1>10. CASE \/ \E j \in Job : ExpireInProgress(j) \/ DiscardFailedJob(j)
              \/ Tick \/ UNCHANGED vars
    <2>1. UNCHANGED <<row, objects, parts, req>>
      BY <1>10 DEF ExpireInProgress, DiscardFailedJob, Tick, vars, dbVars, storeVars
    <2>. QED
      BY <2>1, <1>7
  <1>. QED
    BY <1>1, <1>2, <1>3, <1>4, <1>5, <1>6, <1>8, <1>9, <1>10
    DEF Next, WorkerStep, RequestStep, Operator

\* A card never points at a file that is gone, whatever uploads and deletes
\* overlap or die halfway: assets.py puts before it inserts, and deletes the row
\* before the bytes.
THEOREM CardsHaveTheirObject == Spec => []RowHasObject
  <1>1. Init => TypeInv /\ StoreInv
    BY InitTypeInv, InitStoreInv
  <1>2. TypeInv /\ StoreInv /\ [Next]_vars => (TypeInv /\ StoreInv)'
    BY NextTypeInv, NextStoreInv
  <1>3. TypeInv /\ StoreInv => RowHasObject
    BY DEF StoreInv
  <1>. QED
    BY <1>1, <1>2, <1>3, PTL DEF Spec

-----------------------------------------------------------------------------
(* The card.                                                               *)

\* Three actions write what the page shows; no other step touches it.
LEMMA CardSteps ==
    ASSUME TypeInv, StoreInv, [Next]_vars
    PROVE  \/ \E a \in Assets :
                /\ row[a] = "absent" /\ row' = [row EXCEPT ![a] = "waiting"]
                /\ UNCHANGED <<captions, runs>>
           \/ \E r \in Requests, a \in Assets : DeleteAsset(r, a)
           \/ \E w \in Workers : PersistContent(w)
           \/ UNCHANGED <<row, captions, runs>>
  <1>1. ASSUME NEW r \in Requests, InsertAsset(r)
        PROVE  \E a \in Assets :
                /\ row[a] = "absent" /\ row' = [row EXCEPT ![a] = "waiting"]
                /\ UNCHANGED <<captions, runs>>
    <2>1. PICK a \in Assets : req[r].todo = {a}
      BY <1>1 DEF InsertAsset, TypeInv, OneAsset
    <2>2. row[a] = "absent" /\ row' = [b \in Assets |-> IF b = a THEN "waiting" ELSE row[b]]
      BY <1>1, <2>1 DEF InsertAsset, NotAnalysed, StoreInv, UploadsApart
    <2>3. row' = [row EXCEPT ![a] = "waiting"]
      BY <2>2 DEF TypeInv, TypeOK
    <2>. QED
      BY <1>1, <2>2, <2>3 DEF InsertAsset
  <1>2. ASSUME NEW r \in Requests,
               \/ FinishUpload(r) \/ EnqueueNext(r) \/ DeleteRetriedRow(r) \/ EraseObject(r)
               \/ AbortRequest(r) \/ RequeueUnprocessed(r)
               \/ \E a \in Assets : UploadAsset(r, a) \/ UploadToS3(r, a)
               \/ \E letter \in Job : RetryFailedJob(r, letter)
        PROVE  UNCHANGED <<row, captions, runs>>
    BY <1>2 DEF FinishUpload, EnqueueNext, DeleteRetriedRow, EraseObject, AbortRequest,
                RequeueUnprocessed, UploadAsset, UploadToS3, NewUpload, RetryFailedJob, dbVars
  <1>3. ASSUME NEW w \in Workers,
               \/ PickJob(w) \/ ExhaustJob(w) \/ IngestAsset(w) \/ LoadImage(w) \/ Media(w)
               \/ Content(w) \/ PersistGone(w) \/ HandleFailure(w) \/ LeaveJob(w) \/ WorkerFault(w)
        PROVE  UNCHANGED <<row, captions, runs>>
    BY <1>3 DEF PickJob, ExhaustJob, IngestAsset, LoadImage, Media, Content, PersistGone,
                HandleFailure, LeaveJob, WorkerFault, FailAttempt, RecordFailureFails,
                CrashWorker, dbVars
  <1>4. CASE \/ \E j \in Job : ExpireInProgress(j) \/ DiscardFailedJob(j)
             \/ Tick \/ UNCHANGED vars
    BY <1>4 DEF ExpireInProgress, DiscardFailedJob, Tick, vars, dbVars
  <1>. QED
    BY <1>1, <1>2, <1>3, <1>4 DEF Next, WorkerStep, RequestStep, Operator

LEMMA PersistWrites ==
    ASSUME TypeInv, NEW w \in Workers, PersistContent(w)
    PROVE  \E a \in Assets :
             /\ a = Subject(w) /\ row[a] \in Live
             /\ row' = [row EXCEPT ![a] = "analysed"]
             /\ captions' = [captions EXCEPT ![a] = captions[a] + 1]
             /\ runs' = [runs EXCEPT ![a] = runs[a] \cup Agents]
  BY DEF PersistContent, RowIsThere, GraphRuns, Agents, Subject, TypeInv, TypeOK, Assigned, Job

LEMMA NextCardInv == TypeInv /\ StoreInv /\ CaptionsComeWithAnalysis /\ [Next]_vars
                       => CaptionsComeWithAnalysis'
  <1> SUFFICES ASSUME TypeInv, StoreInv, CaptionsComeWithAnalysis, [Next]_vars
               PROVE  CaptionsComeWithAnalysis'
    OBVIOUS
  <1> USE DEF CaptionsComeWithAnalysis, TypeInv, TypeOK
  <1>1. ASSUME NEW a \in Assets, row[a] = "absent", row' = [row EXCEPT ![a] = "waiting"],
               UNCHANGED <<captions, runs>>
        PROVE  CaptionsComeWithAnalysis'
    BY <1>1
  <1>2. ASSUME NEW r \in Requests, NEW a \in Assets, DeleteAsset(r, a)
        PROVE  CaptionsComeWithAnalysis'
    BY <1>2 DEF DeleteAsset, CascadedCaptions
  <1>3. ASSUME NEW w \in Workers, PersistContent(w)
        PROVE  CaptionsComeWithAnalysis'
    <2>1. PICK a \in Assets :
             /\ row' = [row EXCEPT ![a] = "analysed"]
             /\ captions' = [captions EXCEPT ![a] = captions[a] + 1]
             /\ runs' = [runs EXCEPT ![a] = runs[a] \cup Agents]
      BY <1>3, PersistWrites
    <2>2. captions[a] + 1 > 0 /\ runs[a] \cup Agents = Agents
      OBVIOUS
    <2>. QED
      BY <2>1, <2>2
  <1>4. CASE UNCHANGED <<row, captions, runs>>
    BY <1>4
  <1>. QED
    BY <1>1, <1>2, <1>3, <1>4, CardSteps

\* The page shows captions exactly with their analysis, and both agents are on
\* record for them: PersistContent commits all three at once and a delete takes
\* analysis and captions together.
THEOREM CaptionsAreExplained == Spec => []CaptionsComeWithAnalysis
  <1>1. Init => TypeInv /\ StoreInv /\ CaptionsComeWithAnalysis
    BY InitTypeInv, InitStoreInv DEF Init, CaptionsComeWithAnalysis
  <1>2. TypeInv /\ StoreInv /\ CaptionsComeWithAnalysis /\ [Next]_vars
          => (TypeInv /\ StoreInv /\ CaptionsComeWithAnalysis)'
    BY NextTypeInv, NextStoreInv, NextCardInv
  <1>. QED
    BY <1>1, <1>2, PTL DEF Spec

\* What the Content page sees is an AssetLifecycle: every step is an upload, an
\* analysis with its captions, or a delete of one asset, or leaves the page alone.
THEOREM PipelineImplementsLifecycle == Spec => ImplementsLifecycle
  <1>1. Init => Lifecycle!Init
    BY DEF Init, Lifecycle!Init
  <1>2. TypeInv /\ StoreInv /\ [Next]_vars => [Lifecycle!Next]_(Lifecycle!vars)
    <2> SUFFICES ASSUME TypeInv, StoreInv, [Next]_vars
                 PROVE  [Lifecycle!Next]_(Lifecycle!vars)
      OBVIOUS
    <2> USE DEF Lifecycle!Next, Lifecycle!OnThePage
    <2>1. ASSUME NEW a \in Assets, row[a] = "absent", row' = [row EXCEPT ![a] = "waiting"],
                 UNCHANGED captions
          PROVE  Lifecycle!Next
      BY <2>1 DEF Lifecycle!Upload
    <2>2. ASSUME NEW r \in Requests, NEW a \in Assets, DeleteAsset(r, a)
          PROVE  Lifecycle!Next
      BY <2>2 DEF DeleteAsset, CascadedCaptions, Live, Lifecycle!Remove
    <2>3. ASSUME NEW w \in Workers, PersistContent(w)
          PROVE  Lifecycle!Next
      BY <2>3, PersistWrites DEF Live, Lifecycle!Caption
    <2>. QED
      BY <2>1, <2>2, <2>3, CardSteps DEF Lifecycle!vars
  <1>3. Init => TypeInv /\ StoreInv
    BY InitTypeInv, InitStoreInv
  <1>4. TypeInv /\ StoreInv /\ [Next]_vars => (TypeInv /\ StoreInv)'
    BY NextTypeInv, NextStoreInv
  <1>. QED
    BY <1>1, <1>2, <1>3, <1>4, PTL DEF Spec, ImplementsLifecycle, Lifecycle!Spec

-----------------------------------------------------------------------------
(* Sets of captions.                                                       *)

\* An attempt passes the guard only in IngestAsset, when no analysis was committed.
LEMMA OnlyIngestEnters ==
    ASSUME TypeInv, [Next]_vars, NEW a \in Assets
    PROVE  \/ Inside(a)' \subseteq Inside(a)
           \/ row[a] = "waiting" /\ UNCHANGED captions
  <1> USE DEF Inside, Subject, PastGuard, TypeInv, TypeOK
  <1>1. ASSUME NEW w \in Workers, IngestAsset(w)
        PROVE  \/ Inside(a)' \subseteq Inside(a)
               \/ row[a] = "waiting" /\ UNCHANGED captions
    <2>1. CASE row[Subject(w)] = "waiting" /\ a = Subject(w)
      BY <1>1, <2>1 DEF IngestAsset, dbVars
    <2>2. CASE a # Subject(w)
      BY <1>1, <2>2 DEF IngestAsset, Goto, Raise
    <2>3. CASE row[Subject(w)] # "waiting"
      BY <1>1, <2>3 DEF IngestAsset, Goto, Raise, AlreadyProcessed, Live
    <2>. QED
      BY <2>1, <2>2, <2>3
  <1>2. ASSUME NEW w \in Workers, PickJob(w)
        PROVE  Inside(a)' \subseteq Inside(a)
    BY <1>2 DEF PickJob, Goto
  <1>3. ASSUME NEW w \in Workers, LoadImage(w) \/ Media(w) \/ Content(w)
        PROVE  Inside(a)' \subseteq Inside(a)
    BY <1>3 DEF LoadImage, Media, Content, Goto, Raise
  <1>4. ASSUME NEW w \in Workers,
               \/ PersistContent(w) \/ PersistGone(w) \/ HandleFailure(w)
               \/ FailAttempt(w) \/ RecordFailureFails(w)
        PROVE  Inside(a)' \subseteq Inside(a)
    BY <1>4 DEF PersistContent, PersistGone, HandleFailure, FailAttempt, RecordFailureFails,
                Goto, Raise
  <1>5. ASSUME NEW w \in Workers, LeaveJob(w) \/ CrashWorker(w)
        PROVE  Inside(a)' \subseteq Inside(a)
    BY <1>5 DEF LeaveJob, CrashWorker, Rest, Goto
  <1>6. ASSUME UNCHANGED <<pc, job>>
        PROVE  Inside(a)' \subseteq Inside(a)
    BY <1>6
  <1>7. ASSUME NEW r \in Requests, RequestStep(r) \/ Operator(r) \/ AbortRequest(r)
        PROVE  UNCHANGED <<pc, job>>
    BY <1>7 DEF RequestStep, Operator, FinishUpload, InsertAsset, EnqueueNext, DeleteRetriedRow,
                EraseObject, RequeueUnprocessed, UploadAsset, UploadToS3, NewUpload, DeleteAsset,
                RetryFailedJob, AbortRequest, workerVars
  <1>8. CASE \/ \E j \in Job : ExpireInProgress(j) \/ DiscardFailedJob(j)
             \/ \E w \in Workers : ExhaustJob(w)
             \/ Tick \/ UNCHANGED vars
    BY <1>8, <1>6 DEF ExpireInProgress, DiscardFailedJob, ExhaustJob, Tick, vars, workerVars
  <1>. QED
    BY <1>1, <1>2, <1>3, <1>4, <1>5, <1>6, <1>7, <1>8 DEF Next, WorkerStep, WorkerFault

LEMMA NextCaptionBound ==
    TypeInv /\ StoreInv /\ CaptionsComeWithAnalysis /\ CaptionsBoundedByWorkers /\ [Next]_vars
      => CaptionsBoundedByWorkers'
  <1> SUFFICES ASSUME TypeInv, StoreInv, CaptionsComeWithAnalysis, CaptionsBoundedByWorkers,
                      [Next]_vars, NEW a \in Assets, captions'[a] > 0
               PROVE  captions'[a] + Cardinality(Inside(a)') <= Cardinality(Workers)
    BY DEF CaptionsBoundedByWorkers
  <1>1. /\ IsFiniteSet(Workers) /\ Cardinality(Workers) \in Nat
        /\ Inside(a) \subseteq Workers /\ Inside(a)' \subseteq Workers
    BY AssetWorkersAssumption, FS_CardinalityType DEF Inside
  <1>2. /\ IsFiniteSet(Inside(a)) /\ Cardinality(Inside(a)) \in Nat
        /\ IsFiniteSet(Inside(a)') /\ Cardinality(Inside(a)') \in Nat
    BY <1>1, FS_Subset, FS_CardinalityType
  <1>3. captions[a] \in Nat /\ captions'[a] \in Nat
    BY NextTypeInv DEF TypeInv, TypeOK
  <1>4. ASSUME NEW w \in Workers, PersistContent(w)
        PROVE  captions'[a] + Cardinality(Inside(a)') <= Cardinality(Workers)
    <2>1. PICK b \in Assets :
             b = Subject(w) /\ captions' = [captions EXCEPT ![b] = captions[b] + 1]
      BY <1>4, PersistWrites
    <2>2. pc[w] = "persist" /\ pc' = [pc EXCEPT ![w] = "committed"] /\ job' = job
      BY <1>4 DEF PersistContent, Goto
    <2>3. CASE a = b
      <3>1. w \in Inside(a) /\ w \notin Inside(a)' /\ Inside(a)' \subseteq Inside(a)
        BY <2>1, <2>2, <2>3 DEF Inside, Subject, PastGuard, TypeInv, TypeOK
      <3>2. Inside(a)' \subseteq Inside(a) \ {w} /\ Inside(a)' \subseteq Workers \ {w}
        BY <1>1, <3>1
      <3>3. /\ Cardinality(Inside(a) \ {w}) = Cardinality(Inside(a)) - 1
            /\ Cardinality(Workers \ {w}) = Cardinality(Workers) - 1
            /\ IsFiniteSet(Inside(a) \ {w}) /\ IsFiniteSet(Workers \ {w})
        BY <1>1, <1>2, <3>1, FS_RemoveElement
      <3>4. /\ Cardinality(Inside(a)') <= Cardinality(Inside(a)) - 1
            /\ Cardinality(Inside(a)') <= Cardinality(Workers) - 1
        BY <3>2, <3>3, FS_Subset
      <3>5. captions'[a] = captions[a] + 1
        BY <2>1, <2>3 DEF TypeInv, TypeOK
      <3>6. captions[a] > 0 => captions[a] + Cardinality(Inside(a)) <= Cardinality(Workers)
        BY DEF CaptionsBoundedByWorkers
      <3>. QED
        BY <1>1, <1>2, <1>3, <3>4, <3>5, <3>6
    <2>4. CASE a # b
      <3>1. captions'[a] = captions[a]
        BY <2>1, <2>4 DEF TypeInv, TypeOK
      <3>2. Inside(a)' \subseteq Inside(a)
        BY <2>2 DEF Inside, Subject, PastGuard, TypeInv, TypeOK
      <3>3. Cardinality(Inside(a)') <= Cardinality(Inside(a))
        BY <1>2, <3>2, FS_Subset
      <3>4. captions[a] + Cardinality(Inside(a)) <= Cardinality(Workers)
        BY <3>1 DEF CaptionsBoundedByWorkers
      <3>. QED
        BY <1>1, <1>2, <1>3, <3>1, <3>3, <3>4
    <2>. QED
      BY <2>3, <2>4
  <1>5. ASSUME captions'[a] = captions[a]
        PROVE  captions'[a] + Cardinality(Inside(a)') <= Cardinality(Workers)
    <2>1. row[a] = "analysed" /\ captions[a] + Cardinality(Inside(a)) <= Cardinality(Workers)
      BY <1>5 DEF CaptionsComeWithAnalysis, CaptionsBoundedByWorkers
    <2>2. Inside(a)' \subseteq Inside(a)
      BY <2>1, OnlyIngestEnters
    <2>3. Cardinality(Inside(a)') <= Cardinality(Inside(a))
      BY <1>2, <2>2, FS_Subset
    <2>. QED
      BY <1>1, <1>2, <1>3, <1>5, <2>1, <2>3
  <1>6. ASSUME NEW r \in Requests, NEW b \in Assets, DeleteAsset(r, b)
        PROVE  captions'[a] = captions[a]
    BY <1>6 DEF DeleteAsset, CascadedCaptions, TypeInv, TypeOK
  <1>. QED
    BY <1>4, <1>5, <1>6, CardSteps

\* No sequence of retries, requeues and redeliveries makes more sets of captions
\* than there are workers, although the asset graph takes no row lock.
THEOREM CaptionsAreBounded == Spec => []CaptionsBoundedByWorkers
  <1> DEFINE Inv == TypeInv /\ StoreInv /\ CaptionsComeWithAnalysis /\ CaptionsBoundedByWorkers
  <1>1. Init => Inv
    BY InitTypeInv, InitStoreInv
    DEF Init, CaptionsComeWithAnalysis, CaptionsBoundedByWorkers
  <1>2. Inv /\ [Next]_vars => Inv'
    BY NextTypeInv, NextStoreInv, NextCardInv, NextCaptionBound
  <1>3. Inv => CaptionsBoundedByWorkers
    OBVIOUS
  <1>. QED
    BY <1>1, <1>2, <1>3, PTL DEF Spec

-----------------------------------------------------------------------------
(* Bytes without a row.                                                    *)

\* A temporary file is that of an upload whose row is not inserted yet.
PartsAreEarly == \A a \in parts : row[a] = "absent"

OrphanInv == PartsAreEarly /\ OrphansAreFaults

\* A step that is no fault, creates no bytes, drops no request that has bytes in
\* hand and takes no live row away leaves no orphan.
LEMMA NoNewOrphan ==
    ASSUME TypeInv, OrphanInv, UNCHANGED <<objects, parts>>,
           faults' \in Nat, faults' = 0 => faults = 0,
           \A a \in Assets : row[a] # "absent" => row'[a] # "absent",
           \A a \in parts : row'[a] = row[a],
           \A a \in Assets : row[a] \in Live => row'[a] \in Live,
           \A r \in Requests : req[r].op \in {"put", "insert", "erase"} => req'[r] = req[r]
    PROVE  OrphanInv'
  BY DEF OrphanInv, PartsAreEarly, OrphansAreFaults, TypeInv, TypeOK, StoreTypeOK

LEMMA NextOrphanInv == TypeInv /\ StoreInv /\ OrphanInv /\ [Next]_vars => OrphanInv'
  <1> SUFFICES ASSUME TypeInv, StoreInv, OrphanInv, [Next]_vars PROVE OrphanInv'
    OBVIOUS
  <1>a. TypeInv'
    BY NextTypeInv
  <1>b. IdleRequest.op = "idle" /\ faults \in Nat /\ faults' \in Nat
    BY <1>a, AssetFaultAssumption DEF IdleRequest, TypeInv, TypeOK
  <1> USE DEF OrphanInv, PartsAreEarly, OrphansAreFaults
  <1>1. ASSUME NEW r \in Requests, FinishUpload(r)
        PROVE  OrphanInv'
    <2>1. PICK a \in Assets : req[r].todo = {a}
      BY <1>1 DEF FinishUpload, TypeInv, OneAsset
    <2>2. /\ a \in parts /\ parts' = parts \ {a} /\ objects' = objects \cup {a}
          /\ row' = row /\ faults' = faults
          /\ req' = [req EXCEPT ![r] = [op |-> "insert", todo |-> {a}, attempt |-> 0, row |-> NoJob]]
      BY <1>1, <2>1 DEF FinishUpload, FinishPut, Continue, dbVars
    <2>3. req'[r].op = "insert" /\ req'[r].todo = {a} /\ \A s \in Requests : s # r => req'[s] = req[s]
      BY <2>2 DEF TypeInv, TypeOK
    <2>. QED
      BY <2>1, <2>2, <2>3
  <1>2. ASSUME NEW r \in Requests, InsertAsset(r)
        PROVE  OrphanInv'
    <2>1. PICK a \in Assets : req[r].todo = {a}
      BY <1>2 DEF InsertAsset, TypeInv, OneAsset
    <2>2. /\ UNCHANGED <<objects, parts, faults>> /\ row[a] = "absent" /\ a \notin parts
          /\ row' = [b \in Assets |-> IF b = a THEN "waiting" ELSE row[b]]
          /\ req' = [req EXCEPT ![r] = [op |-> "enqueue", todo |-> {a}, attempt |-> 0, row |-> NoJob]]
      BY <1>2, <2>1 DEF InsertAsset, NotAnalysed, Continue, storeVars, StoreInv, UploadsApart
    <2>3. \A s \in Requests : s # r => req'[s] = req[s]
      BY <2>2 DEF TypeInv, TypeOK
    <2>. QED
      BY <2>1, <2>2, <2>3 DEF Live, TypeInv, TypeOK, StoreTypeOK
  <1>3. ASSUME NEW r \in Requests, EraseObject(r)
        PROVE  OrphanInv'
    <2>1. PICK a \in Assets : req[r].todo = {a}
      BY <1>3 DEF EraseObject, TypeInv, OneAsset
    <2>2. /\ objects' = objects \ {a} /\ parts' = parts /\ row' = row /\ faults' = faults
          /\ row[a] = "deleted" /\ req' = [req EXCEPT ![r] = IdleRequest]
      BY <1>3, <2>1 DEF EraseObject, RemoveObject, dbVars, StoreInv, UploadsApart
    <2>3. \A s \in Requests : s # r => req'[s] = req[s]
      BY <2>2 DEF TypeInv, TypeOK
    <2>. QED
      BY <2>1, <2>2, <2>3
  <1>4. ASSUME NEW r \in Requests, NEW a \in Assets, UploadAsset(r, a) \/ UploadToS3(r, a)
        PROVE  OrphanInv'
    <2>1. /\ row' = row /\ row[a] = "absent" /\ faults' = faults /\ req[r] = IdleRequest
          /\ objects' \cup parts' = objects \cup parts \cup {a} /\ parts' \subseteq parts \cup {a}
      BY <1>4 DEF UploadAsset, UploadToS3, NewUpload, IdleSlot, BeginPut, PutObject, dbVars
    <2>2. /\ req'[r].op \in {"put", "insert"} /\ a \in req'[r].todo
          /\ \A s \in Requests : s # r => req'[s] = req[s]
      BY <1>4 DEF UploadAsset, UploadToS3, Continue, TypeInv, TypeOK
    <2>. QED
      BY <1>b, <2>1, <2>2
  <1>5. ASSUME NEW r \in Requests, NEW a \in Assets, DeleteAsset(r, a)
        PROVE  OrphanInv'
    <2>1. /\ UNCHANGED <<objects, parts, faults>> /\ row[a] \in Live /\ req[r] = IdleRequest
          /\ row' = [row EXCEPT ![a] = "deleted"]
          /\ req' = [req EXCEPT ![r] = [op |-> "erase", todo |-> {a}, attempt |-> 0, row |-> NoJob]]
      BY <1>5 DEF DeleteAsset, IdleSlot, Continue, storeVars
    <2>2. /\ req'[r].op = "erase" /\ req'[r].todo = {a}
          /\ \A s \in Requests : s # r => req'[s] = req[s]
          /\ \A b \in Assets : b # a => row'[b] = row[b]
      BY <2>1 DEF TypeInv, TypeOK
    <2>3. a \notin parts
      BY <2>1 DEF Live
    <2>. QED
      BY <1>b, <2>1, <2>2, <2>3 DEF TypeInv, TypeOK, StoreTypeOK
  <1>6. ASSUME NEW w \in Workers, PersistContent(w)
        PROVE  OrphanInv'
    <2>1. PICK a \in Assets : row[a] \in Live /\ row' = [row EXCEPT ![a] = "analysed"]
      BY <1>6, PersistWrites
    <2>2. a \notin parts
      BY <2>1 DEF Live
    <2>3. UNCHANGED <<objects, parts, faults, req>>
      BY <1>6 DEF PersistContent, storeVars
    <2>. QED
      BY <1>b, <2>1, <2>2, <2>3, NoNewOrphan DEF Live, TypeInv, TypeOK, StoreTypeOK
  <1>7. ASSUME UNCHANGED <<row, objects, parts>>, faults' = 0 => faults = 0,
               \A r \in Requests : req[r].op \in {"put", "insert", "erase"} => req'[r] = req[r]
        PROVE  OrphanInv'
    BY <1>7, <1>b, NoNewOrphan
  <1>8. ASSUME NEW r \in Requests,
               \/ EnqueueNext(r) \/ DeleteRetriedRow(r) \/ RequeueUnprocessed(r)
               \/ \E letter \in Job : RetryFailedJob(r, letter)
        PROVE  OrphanInv'
    <2>1. UNCHANGED <<row, objects, parts, faults>>
      BY <1>8 DEF EnqueueNext, DeleteRetriedRow, RequeueUnprocessed, RetryFailedJob,
                  dbVars, storeVars
    <2>2. req[r].op \notin {"put", "insert", "erase"}
      BY <1>8, <1>b DEF EnqueueNext, DeleteRetriedRow, RequeueUnprocessed, RetryFailedJob, IdleSlot
    <2>3. \E v : req' = [req EXCEPT ![r] = v]
      BY <1>8 DEF EnqueueNext, DeleteRetriedRow, RequeueUnprocessed, RetryFailedJob
    <2>4. \A s \in Requests : s # r => req'[s] = req[s]
      BY <2>3 DEF TypeInv, TypeOK
    <2>. QED
      BY <2>1, <2>2, <2>4, <1>7
  <1>9. ASSUME NEW r \in Requests, AbortRequest(r)
        PROVE  OrphanInv'
    BY <1>9, <1>b DEF AbortRequest, Fault, dbVars, storeVars
  <1>10. ASSUME NEW w \in Workers,
                \/ PickJob(w) \/ ExhaustJob(w) \/ IngestAsset(w) \/ LoadImage(w) \/ Media(w)
                \/ Content(w) \/ PersistGone(w) \/ HandleFailure(w) \/ LeaveJob(w)
         PROVE  OrphanInv'
    <2>1. UNCHANGED <<row, objects, parts, req, faults>>
      BY <1>10 DEF PickJob, ExhaustJob, IngestAsset, LoadImage, Media, Content, PersistGone,
                   HandleFailure, LeaveJob, dbVars, storeVars
    <2>. QED
      BY <2>1, <1>7
  <1>11. ASSUME NEW w \in Workers, WorkerFault(w)
         PROVE  OrphanInv'
    <2>1. UNCHANGED <<row, objects, parts>> /\ faults' = faults + 1
      BY <1>11 DEF WorkerFault, FailAttempt, RecordFailureFails, CrashWorker, Fault, dbVars, storeVars
    <2>. QED
      BY <2>1, <1>b
  <1>12. CASE \/ \E j \in Job : ExpireInProgress(j) \/ DiscardFailedJob(j)
              \/ Tick \/ UNCHANGED vars
    <2>1. UNCHANGED <<row, objects, parts, req, faults>>
      BY <1>12 DEF ExpireInProgress, DiscardFailedJob, Tick, vars, dbVars, storeVars
    <2>. QED
      BY <2>1, <1>7
  <1>. QED
    BY <1>1, <1>2, <1>3, <1>4, <1>5, <1>6, <1>8, <1>9, <1>10, <1>11, <1>12
    DEF Next, WorkerStep, RequestStep, Operator

\* Bytes that nothing will list or delete are left only by a fault: in a run
\* without one, a request still has them in hand.
THEOREM OrphansNeedAFault == Spec => []OrphansAreFaults
  <1>1. Init => TypeInv /\ StoreInv /\ OrphanInv
    BY InitTypeInv, InitStoreInv
    DEF Init, StoreInit, OrphanInv, PartsAreEarly, OrphansAreFaults
  <1>2. TypeInv /\ StoreInv /\ OrphanInv /\ [Next]_vars => (TypeInv /\ StoreInv /\ OrphanInv)'
    BY NextTypeInv, NextStoreInv, NextOrphanInv
  <1>3. OrphanInv => OrphansAreFaults
    BY DEF OrphanInv
  <1>. QED
    BY <1>1, <1>2, <1>3, PTL DEF Spec
=============================================================================
