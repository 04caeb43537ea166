------------------------------ MODULE ArqQueue ------------------------------
(***************************************************************************)
(* The Redis side of the job queue as the API and the worker use it: arq,  *)
(* a library, modelled from its uses in api/app/services/queue.py and from *)
(* the settings and comments of worker/worker/main.py.                     *)
(*                                                                         *)
(* A job is a member of JobId: the explicit _job_id every enqueue passes.  *)
(* Times to live that only matter "eventually" are actions: the            *)
(* in-progress key of a dead worker, and the result key where a job id is  *)
(* asked for again an hour later (a result key outlives every attempt      *)
(* suffix that could meet it, so the pipelines never forget one).          *)
(***************************************************************************)
EXTENDS Naturals

CONSTANTS JobId,      \* the job keys that can be asked for
          MaxTries    \* WorkerSettings.max_tries

VARIABLES queue,      \* job ids in the queue: waiting, or being run
          inProgress, \* job ids whose in-progress key exists
          results,    \* job ids whose result key exists: finished
          tries       \* the retry counter of each job id: its job_try

QueueTypeOK ==
    /\ queue \subseteq JobId
    /\ inProgress \subseteq JobId
    /\ results \subseteq JobId
    /\ tries \in [JobId -> 0..MaxTries]

QueueInit ==
    /\ queue = {}
    /\ inProgress = {}
    /\ results = {}
    /\ tries = [j \in JobId |-> 0]

\* enqueue_job answers None when the job key or the result key exists.
Known(j) == j \in queue \cup results

EnqueueJob(j) ==
    /\ queue' = IF Known(j) THEN queue ELSE queue \cup {j}
    /\ UNCHANGED <<inProgress, results, tries>>

\* A worker takes a queued id nobody holds, and counts the try.
StartJob(j) ==
    /\ j \in queue \ inProgress
    /\ tries[j] < MaxTries
    /\ inProgress' = inProgress \cup {j}
    /\ tries' = [tries EXCEPT ![j] = @ + 1]
    /\ UNCHANGED <<queue, results>>

\* The job leaves the queue for good: it returned, or raised anything that is
\* not a clean cancellation.
FinishJob(j) ==
    /\ queue' = queue \ {j}
    /\ inProgress' = inProgress \ {j}
    /\ results' = results \cup {j}
    /\ UNCHANGED tries

\* Picked once more than max_tries allows: finished without calling the
\* function, so none of the worker's own failure handling runs.
AbandonJob(j) ==
    /\ j \in queue \ inProgress
    /\ tries[j] = MaxTries
    /\ FinishJob(j)

\* A clean CancelledError: "will be run again".
RerunJob(j) ==
    /\ inProgress' = inProgress \ {j}
    /\ UNCHANGED <<queue, results, tries>>

\* The result key expires: the same id can be asked for again, and starts over
\* (finishing deleted its retry counter).
ForgetResult(j) ==
    /\ j \in results
    /\ results' = results \ {j}
    /\ tries' = [tries EXCEPT ![j] = 0]
    /\ UNCHANGED <<queue, inProgress>>
=============================================================================
