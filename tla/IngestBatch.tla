----------------------------- MODULE IngestBatch -----------------------------
(***************************************************************************)
(* POST /ingest/comments row by row: what becomes of each row of a dump    *)
(* while other dumps, with the same rows in another order perhaps, are     *)
(* ingested at the same time.  CommentPipeline has a batch as one step;    *)
(* here it is the transaction it is, whose INSERT ... ON CONFLICT DO       *)
(* NOTHING waits for whoever has inserted the same key and not committed.  *)
(***************************************************************************)
EXTENDS Naturals, Sequences, FiniteSets

CONSTANTS Requests,
          Refs,       \* (account_handle, post_external_id), as rows have them
          Posts,
          PostsOf,    \* the posts that answer to a Ref: handles are not unique
          Ids,        \* external_id
          Rows,       \* bound: the rows that dumps are made of
          MaxRows,    \* bound: rows of a dump
          ChunkRows   \* CHUNK_ROWS

ASSUME IngestRequestsAssumption == IsFiniteSet(Requests)
ASSUME IngestPostsAssumption == PostsOf \in [Refs -> SUBSET Posts]
ASSUME IngestChunkAssumption == ChunkRows \in Nat \ {0}
ASSUME IngestRowsAssumption == MaxRows \in Nat

\* malformed: IncomingComment(**raw) raises.  unreportable: it does, and so does
\* RejectedRow (a CSV row with more fields than the header has).  unstorable: it
\* does not, but Postgres refuses the values (an author of more than 120
\* characters, a zero byte).
Flaws == {"malformed", "unreportable", "unstorable"}
Dump  == UNION {[1..n -> Rows] : n \in 1..MaxRows}
Key   == Posts \X Ids

ASSUME IngestDumpAssumption == Rows \subseteq [ref : Refs, id : Ids, flaw : Flaws \cup {"none"}]

Row   == 1..MaxRows
Keyed == UNION {[rows -> Key] : rows \in SUBSET Row}

VARIABLES comments,  \* the keys in the table
          letters,   \* failed_jobs rows of type ingest_comment: the rows each dump left
          jobs,      \* the comments that have a job
          req        \* the requests

vars == <<comments, letters, jobs, req>>

\* keys: the key of each row of the dump that goes into an INSERT; left: the rows
\* of the statements to come; todo: those the statement has not reached, or that
\* have no job yet; mine: the rows inserted; skipped, rejected, enqueued: the
\* counters of the answer.
Request == [step : {"idle", "insert", "commit", "enqueue", "done", "cut", "failed"},
            dump : Dump \cup {<<>>}, keys : Keyed,
            left : SUBSET Row, todo : SUBSET Row, mine : SUBSET Row,
            skipped : Nat, rejected : Nat, enqueued : Nat]

IdleRequest == [step |-> "idle", dump |-> <<>>, keys |-> <<>>, left |-> {}, todo |-> {},
                mine |-> {}, skipped |-> 0, rejected |-> 0, enqueued |-> 0]

FailedRequest == [IdleRequest EXCEPT !.step = "failed"]

TypeOK ==
    /\ comments \subseteq Key
    /\ letters \in [Requests -> SUBSET Row]
    /\ jobs \subseteq comments
    /\ req \in [Requests -> Request]

Init ==
    /\ comments = {}
    /\ letters = [r \in Requests |-> {}]
    /\ jobs = {}
    /\ req = [r \in Requests |-> IdleRequest]

-----------------------------------------------------------------------------
(* Parsing.                                                                *)

Rejected(dump) == {i \in DOMAIN dump : dump[i].flaw \in {"malformed", "unreportable"}}
Parsed(dump) == DOMAIN dump \ Rejected(dump)

\* The rows that go on, and a loop that ends at the first bad one.
UpToFirstBad(dump) == {i \in Parsed(dump) : \A j \in Rejected(dump) : i < j}
Accepted(dump) == Parsed(dump)

\* Which of them the next loop keeps: the post is known and no row before it has
\* its key.
KeyOf(row, post) == <<post[row.ref], row.id>>
Resolved(dump, post) == {i \in Accepted(dump) : dump[i].ref \in DOMAIN post}
Kept(dump, post) ==
    {i \in Resolved(dump, post) : \A j \in Resolved(dump, post) :
        j < i => KeyOf(dump[j], post) # KeyOf(dump[i], post)}

\* The rows of the next statement, of those that are left.
Chunk(left) == {i \in left : Cardinality({j \in left : j <= i}) <= ChunkRows}

\* _resolve_posts: of several posts with one Ref, the dict keeps the last that
\* the query happened to return.
Resolution(post) == \A ref \in DOMAIN post : post[ref] \in PostsOf[ref]

-----------------------------------------------------------------------------
(* The request.                                                            *)

Set(r, fields) == req' = [req EXCEPT ![r] = fields]

\* Rows the loop skips, and a variant that forgets those seen twice.
UnknownOnly(dump, post) == Cardinality(Parsed(dump) \ Resolved(dump, post))
SkippedRows(dump, post) == Cardinality(Parsed(dump) \ Kept(dump, post))

\* Up to the first INSERT.  A row that cannot even be reported is a 500.
PostDump(r, dump) ==
    /\ req[r] = IdleRequest
    /\ \/ /\ \E i \in DOMAIN dump : dump[i].flaw = "unreportable"
          /\ Set(r, FailedRequest)
       \/ /\ \A i \in DOMAIN dump : dump[i].flaw # "unreportable"
          /\ \E post \in [{ref \in Refs : PostsOf[ref] # {}} -> Posts] :
               /\ Resolution(post)
               /\ Set(r, [IdleRequest EXCEPT
                           !.step = "insert", !.dump = dump,
                           !.keys = [i \in Kept(dump, post) |-> KeyOf(dump[i], post)],
                           !.left = Kept(dump, post),
                           !.skipped = SkippedRows(dump, post),
                           !.rejected = Cardinality(Rejected(dump))])
    /\ UNCHANGED <<comments, letters, jobs>>

\* The next chunk goes into a statement.
NextChunk(r) ==
    /\ req[r].step = "insert" /\ req[r].todo = {} /\ req[r].left # {}
    /\ LET chunk == Chunk(req[r].left)
       IN Set(r, [req[r] EXCEPT !.todo = chunk, !.left = @ \ chunk])
    /\ UNCHANGED <<comments, letters, jobs>>

Keys(r) == {req[r].keys[i] : i \in req[r].mine}
First(i, rows) == i \in rows /\ \A j \in rows : i <= j

\* Another transaction has inserted the key and is still open.
HeldBy(s, key) == req[s].step \in {"insert", "commit"} /\ key \in Keys(s)
Waits(r, key) == \E s \in Requests \ {r} : HeldBy(s, key)

\* A key that conflicts is not returned; a variant without the conflict target.
AnyKey(r, key) == TRUE
NewKey(r, key) == key \notin comments \cup Keys(r)

\* One row of an INSERT ... ON CONFLICT DO NOTHING RETURNING.
InsertRow(r) ==
    /\ req[r].step = "insert"
    /\ \E i \in req[r].todo :
         LET key == req[r].keys[i]
         IN /\ First(i, req[r].todo)
            /\ ~Waits(r, key)
            /\ req[r].dump[i].flaw # "unstorable"
            /\ Set(r, [req[r] EXCEPT
                        !.todo = @ \ {i},
                        !.mine = IF NewKey(r, key) THEN @ \cup {i} ELSE @])
    /\ UNCHANGED <<comments, letters, jobs>>

\* The statements are through; what was not inserted was skipped.
EndInserts(r) ==
    /\ req[r].step = "insert" /\ req[r].todo = {} /\ req[r].left = {}
    /\ Set(r, [req[r] EXCEPT
                !.step = "commit",
                !.skipped = @ + (Cardinality(DOMAIN req[r].keys) - Cardinality(req[r].mine))])
    /\ UNCHANGED <<comments, letters, jobs>>

\* dead_letter_rows adds to the same session.
LettersOf(r) == Rejected(req[r].dump)

\* A variant that enqueues before it commits.
EnqueueFirst(r) ==
    /\ req[r].step = "commit"
    /\ Set(r, [req[r] EXCEPT !.step = "enqueue", !.todo = req[r].mine])
    /\ UNCHANGED <<comments, letters, jobs>>

CommitDump(r) ==
    /\ req[r].step = "commit"
    /\ comments' = comments \cup Keys(r)
    /\ letters' = [letters EXCEPT ![r] = LettersOf(r)]
    /\ Set(r, [req[r] EXCEPT !.step = "enqueue", !.todo = req[r].mine])
    /\ UNCHANGED jobs

\* enqueue_comments, one id after the other.
EnqueueNext(r) ==
    /\ req[r].step = "enqueue"
    /\ \E i \in req[r].todo :
         LET key == req[r].keys[i]
         IN /\ First(i, req[r].todo)
            /\ jobs' = jobs \cup {key}
            /\ Set(r, [req[r] EXCEPT !.todo = @ \ {i},
                                     !.enqueued = IF key \in jobs THEN @ ELSE @ + 1])
    /\ UNCHANGED <<comments, letters>>

Answer(r) ==
    /\ req[r].step = "enqueue" /\ req[r].todo = {}
    /\ Set(r, [req[r] EXCEPT !.step = "done"])
    /\ UNCHANGED <<comments, letters, jobs>>

\* A row Postgres refuses, the one it picks of two transactions that wait for
\* each other, a lost connection, a dead process: the transaction is rolled back,
\* or the rest of the enqueues does not happen.
FailRequest(r) ==
    /\ \/ req[r].step \in {"insert", "commit"} /\ Set(r, FailedRequest)
       \/ req[r].step = "enqueue" /\ Set(r, [req[r] EXCEPT !.step = "cut"])
    /\ UNCHANGED <<comments, letters, jobs>>

Next ==
    \E r \in Requests :
        \/ \E dump \in Dump : PostDump(r, dump)
        \/ NextChunk(r) \/ InsertRow(r) \/ EndInserts(r) \/ CommitDump(r)
        \/ EnqueueNext(r) \/ Answer(r) \/ FailRequest(r)

Spec == Init /\ [][Next]_vars

-----------------------------------------------------------------------------
(* Safety.                                                                 *)

Open      == {r \in Requests : req[r].step \in {"insert", "commit"}}
Committed == {r \in Requests : req[r].step \in {"enqueue", "done", "cut"}}

\* A comment is inserted, enqueued and counted by one dump only, however many
\* dumps carry it at the same time or later.
InsertedOnce ==
    \A r, s \in Open \cup Committed : r # s => Keys(r) \cap Keys(s) = {}

\* Whatever a transaction that was rolled back had, another takes up: after a
\* commit every row that can be parsed and has a post is in the table.
NothingLost ==
    \A r \in Committed : \A i \in Parsed(req[r].dump) :
        LET row == req[r].dump[i]
        IN PostsOf[row.ref] # {} => \E post \in PostsOf[row.ref] : <<post, row.id>> \in comments

\* The answer accounts for every row of the dump once, and the Failed Jobs panel
\* agrees with the answers, dumps that were refused or rolled back included.
CountsAddUp ==
    /\ \A r \in Requests : req[r].step = "done" =>
         /\ Cardinality(req[r].mine) + req[r].skipped + req[r].rejected = Len(req[r].dump)
         /\ req[r].enqueued = Cardinality(req[r].mine)
    /\ \A r \in Requests :
         Cardinality(letters[r]) = IF r \in Committed THEN req[r].rejected ELSE 0

-----------------------------------------------------------------------------
(* CommentPipeline takes a dump in one step: the rows that were not there  *)
(* become comments, and one job after the other follows.  The same, with   *)
(* the transactions that make it so.  It has no workers here, whom a dump  *)
(* never meets before its commit.                                          *)

NoRow == <<>>
Jobs  == [comment : Key, attempt : 0..1]
Unqueued(r) == req[r].step = "enqueue" /\ req[r].todo # {}
CutShort    == {r \in Requests : req[r].step = "cut" /\ req[r].todo # {}}

PipelineRequest(r) ==
    IF Unqueued(r)
    THEN [op |-> "ingest", todo |-> {req[r].keys[i] : i \in req[r].todo},
          attempt |-> 0, row |-> NoRow]
    ELSE [op |-> "idle", todo |-> {}, attempt |-> 0, row |-> NoRow]

Pipeline ==
    INSTANCE CommentPipeline WITH
        Comments <- Key, Workers <- {}, MaxTries <- 1, MaxClock <- 1,
        MaxFaults <- Cardinality(Requests), NoJob <- NoRow,
        comment <- [key \in Key |-> IF key \in comments THEN "new" ELSE "absent"],
        queue <- {[comment |-> key, attempt |-> 0] : key \in jobs},
        req <- [r \in Requests |-> PipelineRequest(r)],
        faults <- Cardinality(CutShort),
        drafts <- [key \in Key |-> 0], runs <- [key \in Key |-> {}],
        dlq <- [j \in Jobs |-> 0], tries <- [j \in Jobs |-> 0],
        pc <- <<>>, job <- <<>>, exit <- <<>>, seen <- <<>>,
        now <- 1, inProgress <- {}, results <- {}

\* However the transactions of dumps wait for each other, fail and take over each
\* other's rows, each commit is one ingest of CommentPipeline, of the rows that
\* are not there at that moment, and the enqueues that follow are its enqueues.
ImplementsPipeline == Pipeline!Spec
=============================================================================
