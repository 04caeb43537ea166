-------------------------- MODULE IngestBatchProofs --------------------------
(***************************************************************************)
(* Theorems about IngestBatch, for any dumps, requests, posts and chunks.  *)
(***************************************************************************)
EXTENDS IngestBatch, FiniteSetTheorems, WellFoundedInduction, TLAPS

Live == Open \cup Committed

\* What PostDump made of a dump: which rows go on, under which keys.
Prepared(q) ==
    /\ q.dump \in Dump
    /\ DOMAIN q.keys \subseteq Parsed(q.dump)
    /\ \A i, j \in DOMAIN q.keys : q.keys[i] = q.keys[j] => i = j
    /\ \A i \in Parsed(q.dump) : PostsOf[q.dump[i].ref] # {} =>
         \E j \in DOMAIN q.keys : \E post \in PostsOf[q.dump[i].ref] :
            q.keys[j] = <<post, q.dump[i].id>>
    /\ q.rejected = Cardinality(Rejected(q.dump))

\* The rows a request still has to insert, or to enqueue.
Inserting(q) ==
    /\ q.left \cup q.todo \subseteq DOMAIN q.keys
    /\ q.left \cap q.todo = {}
    /\ q.mine \cap (q.left \cup q.todo) = {}
Enqueueing(q) ==
    /\ q.todo \subseteq q.mine
    /\ q.enqueued + Cardinality(q.todo) = Cardinality(q.mine)

\* How far a request is, and what it has counted by then.
Progress(q) ==
    /\ q.mine \subseteq DOMAIN q.keys
    /\ q.step = "insert" => Inserting(q)
    /\ q.step \in {"enqueue", "done", "cut"} => Enqueueing(q)
    /\ q.step = "done" => q.todo = {}
    /\ q.step \in {"insert", "commit"} => q.enqueued = 0
    /\ q.skipped + Cardinality(IF q.step = "insert" THEN DOMAIN q.keys ELSE q.mine)
         = Cardinality(Parsed(q.dump))

BatchInv == \A r \in Live : Prepared(req[r]) /\ Progress(req[r])

\* A committed dump's keys are in the table, an open one's are not, and no two
\* of either kind have a key in common.
KeysInv ==
    /\ \A r \in Committed : Keys(r) \subseteq comments
    /\ \A r \in Open : Keys(r) \cap comments = {}
    /\ InsertedOnce

\* The row has been offered to the table.
Offered(r, i) == req[r].step = "insert" => i \notin req[r].left \cup req[r].todo

\* A row that was offered was inserted, or was there before.
LandedInv ==
    \A r \in Live : \A i \in DOMAIN req[r].keys :
        Offered(r, i) => req[r].keys[i] \in comments \cup Keys(r)

\* A comment gets its job from the request that inserted it, once.
JobsInv ==
    \A r \in Committed : \A i \in req[r].todo : req[r].keys[i] \notin jobs

LettersInv ==
    \A r \in Requests : letters[r] = IF r \in Committed THEN Rejected(req[r].dump) ELSE {}

IInv == TypeOK /\ BatchInv /\ KeysInv /\ LandedInv /\ JobsInv /\ LettersInv

-----------------------------------------------------------------------------
(* What a step makes of a request.                                         *)

Fields == {"step", "dump", "keys", "left", "todo", "mine", "skipped", "rejected", "enqueued"}

\* Only these fields of this request change.
Changes(r, fields) ==
    /\ req' \in [Requests -> Request]
    /\ \A s \in Requests \ {r} : req'[s] = req[s]
    /\ \A f \in Fields \ fields : req'[r][f] = req[r][f]

LEMMA SetOne ==
    ASSUME TypeOK, NEW r \in Requests, NEW q \in Request, Set(r, q)
    PROVE  /\ req' \in [Requests -> Request] /\ req'[r] = q
           /\ \A s \in Requests \ {r} : req'[s] = req[s]
  <1>1. req \in [Requests -> Request]
    BY DEF TypeOK
  <1> HIDE DEF Request
  <1>. QED
    BY <1>1 DEF Set

LEMMA RowSets ==
    /\ Row \subseteq Nat /\ IsFiniteSet(Row)
    /\ \A rows \in SUBSET Row : IsFiniteSet(rows) /\ Cardinality(rows) \in Nat
  <1>1. 1 \in Int /\ MaxRows \in Int
    BY IngestRowsAssumption
  <1>2. IsFiniteSet(Row)
    BY <1>1, FS_Interval DEF Row
  <1>3. Row \subseteq Nat
    BY <1>1 DEF Row
  <1>. QED
    BY <1>2, <1>3, FS_Subset, FS_CardinalityType

\* A dump has one row to a position, and is made of parsed and rejected ones.
LEMMA DumpRows ==
    ASSUME NEW dump \in Dump
    PROVE  /\ DOMAIN dump \subseteq Row /\ \A i \in DOMAIN dump : dump[i] \in Rows
           /\ Len(dump) = Cardinality(DOMAIN dump)
           /\ Cardinality(Parsed(dump)) \in Nat /\ Cardinality(Rejected(dump)) \in Nat
           /\ Cardinality(Parsed(dump)) + Cardinality(Rejected(dump)) = Len(dump)
  <1>1. PICK n \in 1..MaxRows : dump \in [1..n -> Rows]
    BY DEF Dump
  <1>2. n \in Nat /\ n <= MaxRows /\ 1 \in Int /\ n \in Int
    BY <1>1, IngestRowsAssumption
  <1>3. DOMAIN dump = 1..n /\ DOMAIN dump \subseteq Row /\ \A i \in DOMAIN dump : dump[i] \in Rows
    BY <1>1, <1>2, IngestRowsAssumption DEF Row
  <1>4. Len(dump) = n
    BY <1>1, <1>2
  <1>5. IsFiniteSet(DOMAIN dump) /\ Cardinality(DOMAIN dump) = n
    BY <1>2, <1>3, FS_Interval
  <1>6. Rejected(dump) \in SUBSET DOMAIN dump /\ Parsed(dump) = DOMAIN dump \ Rejected(dump)
    BY DEF Rejected, Parsed
  <1>7. /\ IsFiniteSet(Parsed(dump)) /\ IsFiniteSet(Rejected(dump))
        /\ Cardinality(Parsed(dump)) = n - Cardinality(DOMAIN dump \cap Rejected(dump))
    BY <1>5, <1>6, FS_Subset, FS_Difference
  <1>8. DOMAIN dump \cap Rejected(dump) = Rejected(dump)
    BY <1>6
  <1>9. Cardinality(Parsed(dump)) \in Nat /\ Cardinality(Rejected(dump)) \in Nat
    BY <1>7, FS_CardinalityType
  <1>10. Cardinality(Parsed(dump)) = n - Cardinality(Rejected(dump))
    BY <1>7, <1>8
  <1>11. Cardinality(Parsed(dump)) + Cardinality(Rejected(dump)) = n
    BY <1>2, <1>9, <1>10
  <1>12. Len(dump) = Cardinality(DOMAIN dump)
    BY <1>2, <1>4, <1>5
  <1>. QED
    BY <1>3, <1>4, <1>9, <1>11, <1>12

LEMMA IdleTyped == IdleRequest \in Request
  <1>1. <<>> \in Keyed
    <2>1. <<>> \in [{} -> Key] /\ {} \in SUBSET Row
      OBVIOUS
    <2>. QED
      BY <2>1 DEF Keyed
  <1>. QED
    BY <1>1 DEF IdleRequest, Request

LEMMA FailedTyped == FailedRequest \in Request /\ FailedRequest.step = "failed"
  <1>1. PICK q : q = [IdleRequest EXCEPT !.step = "failed"]
    OBVIOUS
  <1>2. q = [step |-> "failed", dump |-> <<>>, keys |-> <<>>, left |-> {}, todo |-> {},
             mine |-> {}, skipped |-> 0, rejected |-> 0, enqueued |-> 0]
    BY <1>1 DEF IdleRequest
  <1>3. q \in Request
    BY <1>2, IdleTyped DEF IdleRequest, Request
  <1>4. q.step = "failed"
    BY <1>2
  <1>. QED
    BY <1>1, <1>3, <1>4 DEF FailedRequest

\* The rows PostDump keeps: parsed ones, of which the first with a key is kept.
LEMMA KeptRows ==
    ASSUME NEW dump \in Dump, NEW post \in [{ref \in Refs : PostsOf[ref] # {}} -> Posts],
           Resolution(post)
    PROVE  /\ Kept(dump, post) \in SUBSET Parsed(dump)
           /\ \A i \in Kept(dump, post) : KeyOf(dump[i], post) \in Key
           /\ \A i, j \in Kept(dump, post) : KeyOf(dump[i], post) = KeyOf(dump[j], post) => i = j
           /\ \A i \in Parsed(dump) : PostsOf[dump[i].ref] # {} =>
                \E j \in Kept(dump, post) : \E p \in PostsOf[dump[i].ref] :
                   KeyOf(dump[j], post) = <<p, dump[i].id>>
  <1>1. Resolved(dump, post) = {i \in Parsed(dump) : PostsOf[dump[i].ref] # {}}
    <2>1. \A i \in Parsed(dump) : dump[i].ref \in Refs
      <3>1. \A row \in Rows : row.ref \in Refs
        BY IngestDumpAssumption
      <3>2. \A i \in Parsed(dump) : dump[i] \in Rows
        BY DumpRows DEF Parsed
      <3>. QED
        BY <3>1, <3>2
    <2>. QED
      BY <2>1 DEF Resolved, Accepted
  <1>2. \A i \in Resolved(dump, post) : i \in DOMAIN dump /\ i \in Nat /\ dump[i] \in Rows
    <2>1. Parsed(dump) \subseteq DOMAIN dump /\ DOMAIN dump \subseteq Row /\ Row \subseteq Nat
      BY DumpRows, RowSets DEF Parsed
    <2>2. \A i \in DOMAIN dump : dump[i] \in Rows
      BY DumpRows
    <2>. QED
      BY <1>1, <2>1, <2>2
  <1>3. Kept(dump, post) \subseteq Resolved(dump, post)
    BY DEF Kept
  <1>4. \A i \in Resolved(dump, post) : KeyOf(dump[i], post) \in Key
    BY <1>1, <1>2, IngestDumpAssumption DEF KeyOf, Key
  <1>5. \A i, j \in Kept(dump, post) : KeyOf(dump[i], post) = KeyOf(dump[j], post) => i = j
    <2>1. \A i, j \in Nat : i = j \/ i < j \/ j < i
      OBVIOUS
    <2>. QED
      BY <1>2, <1>3, <2>1 DEF Kept
  <1>6. ASSUME NEW i \in Parsed(dump), PostsOf[dump[i].ref] # {}
        PROVE  \E j \in Kept(dump, post) : \E p \in PostsOf[dump[i].ref] :
                  KeyOf(dump[j], post) = <<p, dump[i].id>>
    <2> DEFINE same == {j \in Resolved(dump, post) : KeyOf(dump[j], post) = KeyOf(dump[i], post)}
    <2>1. i \in same
      BY <1>1, <1>6
    <2>2. same \subseteq Nat
      BY <1>2
    <2>3. PICK j \in same : \A k \in same : ~ (<<k, j>> \in OpToRel(<, Nat))
      <3> HIDE DEF same
      <3>. QED
        BY <2>1, <2>2, NatLessThanWellFounded, WFMin
    <2>4. \A k \in same : ~ (k < j)
      <3>1. \A k, l \in Nat : k < l => <<k, l>> \in OpToRel(<, Nat)
        BY DEF OpToRel
      <3>. QED
        BY <2>2, <2>3, <3>1
    <2>5. j \in Kept(dump, post)
      BY <2>4 DEF Kept
    <2>6. dump[i].ref \in DOMAIN post /\ post[dump[i].ref] \in PostsOf[dump[i].ref]
      BY <2>1 DEF Resolved, Resolution
    <2>7. KeyOf(dump[j], post) = <<post[dump[i].ref], dump[i].id>>
      BY DEF KeyOf
    <2>. QED
      BY <2>5, <2>6, <2>7
  <1>. QED
    BY <1>1, <1>3, <1>4, <1>5, <1>6

LEMMA Posted ==
    ASSUME TypeOK, NEW r \in Requests, NEW dump \in Dump, PostDump(r, dump)
    PROVE  /\ UNCHANGED <<comments, letters, jobs>> /\ Changes(r, Fields) /\ req[r].step = "idle"
           /\ \/ req'[r].step = "failed"
              \/ /\ req'[r].step = "insert"
                 /\ Prepared(req'[r])
                 /\ req'[r].left = DOMAIN req'[r].keys /\ req'[r].todo = {} /\ req'[r].mine = {}
                 /\ req'[r].enqueued = 0
                 /\ req'[r].skipped + Cardinality(DOMAIN req'[r].keys)
                      = Cardinality(Parsed(req'[r].dump))
  <1>1. UNCHANGED <<comments, letters, jobs>> /\ req[r].step = "idle"
    <2>1. UNCHANGED <<comments, letters, jobs>> /\ req[r] = IdleRequest
      BY Zenon DEF PostDump
    <2>. QED
      BY <2>1 DEF IdleRequest
  <1>2. CASE Set(r, FailedRequest)
    BY <1>1, <1>2, FailedTyped, SetOne DEF Changes
  <1>3. ASSUME NEW post \in [{ref \in Refs : PostsOf[ref] # {}} -> Posts], Resolution(post),
               Set(r, [IdleRequest EXCEPT
                         !.step = "insert", !.dump = dump,
                         !.keys = [i \in Kept(dump, post) |-> KeyOf(dump[i], post)],
                         !.left = Kept(dump, post),
                         !.skipped = SkippedRows(dump, post),
                         !.rejected = Cardinality(Rejected(dump))])
        PROVE  /\ Changes(r, Fields)
               /\ req'[r].step = "insert"
               /\ Prepared(req'[r])
               /\ req'[r].left = DOMAIN req'[r].keys /\ req'[r].todo = {} /\ req'[r].mine = {}
               /\ req'[r].enqueued = 0
               /\ req'[r].skipped + Cardinality(DOMAIN req'[r].keys)
                    = Cardinality(Parsed(req'[r].dump))
    <2> DEFINE kept == Kept(dump, post)
               keys == [i \in kept |-> KeyOf(dump[i], post)]
               skipped == SkippedRows(dump, post)
               rejected == Cardinality(Rejected(dump))
               q == [step |-> "insert", dump |-> dump, keys |-> keys, left |-> kept, todo |-> {},
                     mine |-> {}, skipped |-> skipped, rejected |-> rejected, enqueued |-> 0]
    <2>1. q = [IdleRequest EXCEPT !.step = "insert", !.dump = dump, !.keys = keys,
                                  !.left = kept, !.skipped = skipped, !.rejected = rejected]
      <3> HIDE DEF kept, keys, skipped, rejected
      <3>1. PICK p : p = [IdleRequest EXCEPT !.step = "insert", !.dump = dump, !.keys = keys,
                                             !.left = kept, !.skipped = skipped, !.rejected = rejected]
        OBVIOUS
      <3>2. p = q
        BY <3>1 DEF IdleRequest
      <3>. QED
        BY <3>1, <3>2
    <2>2. kept \in SUBSET Row /\ kept \in SUBSET Parsed(dump) /\ Parsed(dump) \in SUBSET Row
      BY KeptRows, <1>3, DumpRows DEF Parsed
    <2>3. keys \in Keyed
      <3>1. keys \in [kept -> Key]
        BY KeptRows, <1>3
      <3> HIDE DEF keys, kept
      <3>. QED
        BY <2>2, <3>1 DEF Keyed
    <2>4. skipped \in Nat /\ skipped + Cardinality(kept) = Cardinality(Parsed(dump))
      <3>1. /\ IsFiniteSet(Parsed(dump)) /\ Cardinality(Parsed(dump)) \in Nat
            /\ Cardinality(kept) \in Nat
        BY <2>2, RowSets
      <3>2. /\ IsFiniteSet(Parsed(dump) \ kept)
            /\ Cardinality(Parsed(dump) \ kept)
                 = Cardinality(Parsed(dump)) - Cardinality(Parsed(dump) \cap kept)
        BY <3>1, FS_Difference
      <3>3. Parsed(dump) \cap kept = kept
        BY <2>2
      <3>4. Cardinality(Parsed(dump) \ kept) \in Nat
        BY <3>2, FS_CardinalityType
      <3>5. skipped = Cardinality(Parsed(dump) \ kept)
        BY DEF SkippedRows
      <3> HIDE DEF kept, skipped
      <3>6. skipped = Cardinality(Parsed(dump)) - Cardinality(kept)
        BY <3>2, <3>3, <3>5
      <3>7. skipped + Cardinality(kept) = Cardinality(Parsed(dump))
        BY <3>1, <3>6
      <3>. QED
        BY <3>4, <3>5, <3>7
    <2>5. rejected \in Nat
      BY DumpRows
    <2>6. /\ DOMAIN keys = kept
          /\ \A i, j \in kept : keys[i] = keys[j] => i = j
          /\ \A i \in Parsed(dump) : PostsOf[dump[i].ref] # {} =>
               \E j \in kept : \E p \in PostsOf[dump[i].ref] : keys[j] = <<p, dump[i].id>>
      BY KeptRows, <1>3
    <2>7. q = [IdleRequest EXCEPT
                 !.step = "insert", !.dump = dump,
                 !.keys = [i \in Kept(dump, post) |-> KeyOf(dump[i], post)],
                 !.left = Kept(dump, post),
                 !.skipped = SkippedRows(dump, post),
                 !.rejected = Cardinality(Rejected(dump))]
      BY <2>1
    <2>8. Prepared(q)
      <3> HIDE DEF kept, keys, skipped
      <3>. QED
        BY <2>2, <2>6 DEF Prepared
    <2> HIDE DEF kept, keys, skipped, rejected
    <2>9. q \in Request
      BY <2>2, <2>3, <2>4, <2>5 DEF Request
    <2>10. /\ q.step = "insert" /\ q.dump = dump /\ q.keys = keys /\ q.left = kept
           /\ q.todo = {} /\ q.mine = {} /\ q.enqueued = 0 /\ q.skipped = skipped
      OBVIOUS
    <2> HIDE DEF q
    <2>11. /\ req' \in [Requests -> Request] /\ req'[r] = q
           /\ \A s \in Requests \ {r} : req'[s] = req[s]
      BY <1>3, <2>7, <2>9, SetOne
    <2>. QED
      BY <2>4, <2>6, <2>8, <2>10, <2>11 DEF Changes
  <1>. QED
    BY <1>1, <1>2, <1>3 DEF PostDump

LEMMA ChunkTaken ==
    ASSUME TypeOK, NEW r \in Requests, NextChunk(r)
    PROVE  /\ UNCHANGED <<comments, letters, jobs>> /\ Changes(r, {"todo", "left"})
           /\ req[r].step = "insert" /\ req[r].todo = {}
           /\ req'[r].todo \subseteq req[r].left
           /\ req'[r].left = req[r].left \ req'[r].todo
  <1> DEFINE chunk == Chunk(req[r].left)
  <1>0. PICK p, q : p = req[r] /\ q = [p EXCEPT !.todo = chunk, !.left = p.left \ chunk]
    OBVIOUS
  <1>1. /\ UNCHANGED <<comments, letters, jobs>> /\ Set(r, q)
        /\ req[r].step = "insert" /\ req[r].todo = {}
    BY <1>0, Zenon DEF NextChunk
  <1>2. p \in Request
    BY <1>0 DEF TypeOK
  <1>3. chunk \in SUBSET p.left
    BY <1>0 DEF Chunk
  <1> HIDE DEF chunk
  <1>4. /\ q \in Request /\ q.todo = chunk /\ q.left = p.left \ chunk
        /\ \A f \in Fields \ {"todo", "left"} : q[f] = p[f]
    <2>1. q = [p EXCEPT !.todo = chunk, !.left = p.left \ chunk]
      BY <1>0
    <2>. QED
      BY <1>2, <1>3, <2>1 DEF Request, Fields
  <1>5. /\ req' \in [Requests -> Request] /\ req'[r] = q
        /\ \A s \in Requests \ {r} : req'[s] = req[s]
    BY <1>1, <1>4, SetOne
  <1>. QED
    BY <1>0, <1>1, <1>3, <1>4, <1>5 DEF Changes

LEMMA RowOffered ==
    ASSUME TypeOK, NEW r \in Requests, InsertRow(r)
    PROVE  /\ UNCHANGED <<comments, letters, jobs>> /\ Changes(r, {"todo", "mine"})
           /\ req[r].step = "insert"
           /\ \E i \in req[r].todo :
                LET key == req[r].keys[i]
                IN /\ ~Waits(r, key)
                   /\ req'[r].todo = req[r].todo \ {i}
                   /\ req'[r].mine = IF NewKey(r, key) THEN req[r].mine \cup {i} ELSE req[r].mine
  <1>1. PICK i \in req[r].todo :
          /\ ~Waits(r, req[r].keys[i])
          /\ Set(r, [req[r] EXCEPT
                      !.todo = @ \ {i},
                      !.mine = IF NewKey(r, req[r].keys[i]) THEN @ \cup {i} ELSE @])
    BY Zenon DEF InsertRow
  <1> DEFINE mine == IF NewKey(r, req[r].keys[i]) THEN req[r].mine \cup {i} ELSE req[r].mine
  <1>0. PICK p, q : p = req[r] /\ q = [p EXCEPT !.todo = p.todo \ {i}, !.mine = mine]
    OBVIOUS
  <1>2. UNCHANGED <<comments, letters, jobs>> /\ req[r].step = "insert" /\ Set(r, q)
    BY <1>0, <1>1, Zenon DEF InsertRow
  <1>3. p \in Request
    BY <1>0 DEF TypeOK
  <1>4. i \in Row /\ mine \in SUBSET Row
    BY <1>0, <1>3 DEF Request
  <1> HIDE DEF mine
  <1>5. /\ q \in Request /\ q.todo = p.todo \ {i} /\ q.mine = mine
        /\ \A f \in Fields \ {"todo", "mine"} : q[f] = p[f]
    <2>1. q = [p EXCEPT !.todo = p.todo \ {i}, !.mine = mine]
      BY <1>0
    <2>. QED
      BY <1>3, <1>4, <2>1 DEF Request, Fields
  <1>6. /\ req' \in [Requests -> Request] /\ req'[r] = q
        /\ \A s \in Requests \ {r} : req'[s] = req[s]
    BY <1>2, <1>5, SetOne
  <1>7. Changes(r, {"todo", "mine"})
    BY <1>0, <1>5, <1>6 DEF Changes
  <1>8. req'[r].todo = req[r].todo \ {i} /\ req'[r].mine = mine
    BY <1>0, <1>5, <1>6
  <1>. QED
    BY <1>1, <1>2, <1>7, <1>8, Zenon DEF mine

LEMMA InsertsEnded ==
    ASSUME TypeOK, NEW r \in Requests, EndInserts(r),
           req[r].mine \subseteq DOMAIN req[r].keys
    PROVE  /\ UNCHANGED <<comments, letters, jobs>> /\ Changes(r, {"step", "skipped"})
           /\ req[r].step = "insert" /\ req[r].todo = {} /\ req[r].left = {}
           /\ req'[r].step = "commit"
           /\ req'[r].skipped + Cardinality(req[r].mine)
                = req[r].skipped + Cardinality(DOMAIN req[r].keys)
  <1> DEFINE rest    == Cardinality(DOMAIN req[r].keys) - Cardinality(req[r].mine)
             skipped == req[r].skipped + rest
  <1>0. PICK p, q : p = req[r] /\ q = [p EXCEPT !.step = "commit", !.skipped = skipped]
    OBVIOUS
  <1>1. /\ UNCHANGED <<comments, letters, jobs>> /\ Set(r, q)
        /\ req[r].step = "insert" /\ req[r].todo = {} /\ req[r].left = {}
    BY <1>0, Zenon DEF EndInserts
  <1>2. p \in Request
    BY <1>0 DEF TypeOK
  <1>3. skipped \in Nat /\ skipped + Cardinality(req[r].mine)
                             = req[r].skipped + Cardinality(DOMAIN req[r].keys)
    <2>1. req[r].skipped \in Nat
      BY <1>0, <1>2 DEF Request
    <2>2. DOMAIN req[r].keys \in SUBSET Row
      <3>1. req[r].keys \in Keyed
        BY <1>0, <1>2 DEF Request
      <3>. QED
        BY <3>1 DEF Keyed
    <2>3. /\ Cardinality(req[r].mine) <= Cardinality(DOMAIN req[r].keys)
          /\ Cardinality(req[r].mine) \in Nat /\ Cardinality(DOMAIN req[r].keys) \in Nat
      <3>1. IsFiniteSet(DOMAIN req[r].keys) /\ Cardinality(DOMAIN req[r].keys) \in Nat
        BY <2>2, RowSets
      <3>2. /\ IsFiniteSet(req[r].mine)
            /\ Cardinality(req[r].mine) <= Cardinality(DOMAIN req[r].keys)
        BY <3>1, FS_Subset
      <3>. QED
        BY <3>1, <3>2, FS_CardinalityType
    <2>. QED
      BY <2>1, <2>3
  <1> HIDE DEF skipped
  <1>4. /\ q \in Request /\ q.step = "commit" /\ q.skipped = skipped
        /\ \A f \in Fields \ {"step", "skipped"} : q[f] = p[f]
    <2>1. q = [p EXCEPT !.step = "commit", !.skipped = skipped]
      BY <1>0
    <2>. QED
      BY <1>2, <1>3, <2>1 DEF Request, Fields
  <1>5. /\ req' \in [Requests -> Request] /\ req'[r] = q
        /\ \A s \in Requests \ {r} : req'[s] = req[s]
    BY <1>1, <1>4, SetOne
  <1>. QED
    BY <1>0, <1>1, <1>3, <1>4, <1>5 DEF Changes

LEMMA DumpCommitted ==
    ASSUME TypeOK, NEW r \in Requests, CommitDump(r)
    PROVE  /\ jobs' = jobs /\ comments' = comments \cup Keys(r)
           /\ letters' = [letters EXCEPT ![r] = Rejected(req[r].dump)]
           /\ Changes(r, {"step", "todo"})
           /\ req[r].step = "commit" /\ req'[r].step = "enqueue"
           /\ req'[r].todo = req[r].mine
  <1>0. PICK p, q : p = req[r] /\ q = [p EXCEPT !.step = "enqueue", !.todo = p.mine]
    OBVIOUS
  <1>1. /\ jobs' = jobs /\ comments' = comments \cup Keys(r)
        /\ letters' = [letters EXCEPT ![r] = Rejected(req[r].dump)]
        /\ req[r].step = "commit" /\ Set(r, q)
    BY <1>0, Zenon DEF CommitDump, LettersOf
  <1>2. p \in Request
    BY <1>0 DEF TypeOK
  <1>3. /\ q \in Request /\ q.step = "enqueue" /\ q.todo = p.mine
        /\ \A f \in Fields \ {"step", "todo"} : q[f] = p[f]
    <2>1. q = [p EXCEPT !.step = "enqueue", !.todo = p.mine]
      BY <1>0
    <2>. QED
      BY <1>2, <2>1 DEF Request, Fields
  <1>4. /\ req' \in [Requests -> Request] /\ req'[r] = q
        /\ \A s \in Requests \ {r} : req'[s] = req[s]
    BY <1>1, <1>3, SetOne
  <1>. QED
    BY <1>0, <1>1, <1>3, <1>4 DEF Changes

LEMMA JobEnqueued ==
    ASSUME TypeOK, NEW r \in Requests, EnqueueNext(r)
    PROVE  /\ UNCHANGED <<comments, letters>> /\ Changes(r, {"todo", "enqueued"})
           /\ req[r].step = "enqueue"
           /\ \E i \in req[r].todo :
                LET key == req[r].keys[i]
                IN /\ jobs' = jobs \cup {key}
                   /\ req'[r].todo = req[r].todo \ {i}
                   /\ req'[r].enqueued = IF key \in jobs THEN req[r].enqueued ELSE req[r].enqueued + 1
  <1>1. PICK i \in req[r].todo :
          /\ jobs' = jobs \cup {req[r].keys[i]}
          /\ Set(r, [req[r] EXCEPT !.todo = @ \ {i},
                                   !.enqueued = IF req[r].keys[i] \in jobs THEN @ ELSE @ + 1])
    BY Zenon DEF EnqueueNext
  <1> DEFINE enqueued == IF req[r].keys[i] \in jobs THEN req[r].enqueued ELSE req[r].enqueued + 1
  <1>0. PICK p, q : p = req[r] /\ q = [p EXCEPT !.todo = p.todo \ {i}, !.enqueued = enqueued]
    OBVIOUS
  <1>2. UNCHANGED <<comments, letters>> /\ req[r].step = "enqueue" /\ Set(r, q)
    BY <1>0, <1>1, Zenon DEF EnqueueNext
  <1>3. p \in Request
    BY <1>0 DEF TypeOK
  <1>4. enqueued \in Nat
    BY <1>0, <1>3 DEF Request
  <1> HIDE DEF enqueued
  <1>5. /\ q \in Request /\ q.todo = p.todo \ {i} /\ q.enqueued = enqueued
        /\ \A f \in Fields \ {"todo", "enqueued"} : q[f] = p[f]
    <2>1. q = [p EXCEPT !.todo = p.todo \ {i}, !.enqueued = enqueued]
      BY <1>0
    <2>. QED
      BY <1>3, <1>4, <2>1 DEF Request, Fields
  <1>6. /\ req' \in [Requests -> Request] /\ req'[r] = q
        /\ \A s \in Requests \ {r} : req'[s] = req[s]
    BY <1>2, <1>5, SetOne
  <1>7. Changes(r, {"todo", "enqueued"})
    BY <1>0, <1>5, <1>6 DEF Changes
  <1>8. req'[r].todo = req[r].todo \ {i} /\ req'[r].enqueued = enqueued
    BY <1>0, <1>5, <1>6
  <1>. QED
    BY <1>1, <1>2, <1>7, <1>8, Zenon DEF enqueued

\* The answer, and what goes wrong.
LEMMA RequestEnded ==
    ASSUME TypeOK, NEW r \in Requests, Answer(r) \/ FailRequest(r)
    PROVE  /\ UNCHANGED <<comments, letters, jobs>>
           /\ \/ /\ Changes(r, {"step"}) /\ req[r].step = "enqueue"
                 /\ (req[r].todo = {} /\ req'[r].step = "done") \/ req'[r].step = "cut"
              \/ /\ Changes(r, Fields)
                 /\ req[r].step \in {"insert", "commit"} /\ req'[r].step = "failed"
  <1>1. UNCHANGED <<comments, letters, jobs>>
    BY Zenon DEF Answer, FailRequest
  <1>2. CASE req[r].step \in {"insert", "commit"} /\ Set(r, FailedRequest)
    BY <1>1, <1>2, FailedTyped, SetOne DEF Changes
  <1>3. ASSUME NEW step, Set(r, [req[r] EXCEPT !.step = step]), req[r].step = "enqueue",
               (req[r].todo = {} /\ step = "done") \/ step = "cut"
        PROVE  /\ Changes(r, {"step"})
               /\ (req[r].todo = {} /\ req'[r].step = "done") \/ req'[r].step = "cut"
    <2>0. PICK p, q : p = req[r] /\ q = [p EXCEPT !.step = step]
      OBVIOUS
    <2>1. p \in Request
      BY <2>0 DEF TypeOK
    <2>2. /\ q \in Request /\ q.step = step
          /\ \A f \in Fields \ {"step"} : q[f] = p[f]
      <3>1. q = [p EXCEPT !.step = step]
        BY <2>0
      <3>2. step \in {"done", "cut"}
        BY <1>3
      <3>. QED
        BY <2>1, <3>1, <3>2 DEF Request, Fields
    <2>3. /\ req' \in [Requests -> Request] /\ req'[r] = q
          /\ \A s \in Requests \ {r} : req'[s] = req[s]
      BY <1>3, <2>0, <2>2, SetOne
    <2>. QED
      BY <1>3, <2>0, <2>2, <2>3 DEF Changes
  <1>4. CASE Answer(r)
    <2>1. req[r].step = "enqueue" /\ req[r].todo = {} /\ Set(r, [req[r] EXCEPT !.step = "done"])
      BY <1>4, Zenon DEF Answer
    <2>. QED
      BY <1>1, <1>3, <2>1
  <1>5. CASE req[r].step = "enqueue" /\ Set(r, [req[r] EXCEPT !.step = "cut"])
    BY <1>1, <1>3, <1>5
  <1>6. FailRequest(r) => \/ req[r].step \in {"insert", "commit"} /\ Set(r, FailedRequest)
                          \/ req[r].step = "enqueue" /\ Set(r, [req[r] EXCEPT !.step = "cut"])
    BY Zenon DEF FailRequest
  <1>. QED
    BY <1>2, <1>4, <1>5, <1>6

-----------------------------------------------------------------------------
(* The requests themselves.                                                *)

\* The keys, and the counts, of a request are those of its positions.
LEMMA KeysTyped ==
    ASSUME TypeOK, NEW r \in Requests
    PROVE  /\ req[r] \in Request
           /\ DOMAIN req[r].keys \in SUBSET Row
           /\ \A i \in DOMAIN req[r].keys : req[r].keys[i] \in Key
  <1>1. req[r] \in Request
    BY DEF TypeOK
  <1>2. req[r].keys \in Keyed
    BY <1>1 DEF Request
  <1>. QED
    BY <1>1, <1>2 DEF Keyed

LEMMA NextBatch == TypeOK /\ BatchInv /\ KeysInv /\ JobsInv /\ [Next]_vars => BatchInv'
  <1> SUFFICES ASSUME TypeOK, BatchInv, KeysInv, JobsInv, [Next]_vars,
                      NEW s \in Requests, s \in Live'
               PROVE  Prepared(req'[s]) /\ Progress(req'[s])
    BY DEF BatchInv, Live, Open, Committed
  <1>a. ASSUME NEW r \in Requests, r # s, req'[s] = req[s]
        PROVE  Prepared(req'[s]) /\ Progress(req'[s])
    <2>1. s \in Live
      BY <1>a DEF Live, Open, Committed
    <2>. QED
      BY <1>a, <2>1 DEF BatchInv
  <1>b. ASSUME s \in Live,
               req'[s].dump = req[s].dump, req'[s].keys = req[s].keys,
               req'[s].rejected = req[s].rejected
        PROVE  Prepared(req'[s])
    BY <1>b DEF BatchInv, Prepared
  <1>c. ASSUME s \in Live
        PROVE  Prepared(req[s]) /\ Progress(req[s])
    BY <1>c DEF BatchInv
  <1>1. ASSUME NEW r \in Requests, NEW dump \in Dump, PostDump(r, dump)
        PROVE  Prepared(req'[s]) /\ Progress(req'[s])
    <2>1. CASE r # s
      BY <1>1, <1>a, <2>1, Posted DEF Changes
    <2>2. CASE r = s
      <3>1. req'[s].step # "failed"
        BY DEF Live, Open, Committed
      <3>. QED
        BY <1>1, <2>2, <3>1, Posted DEF Progress, Inserting
    <2>. QED
      BY <2>1, <2>2
  <1>2. ASSUME NEW r \in Requests, NextChunk(r)
        PROVE  Prepared(req'[s]) /\ Progress(req'[s])
    <2>1. CASE r # s
      BY <1>2, <1>a, <2>1, ChunkTaken DEF Changes
    <2>2. CASE r = s
      <3>1. /\ req[s].step = "insert" /\ req[s].todo = {}
            /\ req'[s].todo \subseteq req[s].left /\ req'[s].left = req[s].left \ req'[s].todo
            /\ \A f \in Fields \ {"todo", "left"} : req'[s][f] = req[s][f]
        BY <1>2, <2>2, ChunkTaken DEF Changes
      <3>2. /\ req'[s].step = "insert" /\ req'[s].dump = req[s].dump /\ req'[s].keys = req[s].keys
            /\ req'[s].mine = req[s].mine /\ req'[s].skipped = req[s].skipped
            /\ req'[s].rejected = req[s].rejected /\ req'[s].enqueued = req[s].enqueued
        BY <3>1 DEF Fields
      <3>3. s \in Live
        BY <3>1 DEF Live, Open
      <3>. QED
        BY <1>b, <1>c, <3>1, <3>2, <3>3 DEF Progress, Inserting
    <2>. QED
      BY <2>1, <2>2
  <1>3. ASSUME NEW r \in Requests, InsertRow(r)
        PROVE  Prepared(req'[s]) /\ Progress(req'[s])
    <2>1. CASE r # s
      BY <1>3, <1>a, <2>1, RowOffered DEF Changes
    <2>2. CASE r = s
      <3>1. /\ req[s].step = "insert"
            /\ \A f \in Fields \ {"todo", "mine"} : req'[s][f] = req[s][f]
        BY <1>3, <2>2, RowOffered DEF Changes
      <3>2. /\ req'[s].step = "insert" /\ req'[s].dump = req[s].dump /\ req'[s].keys = req[s].keys
            /\ req'[s].left = req[s].left /\ req'[s].skipped = req[s].skipped
            /\ req'[s].rejected = req[s].rejected /\ req'[s].enqueued = req[s].enqueued
        BY <3>1 DEF Fields
      <3>3. s \in Live
        BY <3>1 DEF Live, Open
      <3>4. PICK i \in req[s].todo :
              /\ req'[s].todo = req[s].todo \ {i}
              /\ req'[s].mine \subseteq req[s].mine \cup {i}
        BY <1>3, <2>2, RowOffered
      <3>. QED
        BY <1>b, <1>c, <3>1, <3>2, <3>3, <3>4 DEF Progress, Inserting
    <2>. QED
      BY <2>1, <2>2
  <1>4. ASSUME NEW r \in Requests, EndInserts(r)
        PROVE  Prepared(req'[s]) /\ Progress(req'[s])
    <2>0. req[r].step = "insert"
      BY <1>4 DEF EndInserts
    <2>1. r \in Live /\ req[r].mine \subseteq DOMAIN req[r].keys
      <3>1. r \in Live
        BY <2>0 DEF Live, Open
      <3>. QED
        BY <3>1 DEF BatchInv, Progress
    <2>2. CASE r # s
      BY <1>4, <1>a, <2>1, <2>2, InsertsEnded DEF Changes
    <2>3. CASE r = s
      <3>1. /\ req'[s].step = "commit"
            /\ req'[s].skipped + Cardinality(req[s].mine)
                 = req[s].skipped + Cardinality(DOMAIN req[s].keys)
            /\ \A f \in Fields \ {"step", "skipped"} : req'[s][f] = req[s][f]
        BY <1>4, <2>1, <2>3, InsertsEnded DEF Changes
      <3>2. /\ req'[s].dump = req[s].dump /\ req'[s].keys = req[s].keys
            /\ req'[s].mine = req[s].mine /\ req'[s].enqueued = req[s].enqueued
            /\ req'[s].rejected = req[s].rejected
        BY <3>1 DEF Fields
      <3>3. req[s].skipped + Cardinality(DOMAIN req[s].keys) = Cardinality(Parsed(req[s].dump))
        BY <1>c, <2>0, <2>1, <2>3 DEF Progress
      <3>4. req'[s].skipped + Cardinality(req'[s].mine) = Cardinality(Parsed(req'[s].dump))
        BY <3>1, <3>2, <3>3
      <3>5. req'[s].mine \subseteq DOMAIN req'[s].keys /\ req'[s].enqueued = 0
        BY <1>c, <2>0, <2>1, <2>3, <3>2 DEF Progress
      <3>. QED
        BY <1>b, <2>1, <2>3, <3>1, <3>2, <3>4, <3>5 DEF Progress
    <2>. QED
      BY <2>2, <2>3
  <1>5. ASSUME NEW r \in Requests, CommitDump(r)
        PROVE  Prepared(req'[s]) /\ Progress(req'[s])
    <2>1. CASE r # s
      BY <1>5, <1>a, <2>1, DumpCommitted DEF Changes
    <2>2. CASE r = s
      <3>1. /\ req[s].step = "commit" /\ req'[s].step = "enqueue" /\ req'[s].todo = req[s].mine
            /\ \A f \in Fields \ {"step", "todo"} : req'[s][f] = req[s][f]
        BY <1>5, <2>2, DumpCommitted DEF Changes
      <3>2. /\ req'[s].dump = req[s].dump /\ req'[s].keys = req[s].keys
            /\ req'[s].mine = req[s].mine /\ req'[s].skipped = req[s].skipped
            /\ req'[s].rejected = req[s].rejected /\ req'[s].enqueued = req[s].enqueued
        BY <3>1 DEF Fields
      <3>3. s \in Live
        BY <3>1 DEF Live, Open
      <3>4. Cardinality(req[s].mine) \in Nat
        <4>1. req[s].mine \in SUBSET Row
          BY KeysTyped DEF Request
        <4>. QED
          BY <4>1, RowSets
      <3>5. /\ req[s].mine \subseteq DOMAIN req[s].keys /\ req[s].enqueued = 0
            /\ req[s].skipped + Cardinality(req[s].mine) = Cardinality(Parsed(req[s].dump))
        BY <1>c, <3>1, <3>3 DEF Progress
      <3>6. Enqueueing(req'[s])
        BY <3>1, <3>2, <3>4, <3>5 DEF Enqueueing
      <3>. QED
        BY <1>b, <3>1, <3>2, <3>3, <3>5, <3>6 DEF Progress
    <2>. QED
      BY <2>1, <2>2
  <1>6. ASSUME NEW r \in Requests, EnqueueNext(r)
        PROVE  Prepared(req'[s]) /\ Progress(req'[s])
    <2>1. CASE r # s
      BY <1>6, <1>a, <2>1, JobEnqueued DEF Changes
    <2>2. CASE r = s
      <3>1. /\ req[s].step = "enqueue"
            /\ \A f \in Fields \ {"todo", "enqueued"} : req'[s][f] = req[s][f]
        BY <1>6, <2>2, JobEnqueued DEF Changes
      <3>2. /\ req'[s].step = "enqueue" /\ req'[s].dump = req[s].dump /\ req'[s].keys = req[s].keys
            /\ req'[s].mine = req[s].mine /\ req'[s].skipped = req[s].skipped
            /\ req'[s].rejected = req[s].rejected
        BY <3>1 DEF Fields
      <3>3. s \in Live /\ s \in Committed
        BY <3>1 DEF Live, Committed
      <3>4. PICK i \in req[s].todo :
              /\ req'[s].todo = req[s].todo \ {i}
              /\ req'[s].enqueued = IF req[s].keys[i] \in jobs THEN req[s].enqueued ELSE req[s].enqueued + 1
        BY <1>6, <2>2, JobEnqueued
      <3>5. req'[s].enqueued = req[s].enqueued + 1
        BY <3>3, <3>4 DEF JobsInv
      <3>6. /\ req[s].mine \subseteq DOMAIN req[s].keys
            /\ req[s].todo \subseteq req[s].mine
            /\ req[s].enqueued + Cardinality(req[s].todo) = Cardinality(req[s].mine)
            /\ req[s].skipped + Cardinality(req[s].mine) = Cardinality(Parsed(req[s].dump))
        BY <1>c, <3>1, <3>3 DEF Progress, Enqueueing
      <3>7. /\ Cardinality(req[s].todo) \in Nat /\ req[s].enqueued \in Nat
            /\ Cardinality(req'[s].todo) = Cardinality(req[s].todo) - 1
        <4>1. req[s].todo \in SUBSET Row /\ req[s].enqueued \in Nat
          BY KeysTyped DEF Request
        <4>2. IsFiniteSet(req[s].todo) /\ Cardinality(req[s].todo) \in Nat
          BY <4>1, RowSets
        <4>3. Cardinality(req[s].todo \ {i}) = Cardinality(req[s].todo) - 1
          BY <4>2, FS_RemoveElement
        <4>. QED
          BY <3>4, <4>1, <4>2, <4>3
      <3>8. req'[s].enqueued + Cardinality(req'[s].todo) = Cardinality(req'[s].mine)
        BY <3>2, <3>5, <3>6, <3>7
      <3>9. Enqueueing(req'[s])
        BY <3>2, <3>4, <3>6, <3>8 DEF Enqueueing
      <3>. QED
        BY <1>b, <3>2, <3>3, <3>6, <3>9 DEF Progress
    <2>. QED
      BY <2>1, <2>2
  <1>7. ASSUME NEW r \in Requests, Answer(r) \/ FailRequest(r)
        PROVE  Prepared(req'[s]) /\ Progress(req'[s])
    <2>1. CASE r # s
      BY <1>7, <1>a, <2>1, RequestEnded DEF Changes
    <2>2. CASE r = s
      <3>0. req'[s].step # "failed"
        BY DEF Live, Open, Committed
      <3>1. \A f \in Fields \ {"step"} : req'[s][f] = req[s][f]
        BY <1>7, <2>2, <3>0, RequestEnded DEF Changes
      <3>2. /\ req[s].step = "enqueue"
            /\ \/ req[s].todo = {} /\ req'[s].step = "done"
               \/ req'[s].step = "cut"
        BY <1>7, <2>2, <3>0, RequestEnded
      <3>3. /\ req'[s].dump = req[s].dump /\ req'[s].keys = req[s].keys
            /\ req'[s].mine = req[s].mine /\ req'[s].skipped = req[s].skipped
            /\ req'[s].todo = req[s].todo
            /\ req'[s].rejected = req[s].rejected /\ req'[s].enqueued = req[s].enqueued
        BY <3>1 DEF Fields
      <3>4. s \in Live
        BY <3>2 DEF Live, Committed
      <3>5. /\ req[s].mine \subseteq DOMAIN req[s].keys
            /\ Enqueueing(req[s])
            /\ req[s].skipped + Cardinality(req[s].mine) = Cardinality(Parsed(req[s].dump))
        BY <1>c, <3>2, <3>4 DEF Progress
      <3>6. Enqueueing(req'[s])
        BY <3>3, <3>5 DEF Enqueueing
      <3>. QED
        BY <1>b, <3>2, <3>3, <3>4, <3>5, <3>6 DEF Progress
    <2>. QED
      BY <2>1, <2>2
  <1>8. CASE UNCHANGED vars
    <2>1. req' = req
      BY <1>8 DEF vars
    <2>2. s \in Live
      BY <2>1 DEF Live, Open, Committed
    <2>. QED
      BY <1>c, <2>1, <2>2
  <1>. QED
    BY <1>1, <1>2, <1>3, <1>4, <1>5, <1>6, <1>7, <1>8 DEF Next

-----------------------------------------------------------------------------
(* The keys and the jobs.                                                  *)

LEMMA SameKeys ==
    ASSUME NEW r, req'[r].keys = req[r].keys, req'[r].mine = req[r].mine
    PROVE  Keys(r)' = Keys(r)
  BY DEF Keys

LEMMA OtherKeys ==
    ASSUME NEW r \in Requests, NEW fields, Changes(r, fields)
    PROVE  /\ \A s \in Requests \ {r} : Keys(s)' = Keys(s)
           /\ \A s \in Requests \ {r} : /\ s \in Open' <=> s \in Open
                                        /\ s \in Committed' <=> s \in Committed
  BY DEF Changes, Keys, Open, Committed

\* Whatever a step does to a request that goes on, but for an insert or the commit,
\* its keys stay what they were.
LEMMA KeysKept ==
    ASSUME KeysInv, NEW r \in Requests, NEW fields, Changes(r, fields), comments' = comments,
           \/ r \notin (Open \cup Committed)'
           \/ r \in Open' /\ Keys(r)' = {}
           \/ Keys(r)' = Keys(r) /\ r \in Open' /\ r \in Open
           \/ Keys(r)' = Keys(r) /\ r \in Committed' /\ r \in Committed
    PROVE  KeysInv'
  <1>1. \A s \in Open' : Keys(s)' = {} \/ (s \in Open /\ Keys(s)' = Keys(s))
    BY OtherKeys DEF Open, Committed
  <1>2. \A s \in Committed' : s \in Committed /\ Keys(s)' = Keys(s)
    BY OtherKeys DEF Open, Committed
  <1>3. \A s \in (Open \cup Committed)' :
           Keys(s)' = {} \/ (s \in Open \cup Committed /\ Keys(s)' = Keys(s))
    BY <1>1, <1>2
  <1>4. InsertedOnce'
    BY <1>3 DEF KeysInv, InsertedOnce
  <1>5. \A s \in Open' : Keys(s)' \cap comments' = {}
    BY <1>1 DEF KeysInv
  <1>6. \A s \in Committed' : Keys(s)' \subseteq comments'
    BY <1>2 DEF KeysInv
  <1>. QED
    BY <1>4, <1>5, <1>6 DEF KeysInv

LEMMA NextKeys == TypeOK /\ BatchInv /\ KeysInv /\ [Next]_vars => KeysInv'
  <1> SUFFICES ASSUME TypeOK, BatchInv, KeysInv, [Next]_vars PROVE KeysInv'
    OBVIOUS
  <1>1. ASSUME NEW r \in Requests, NEW dump \in Dump, PostDump(r, dump)
        PROVE  KeysInv'
    <2>1. Changes(r, Fields) /\ comments' = comments
      BY <1>1, Posted
    <2>2. req'[r].step = "failed" \/ (req'[r].step = "insert" /\ req'[r].mine = {})
      BY <1>1, Posted
    <2>3. r \notin (Open \cup Committed)' \/ (r \in Open' /\ Keys(r)' = {})
      BY <2>2 DEF Open, Committed, Keys
    <2>. QED
      BY <2>1, <2>3, KeysKept
  <1>2. ASSUME NEW r \in Requests, NextChunk(r)
        PROVE  KeysInv'
    <2>1. Changes(r, {"todo", "left"}) /\ comments' = comments /\ req[r].step = "insert"
      BY <1>2, ChunkTaken
    <2>2. req'[r].step = "insert" /\ req'[r].keys = req[r].keys /\ req'[r].mine = req[r].mine
      BY <2>1 DEF Changes, Fields
    <2>3. Keys(r)' = Keys(r) /\ r \in Open' /\ r \in Open
      BY <2>1, <2>2, SameKeys DEF Open
    <2>. QED
      BY <2>1, <2>3, KeysKept
  <1>3. ASSUME NEW r \in Requests, InsertRow(r)
        PROVE  KeysInv'
    <2>1. Changes(r, {"todo", "mine"}) /\ comments' = comments /\ req[r].step = "insert"
      BY <1>3, RowOffered
    <2>2. req'[r].step = "insert" /\ req'[r].keys = req[r].keys
      BY <2>1 DEF Changes, Fields
    <2>3. r \in Open' /\ r \in Open /\ r \notin Committed /\ r \notin Committed'
      BY <2>1, <2>2 DEF Open, Committed
    <2>4. PICK i \in req[r].todo :
            /\ ~Waits(r, req[r].keys[i])
            /\ req'[r].mine = IF NewKey(r, req[r].keys[i]) THEN req[r].mine \cup {i} ELSE req[r].mine
      BY <1>3, RowOffered
    <2> DEFINE key == req[r].keys[i]
    <2>5. CASE ~NewKey(r, key)
      <3>1. Keys(r)' = Keys(r)
        BY <2>2, <2>4, <2>5, SameKeys
      <3>. QED
        BY <2>1, <2>3, <3>1, KeysKept
    <2>6. CASE NewKey(r, key)
      <3>1. Keys(r)' = Keys(r) \cup {key}
        BY <2>2, <2>4, <2>6 DEF Keys
      <3>2. key \notin comments
        BY <2>6 DEF NewKey
      <3>3. \A s \in Open \ {r} : key \notin Keys(s)
        BY <2>4 DEF Waits, HeldBy, Open
      <3>4. \A s \in Committed : key \notin Keys(s)
        BY <3>2 DEF KeysInv
      <3>5. /\ Open' = Open /\ Committed' = Committed
            /\ \A s \in (Open \cup Committed) \ {r} : Keys(s)' = Keys(s)
        BY <2>1, <2>3, OtherKeys DEF Open, Committed
      <3> HIDE DEF key
      <3>6. \A s \in (Open \cup Committed) \ {r} : Keys(r)' \cap Keys(s)' = {}
        BY <2>3, <3>1, <3>3, <3>4, <3>5 DEF KeysInv, InsertedOnce
      <3>7. InsertedOnce'
        BY <3>5, <3>6 DEF KeysInv, InsertedOnce
      <3>8. \A s \in Open' : Keys(s)' \cap comments' = {}
        BY <2>1, <2>3, <3>1, <3>2, <3>5 DEF KeysInv
      <3>9. \A s \in Committed' : Keys(s)' \subseteq comments'
        BY <2>1, <2>3, <3>5 DEF KeysInv
      <3>. QED
        BY <3>7, <3>8, <3>9 DEF KeysInv
    <2>. QED
      BY <2>5, <2>6
  <1>4. ASSUME NEW r \in Requests, EndInserts(r)
        PROVE  KeysInv'
    <2>1. req[r].step = "insert"
      BY <1>4 DEF EndInserts
    <2>2. req[r].mine \subseteq DOMAIN req[r].keys
      BY <2>1 DEF BatchInv, Progress, Live, Open
    <2>3. /\ Changes(r, {"step", "skipped"}) /\ comments' = comments /\ req'[r].step = "commit"
      BY <1>4, <2>2, InsertsEnded
    <2>4. req'[r].keys = req[r].keys /\ req'[r].mine = req[r].mine
      BY <2>3 DEF Changes, Fields
    <2>5. Keys(r)' = Keys(r) /\ r \in Open' /\ r \in Open
      BY <2>1, <2>3, <2>4, SameKeys DEF Open
    <2>. QED
      BY <2>3, <2>5, KeysKept
  <1>5. ASSUME NEW r \in Requests, CommitDump(r)
        PROVE  KeysInv'
    <2>1. /\ Changes(r, {"step", "todo"}) /\ comments' = comments \cup Keys(r)
          /\ req[r].step = "commit" /\ req'[r].step = "enqueue"
      BY <1>5, DumpCommitted
    <2>2. req'[r].keys = req[r].keys /\ req'[r].mine = req[r].mine
      BY <2>1 DEF Changes, Fields
    <2>3. r \in Open /\ Open' = Open \ {r} /\ Committed' = Committed \cup {r}
      BY <2>1, OtherKeys DEF Open, Committed
    <2>4. \A s \in Open \cup Committed : Keys(s)' = Keys(s)
      BY <2>1, <2>2, SameKeys, OtherKeys DEF Open, Committed
    <2>5. InsertedOnce'
      BY <2>3, <2>4 DEF KeysInv, InsertedOnce
    <2>6. \A s \in Open' : Keys(s)' \cap comments' = {}
      BY <2>1, <2>3, <2>4 DEF KeysInv, InsertedOnce
    <2>7. \A s \in Committed' : Keys(s)' \subseteq comments'
      BY <2>1, <2>3, <2>4 DEF KeysInv
    <2>. QED
      BY <2>5, <2>6, <2>7 DEF KeysInv
  <1>6. ASSUME NEW r \in Requests, EnqueueNext(r)
        PROVE  KeysInv'
    <2>1. Changes(r, {"todo", "enqueued"}) /\ comments' = comments /\ req[r].step = "enqueue"
      BY <1>6, JobEnqueued
    <2>2. req'[r].step = "enqueue" /\ req'[r].keys = req[r].keys /\ req'[r].mine = req[r].mine
      BY <2>1 DEF Changes, Fields
    <2>3. Keys(r)' = Keys(r) /\ r \in Committed' /\ r \in Committed
      BY <2>1, <2>2, SameKeys DEF Committed
    <2>. QED
      BY <2>1, <2>3, KeysKept
  <1>7. ASSUME NEW r \in Requests, Answer(r) \/ FailRequest(r)
        PROVE  KeysInv'
    <2>1. comments' = comments
      BY <1>7, RequestEnded
    <2>2. CASE Changes(r, {"step"}) /\ req[r].step = "enqueue" /\ req'[r].step \in {"done", "cut"}
      <3>1. req'[r].keys = req[r].keys /\ req'[r].mine = req[r].mine
        BY <2>2 DEF Changes, Fields
      <3>2. Keys(r)' = Keys(r) /\ r \in Committed' /\ r \in Committed
        BY <2>2, <3>1, SameKeys DEF Committed
      <3>. QED
        BY <2>1, <2>2, <3>2, KeysKept
    <2>3. CASE Changes(r, Fields) /\ req'[r].step = "failed"
      <3>1. r \notin (Open \cup Committed)'
        BY <2>3 DEF Open, Committed
      <3>. QED
        BY <2>1, <2>3, <3>1, KeysKept
    <2>. QED
      BY <1>7, <2>2, <2>3, RequestEnded
  <1>8. CASE UNCHANGED vars
    <2>1. Open' = Open /\ Committed' = Committed /\ \A s \in Requests : Keys(s)' = Keys(s)
      BY <1>8 DEF vars, Open, Committed, Keys
    <2>2. Open \subseteq Requests /\ Committed \subseteq Requests /\ comments' = comments
      BY <1>8 DEF vars, Open, Committed
    <2>. QED
      BY <2>1, <2>2 DEF KeysInv, InsertedOnce
  <1>. QED
    BY <1>1, <1>2, <1>3, <1>4, <1>5, <1>6, <1>7, <1>8 DEF Next

LEMMA NextLanded == TypeOK /\ BatchInv /\ LandedInv /\ [Next]_vars => LandedInv'
  <1> SUFFICES ASSUME TypeOK, BatchInv, LandedInv, [Next]_vars,
                      NEW s \in Requests, s \in Live', NEW i \in DOMAIN req'[s].keys, Offered(s, i)'
               PROVE  req'[s].keys[i] \in comments' \cup Keys(s)'
    BY DEF LandedInv, Live, Open, Committed
  <1>a. ASSUME s \in Live, req'[s].keys = req[s].keys, Offered(s, i), comments \subseteq comments',
               Keys(s) \subseteq Keys(s)'
        PROVE  req'[s].keys[i] \in comments' \cup Keys(s)'
    BY <1>a DEF LandedInv
  <1>b. ASSUME NEW r \in Requests, r # s, req'[s] = req[s], comments \subseteq comments'
        PROVE  req'[s].keys[i] \in comments' \cup Keys(s)'
    BY <1>a, <1>b DEF Live, Open, Committed, Offered, Keys
  <1>1. ASSUME NEW r \in Requests, NEW dump \in Dump, PostDump(r, dump)
        PROVE  req'[s].keys[i] \in comments' \cup Keys(s)'
    <2>1. CASE r # s
      BY <1>1, <1>b, <2>1, Posted DEF Changes
    <2>2. CASE r = s
      <3>1. req'[s].step = "insert" /\ req'[s].left = DOMAIN req'[s].keys
        BY <1>1, <2>2, Posted DEF Live, Open, Committed
      <3>. QED
        BY <3>1 DEF Offered
    <2>. QED
      BY <2>1, <2>2
  <1>2. ASSUME NEW r \in Requests, NextChunk(r)
        PROVE  req'[s].keys[i] \in comments' \cup Keys(s)'
    <2>0. /\ Changes(r, {"todo", "left"}) /\ comments' = comments
          /\ req[r].step = "insert" /\ req[r].todo = {}
          /\ req'[r].left = req[r].left \ req'[r].todo
      BY <1>2, ChunkTaken
    <2>1. CASE r # s
      BY <1>b, <2>0, <2>1 DEF Changes
    <2>2. CASE r = s
      <3>1. /\ req'[s].step = "insert" /\ req'[s].keys = req[s].keys /\ req'[s].mine = req[s].mine
        BY <2>0, <2>2 DEF Changes, Fields
      <3>2. s \in Live /\ Offered(s, i)
        BY <2>0, <2>2, <3>1 DEF Live, Open, Offered
      <3>. QED
        BY <1>a, <2>0, <3>1, <3>2, SameKeys
    <2>. QED
      BY <2>1, <2>2
  <1>3. ASSUME NEW r \in Requests, InsertRow(r)
        PROVE  req'[s].keys[i] \in comments' \cup Keys(s)'
    <2>0. /\ Changes(r, {"todo", "mine"}) /\ comments' = comments /\ req[r].step = "insert"
      BY <1>3, RowOffered
    <2>1. CASE r # s
      BY <1>b, <2>0, <2>1 DEF Changes
    <2>2. CASE r = s
      <3>1. /\ req'[s].step = "insert" /\ req'[s].keys = req[s].keys /\ req'[s].left = req[s].left
        BY <2>0, <2>2 DEF Changes, Fields
      <3>2. PICK j \in req[s].todo :
              /\ req'[s].todo = req[s].todo \ {j}
              /\ req'[s].mine = IF NewKey(s, req[s].keys[j]) THEN req[s].mine \cup {j} ELSE req[s].mine
        BY <1>3, <2>2, RowOffered
      <3>3. Keys(s) \subseteq Keys(s)' /\ s \in Live
        BY <2>0, <2>2, <3>1, <3>2 DEF Keys, Live, Open
      <3>4. CASE i = j
        <4>1. req[s].keys[j] \in comments \cup Keys(s) \/ j \in req'[s].mine
          BY <3>2 DEF NewKey
        <4>. QED
          BY <2>0, <3>1, <3>3, <3>4, <4>1 DEF Keys
      <3>5. CASE i # j
        <4>1. Offered(s, i)
          BY <2>0, <2>2, <3>1, <3>2, <3>5 DEF Offered
        <4>. QED
          BY <1>a, <2>0, <3>1, <3>3, <4>1
      <3>. QED
        BY <3>4, <3>5
    <2>. QED
      BY <2>1, <2>2
  <1>4. ASSUME NEW r \in Requests, EndInserts(r)
        PROVE  req'[s].keys[i] \in comments' \cup Keys(s)'
    <2>0. req[r].step = "insert" /\ req[r].todo = {} /\ req[r].left = {}
      BY <1>4 DEF EndInserts
    <2>1. r \in Live /\ req[r].mine \subseteq DOMAIN req[r].keys
      BY <2>0 DEF BatchInv, Progress, Live, Open
    <2>2. Changes(r, {"step", "skipped"}) /\ comments' = comments
      BY <1>4, <2>1, InsertsEnded
    <2>3. CASE r # s
      BY <1>b, <2>2, <2>3 DEF Changes
    <2>4. CASE r = s
      <3>1. req'[s].keys = req[s].keys /\ req'[s].mine = req[s].mine
        BY <2>2, <2>4 DEF Changes, Fields
      <3>2. Offered(s, i)
        BY <2>0, <2>4 DEF Offered
      <3>. QED
        BY <1>a, <2>1, <2>2, <2>4, <3>1, <3>2, SameKeys
    <2>. QED
      BY <2>3, <2>4
  <1>5. ASSUME NEW r \in Requests, CommitDump(r)
        PROVE  req'[s].keys[i] \in comments' \cup Keys(s)'
    <2>0. /\ Changes(r, {"step", "todo"}) /\ comments \subseteq comments' /\ req[r].step = "commit"
      BY <1>5, DumpCommitted
    <2>1. CASE r # s
      BY <1>b, <2>0, <2>1 DEF Changes
    <2>2. CASE r = s
      <3>1. req'[s].keys = req[s].keys /\ req'[s].mine = req[s].mine
        BY <2>0, <2>2 DEF Changes, Fields
      <3>2. s \in Live /\ Offered(s, i)
        BY <2>0, <2>2 DEF Live, Open, Offered
      <3>. QED
        BY <1>a, <2>0, <3>1, <3>2, SameKeys
    <2>. QED
      BY <2>1, <2>2
  <1>6. ASSUME NEW r \in Requests, EnqueueNext(r)
        PROVE  req'[s].keys[i] \in comments' \cup Keys(s)'
    <2>0. Changes(r, {"todo", "enqueued"}) /\ comments' = comments /\ req[r].step = "enqueue"
      BY <1>6, JobEnqueued
    <2>1. CASE r # s
      BY <1>b, <2>0, <2>1 DEF Changes
    <2>2. CASE r = s
      <3>1. req'[s].keys = req[s].keys /\ req'[s].mine = req[s].mine
        BY <2>0, <2>2 DEF Changes, Fields
      <3>2. s \in Live /\ Offered(s, i)
        BY <2>0, <2>2 DEF Live, Committed, Offered
      <3>. QED
        BY <1>a, <2>0, <3>1, <3>2, SameKeys
    <2>. QED
      BY <2>1, <2>2
  <1>7. ASSUME NEW r \in Requests, Answer(r) \/ FailRequest(r)
        PROVE  req'[s].keys[i] \in comments' \cup Keys(s)'
    <2>0. comments' = comments
      BY <1>7, RequestEnded
    <2>1. CASE r # s
      BY <1>7, <1>b, <2>0, <2>1, RequestEnded DEF Changes
    <2>2. CASE r = s
      <3>0. req'[s].step # "failed"
        BY DEF Live, Open, Committed
      <3>1. req'[s].keys = req[s].keys /\ req'[s].mine = req[s].mine
        BY <1>7, <2>2, <3>0, RequestEnded DEF Changes, Fields
      <3>2. req[s].step = "enqueue"
        BY <1>7, <2>2, <3>0, RequestEnded
      <3>3. s \in Live /\ Offered(s, i)
        BY <3>2 DEF Live, Committed, Offered
      <3>. QED
        BY <1>a, <2>0, <3>1, <3>3, SameKeys
    <2>. QED
      BY <2>1, <2>2
  <1>8. CASE UNCHANGED vars
    <2>1. req' = req /\ comments' = comments
      BY <1>8 DEF vars
    <2>2. s \in Live /\ Offered(s, i) /\ Keys(s)' = Keys(s)
      BY <2>1 DEF Live, Open, Committed, Offered, Keys
    <2>. QED
      BY <1>a, <2>1, <2>2
  <1>. QED
    BY <1>1, <1>2, <1>3, <1>4, <1>5, <1>6, <1>7, <1>8 DEF Next

LEMMA NextJobs == TypeOK /\ BatchInv /\ KeysInv /\ JobsInv /\ [Next]_vars => JobsInv'
  <1> SUFFICES ASSUME TypeOK, BatchInv, KeysInv, JobsInv, [Next]_vars,
                      NEW s \in Requests, s \in Committed', NEW i \in req'[s].todo
               PROVE  req'[s].keys[i] \notin jobs'
    BY DEF JobsInv, Committed
  <1>a. ASSUME s \in Committed, req'[s].keys = req[s].keys, i \in req[s].todo, jobs' = jobs
        PROVE  req'[s].keys[i] \notin jobs'
    BY <1>a DEF JobsInv
  <1>b. ASSUME NEW r \in Requests, r # s, req'[s] = req[s], jobs' = jobs
        PROVE  req'[s].keys[i] \notin jobs'
    BY <1>a, <1>b DEF Committed
  <1>1. ASSUME NEW r \in Requests, NEW dump \in Dump, PostDump(r, dump)
        PROVE  req'[s].keys[i] \notin jobs'
    <2>1. r # s
      BY <1>1, Posted DEF Committed
    <2>. QED
      BY <1>1, <1>b, <2>1, Posted DEF Changes
  <1>2. ASSUME NEW r \in Requests, NextChunk(r) \/ InsertRow(r) \/ EndInserts(r)
        PROVE  req'[s].keys[i] \notin jobs'
    <2>1. req[r].step = "insert" /\ jobs' = jobs
      BY <1>2, Zenon DEF NextChunk, InsertRow, EndInserts
    <2>2. req[r].mine \subseteq DOMAIN req[r].keys
      BY <2>1 DEF BatchInv, Progress, Live, Open
    <2>3. req'[r].step \in {"insert", "commit"}
      <3>1. CASE NextChunk(r)
        BY <2>1, <3>1, ChunkTaken DEF Changes, Fields
      <3>2. CASE InsertRow(r)
        BY <2>1, <3>2, RowOffered DEF Changes, Fields
      <3>3. CASE EndInserts(r)
        BY <2>2, <3>3, InsertsEnded
      <3>. QED
        BY <1>2, <3>1, <3>2, <3>3
    <2>4. r # s
      BY <2>3 DEF Committed
    <2>5. req'[s] = req[s]
      BY <1>2, <2>2, <2>4, ChunkTaken, RowOffered, InsertsEnded DEF Changes
    <2>. QED
      BY <1>b, <2>1, <2>4, <2>5
  <1>3. ASSUME NEW r \in Requests, CommitDump(r)
        PROVE  req'[s].keys[i] \notin jobs'
    <2>0. /\ Changes(r, {"step", "todo"}) /\ jobs' = jobs
          /\ req[r].step = "commit" /\ req'[r].todo = req[r].mine
      BY <1>3, DumpCommitted
    <2>1. CASE r # s
      BY <1>b, <2>0, <2>1 DEF Changes
    <2>2. CASE r = s
      <3>1. req'[s].keys = req[s].keys /\ s \in Open
        BY <2>0, <2>2 DEF Changes, Fields, Open
      <3>2. req[s].keys[i] \in Keys(s)
        BY <2>0, <2>2 DEF Keys
      <3>3. req[s].keys[i] \notin comments
        BY <3>1, <3>2 DEF KeysInv
      <3>. QED
        BY <2>0, <3>1, <3>3 DEF TypeOK
    <2>. QED
      BY <2>1, <2>2
  <1>4. ASSUME NEW r \in Requests, EnqueueNext(r)
        PROVE  req'[s].keys[i] \notin jobs'
    <2>0. /\ Changes(r, {"todo", "enqueued"}) /\ req[r].step = "enqueue"
      BY <1>4, JobEnqueued
    <2>1. PICK j \in req[r].todo : /\ jobs' = jobs \cup {req[r].keys[j]}
                                   /\ req'[r].todo = req[r].todo \ {j}
      BY <1>4, JobEnqueued
    <2>2. s \in Committed /\ req'[s].keys = req[s].keys /\ i \in req[s].todo
      <3>1. CASE r # s
        BY <2>0, <3>1 DEF Changes, Committed
      <3>2. CASE r = s
        BY <2>0, <2>1, <3>2 DEF Changes, Committed, Fields
      <3>. QED
        BY <3>1, <3>2
    <2>3. \A t \in Committed :
            /\ req[t].todo \subseteq req[t].mine /\ req[t].mine \subseteq DOMAIN req[t].keys
            /\ \A k, l \in DOMAIN req[t].keys : req[t].keys[k] = req[t].keys[l] => k = l
      BY DEF BatchInv, Progress, Prepared, Enqueueing, Live, Committed
    <2>4. r \in Committed
      BY <2>0 DEF Committed
    <2>5. req[s].keys[i] # req[r].keys[j]
      <3>1. CASE r # s
        <4>1. req[s].keys[i] \in Keys(s) /\ req[r].keys[j] \in Keys(r)
          BY <2>1, <2>2, <2>3, <2>4 DEF Keys
        <4>. QED
          BY <2>2, <2>4, <3>1, <4>1 DEF KeysInv, InsertedOnce
      <3>2. CASE r = s
        <4>1. i # j
          BY <2>1, <3>2
        <4>. QED
          BY <2>1, <2>2, <2>3, <3>2, <4>1
      <3>. QED
        BY <3>1, <3>2
    <2>6. req[s].keys[i] \notin jobs
      BY <2>2 DEF JobsInv
    <2>. QED
      BY <2>1, <2>2, <2>5, <2>6
  <1>5. ASSUME NEW r \in Requests, Answer(r) \/ FailRequest(r)
        PROVE  req'[s].keys[i] \notin jobs'
    <2>0. jobs' = jobs
      BY <1>5, RequestEnded
    <2>1. CASE r # s
      BY <1>5, <1>b, <2>0, <2>1, RequestEnded DEF Changes
    <2>2. CASE r = s
      <3>0. req'[s].step # "failed"
        BY DEF Committed
      <3>1. req'[s].keys = req[s].keys /\ req'[s].todo = req[s].todo
        BY <1>5, <2>2, <3>0, RequestEnded DEF Changes, Fields
      <3>2. req[s].step = "enqueue"
        BY <1>5, <2>2, <3>0, RequestEnded
      <3>3. s \in Committed
        BY <3>2 DEF Committed
      <3>. QED
        BY <1>a, <2>0, <3>1, <3>3
    <2>. QED
      BY <2>1, <2>2
  <1>6. CASE UNCHANGED vars
    BY <1>a, <1>6 DEF vars, Committed
  <1>. QED
    BY <1>1, <1>2, <1>3, <1>4, <1>5, <1>6 DEF Next

LEMMA NextLetters == TypeOK /\ BatchInv /\ LettersInv /\ [Next]_vars => LettersInv'
  <1> SUFFICES ASSUME TypeOK, BatchInv, LettersInv, [Next]_vars, NEW s \in Requests
               PROVE  letters'[s] = IF s \in Committed' THEN Rejected(req'[s].dump) ELSE {}
    BY DEF LettersInv
  <1>a. ASSUME letters' = letters, s \in Committed' <=> s \in Committed,
               s \in Committed' => req'[s].dump = req[s].dump
        PROVE  letters'[s] = IF s \in Committed' THEN Rejected(req'[s].dump) ELSE {}
    BY <1>a DEF LettersInv
  <1>b. ASSUME NEW r \in Requests, r # s, req'[s] = req[s], letters' = letters
        PROVE  letters'[s] = IF s \in Committed' THEN Rejected(req'[s].dump) ELSE {}
    BY <1>a, <1>b DEF Committed
  <1>1. ASSUME NEW r \in Requests, NEW dump \in Dump, PostDump(r, dump)
        PROVE  letters'[s] = IF s \in Committed' THEN Rejected(req'[s].dump) ELSE {}
    <2>1. CASE r # s
      BY <1>1, <1>b, <2>1, Posted DEF Changes
    <2>2. CASE r = s
      <3>1. s \notin Committed /\ s \notin Committed' /\ letters' = letters
        BY <1>1, <2>2, Posted DEF Committed
      <3>. QED
        BY <1>a, <3>1
    <2>. QED
      BY <2>1, <2>2
  <1>2. ASSUME NEW r \in Requests,
               NextChunk(r) \/ InsertRow(r) \/ EndInserts(r) \/ EnqueueNext(r) \/ Answer(r) \/ FailRequest(r)
        PROVE  letters'[s] = IF s \in Committed' THEN Rejected(req'[s].dump) ELSE {}
    <2>1. EndInserts(r) => req[r].mine \subseteq DOMAIN req[r].keys
      BY DEF EndInserts, BatchInv, Progress, Live, Open
    <2>2. PICK fields : /\ Changes(r, fields)
                        /\ "dump" \notin fields \/ req'[r].step = "failed"
      BY <1>2, <2>1, ChunkTaken, RowOffered, InsertsEnded, JobEnqueued, RequestEnded
    <2>3. letters' = letters
      BY <1>2, Zenon DEF NextChunk, InsertRow, EndInserts, EnqueueNext, Answer, FailRequest
    <2>4. r \in Committed' <=> r \in Committed
      <3>1. CASE NextChunk(r)
        BY <3>1, ChunkTaken DEF Changes, Fields, Committed
      <3>2. CASE InsertRow(r)
        BY <3>2, RowOffered DEF Changes, Fields, Committed
      <3>3. CASE EndInserts(r)
        BY <2>1, <3>3, InsertsEnded DEF Committed
      <3>4. CASE EnqueueNext(r)
        BY <3>4, JobEnqueued DEF Changes, Fields, Committed
      <3>5. CASE Answer(r) \/ FailRequest(r)
        BY <3>5, RequestEnded DEF Committed
      <3>. QED
        BY <1>2, <3>1, <3>2, <3>3, <3>4, <3>5
    <2>5. CASE r # s
      BY <1>b, <2>2, <2>3, <2>5 DEF Changes
    <2>6. CASE r = s
      <3>1. s \in Committed' => req'[s].dump = req[s].dump
        BY <2>2, <2>6 DEF Changes, Fields, Committed
      <3>. QED
        BY <1>a, <2>3, <2>4, <2>6, <3>1
    <2>. QED
      BY <2>5, <2>6
  <1>3. ASSUME NEW r \in Requests, CommitDump(r)
        PROVE  letters'[s] = IF s \in Committed' THEN Rejected(req'[s].dump) ELSE {}
    <2>0. /\ Changes(r, {"step", "todo"}) /\ req'[r].step = "enqueue"
          /\ letters' = [letters EXCEPT ![r] = Rejected(req[r].dump)]
      BY <1>3, DumpCommitted
    <2>1. CASE r # s
      <3>1. letters'[s] = letters[s] /\ req'[s] = req[s]
        BY <2>0, <2>1 DEF Changes, TypeOK
      <3>. QED
        BY <3>1 DEF LettersInv, Committed
    <2>2. CASE r = s
      <3>1. letters'[s] = Rejected(req[s].dump) /\ s \in Committed' /\ req'[s].dump = req[s].dump
        BY <2>0, <2>2 DEF Changes, Fields, TypeOK, Committed
      <3>. QED
        BY <3>1
    <2>. QED
      BY <2>1, <2>2
  <1>4. CASE UNCHANGED vars
    BY <1>a, <1>4 DEF vars, Committed
  <1>. QED
    BY <1>1, <1>2, <1>3, <1>4 DEF Next

LEMMA NextType == TypeOK /\ BatchInv /\ KeysInv /\ [Next]_vars => TypeOK'
  <1> SUFFICES ASSUME TypeOK, BatchInv, KeysInv, [Next]_vars PROVE TypeOK'
    OBVIOUS
  <1>1. req' \in [Requests -> Request]
    <2>1. ASSUME NEW r \in Requests, EndInserts(r)
          PROVE  req[r].mine \subseteq DOMAIN req[r].keys
      BY <2>1 DEF EndInserts, BatchInv, Progress, Live, Open
    <2>2. CASE UNCHANGED vars
      BY <2>2 DEF vars, TypeOK
    <2>3. CASE Next
      BY <2>1, <2>3, Posted, ChunkTaken, RowOffered, InsertsEnded, DumpCommitted, JobEnqueued,
         RequestEnded DEF Next, Changes
    <2>. QED
      BY <2>2, <2>3
  <1>a. ASSUME NEW r \in Requests, r \in Live
        PROVE  Keys(r) \subseteq Key /\ Rejected(req[r].dump) \in SUBSET Row
    <2>1. req[r].mine \subseteq DOMAIN req[r].keys /\ req[r].dump \in Dump
      BY <1>a DEF BatchInv, Progress, Prepared
    <2>2. Rejected(req[r].dump) \subseteq DOMAIN req[r].dump
      BY DEF Rejected
    <2>. QED
      BY <2>1, <2>2, KeysTyped, DumpRows DEF Keys
  <1>2. /\ comments' \subseteq Key /\ letters' \in [Requests -> SUBSET Row]
        /\ jobs' \subseteq comments'
    <2>1. CASE UNCHANGED <<comments, letters, jobs>>
      BY <2>1 DEF TypeOK
    <2>2. ASSUME NEW r \in Requests, CommitDump(r)
          PROVE  /\ comments' \subseteq Key /\ letters' \in [Requests -> SUBSET Row]
                 /\ jobs' \subseteq comments'
      <3>1. req[r].step = "commit"
        BY <2>2 DEF CommitDump
      <3>2. r \in Live
        BY <3>1 DEF Live, Open
      <3>. QED
        BY <1>a, <2>2, <3>2, DumpCommitted DEF TypeOK
    <2>3. ASSUME NEW r \in Requests, EnqueueNext(r)
          PROVE  /\ comments' \subseteq Key /\ letters' \in [Requests -> SUBSET Row]
                 /\ jobs' \subseteq comments'
      <3>1. UNCHANGED <<comments, letters>> /\ req[r].step = "enqueue"
        BY <2>3, JobEnqueued
      <3>2. r \in Committed /\ r \in Live
        BY <3>1 DEF Committed, Live
      <3>3. PICK i \in req[r].todo : jobs' = jobs \cup {req[r].keys[i]}
        BY <2>3, JobEnqueued
      <3>4. req[r].todo \subseteq req[r].mine
        BY <3>1, <3>2 DEF BatchInv, Progress, Enqueueing
      <3>5. req[r].keys[i] \in comments
        BY <3>2, <3>3, <3>4 DEF KeysInv, Keys
      <3>. QED
        BY <3>1, <3>3, <3>5 DEF TypeOK
    <2>4. CASE UNCHANGED vars
      BY <2>1, <2>4 DEF vars
    <2>5. CASE Next
      <3>1. ASSUME NEW r \in Requests, EndInserts(r)
            PROVE  UNCHANGED <<comments, letters, jobs>>
        BY <3>1, Zenon DEF EndInserts
      <3>. QED
        BY <2>1, <2>2, <2>3, <2>5, <3>1, Posted, ChunkTaken, RowOffered, RequestEnded DEF Next
    <2>. QED
      BY <2>4, <2>5
  <1>. QED
    BY <1>1, <1>2 DEF TypeOK

-----------------------------------------------------------------------------
(* The theorems.                                                           *)

LEMMA InitInv == Init => IInv
  <1> SUFFICES ASSUME Init PROVE IInv
    OBVIOUS
  <1>1. req = [r \in Requests |-> IdleRequest] /\ letters = [r \in Requests |-> {}]
    BY DEF Init
  <1>2. \A r \in Requests : req[r].step = "idle" /\ letters[r] = {}
    BY <1>1 DEF IdleRequest
  <1>3. Open = {} /\ Committed = {} /\ Live = {}
    BY <1>2 DEF Open, Committed, Live
  <1>4. TypeOK
    <2> HIDE DEF IdleRequest, Request
    <2>. QED
      BY <1>1, IdleTyped DEF Init, TypeOK
  <1>. QED
    BY <1>2, <1>3, <1>4
       DEF IInv, BatchInv, KeysInv, InsertedOnce, LandedInv, JobsInv, LettersInv

LEMMA NextInv == IInv /\ [Next]_vars => IInv'
  BY NextType, NextBatch, NextKeys, NextLanded, NextJobs, NextLetters DEF IInv

LEMMA Invariant == Spec => []IInv
  BY InitInv, NextInv, PTL DEF Spec

\* The table, the queue, the dead letters and the requests keep their types: no
\* job is in the queue for a comment that is not committed.
THEOREM IngestTyped == Spec => []TypeOK
  BY Invariant, PTL DEF IInv

\* No comment is inserted by two dumps, however many overlap: who finds a key free
\* has waited for everyone who holds it.
THEOREM OneDumpInserts == Spec => []InsertedOnce
  <1>1. IInv => InsertedOnce
    BY DEF IInv, KeysInv
  <1>. QED
    BY <1>1, Invariant, PTL

\* After a commit every parsed row whose post is known is in the table, whoever put
\* it there: what a rolled-back transaction had is taken up by another.
THEOREM IngestLosesNothing == Spec => []NothingLost
  <1>1. IInv => NothingLost
    <2> SUFFICES ASSUME IInv, NEW r \in Committed, NEW i \in Parsed(req[r].dump),
                        PostsOf[req[r].dump[i].ref] # {}
                 PROVE  \E post \in PostsOf[req[r].dump[i].ref] : <<post, req[r].dump[i].id>> \in comments
      BY DEF NothingLost
    <2>1. r \in Live /\ req[r].step # "insert"
      BY DEF Live, Committed
    <2>2. PICK j \in DOMAIN req[r].keys : \E post \in PostsOf[req[r].dump[i].ref] :
            req[r].keys[j] = <<post, req[r].dump[i].id>>
      BY <2>1 DEF IInv, BatchInv, Prepared
    <2>3. req[r].keys[j] \in comments \cup Keys(r)
      BY <2>1 DEF IInv, LandedInv, Offered
    <2>4. Keys(r) \subseteq comments
      BY DEF IInv, KeysInv
    <2>. QED
      BY <2>2, <2>3, <2>4
  <1>. QED
    BY <1>1, Invariant, PTL

\* Every row of a dump is counted once in its answer, every inserted comment got
\* its job, and the Failed Jobs panel has what the committed answers rejected.
THEOREM IngestCountsAddUp == Spec => []CountsAddUp
  <1>1. IInv => CountsAddUp
    <2> SUFFICES ASSUME IInv, NEW r \in Requests
                 PROVE  /\ req[r].step = "done" =>
                             /\ Cardinality(req[r].mine) + req[r].skipped + req[r].rejected = Len(req[r].dump)
                             /\ req[r].enqueued = Cardinality(req[r].mine)
                        /\ Cardinality(letters[r]) = IF r \in Committed THEN req[r].rejected ELSE 0
      BY DEF CountsAddUp
    <2>a. /\ req[r].mine \in SUBSET Row /\ req[r].skipped \in Nat /\ req[r].rejected \in Nat
          /\ req[r].enqueued \in Nat
      BY KeysTyped DEF IInv, Request
    <2>b. Cardinality(req[r].mine) \in Nat
      BY <2>a, RowSets
    <2>1. ASSUME req[r].step = "done"
          PROVE  /\ Cardinality(req[r].mine) + req[r].skipped + req[r].rejected = Len(req[r].dump)
                 /\ req[r].enqueued = Cardinality(req[r].mine)
      <3>1. r \in Live
        BY <2>1 DEF Live, Committed
      <3>2. /\ req[r].skipped + Cardinality(req[r].mine) = Cardinality(Parsed(req[r].dump))
            /\ req[r].enqueued + Cardinality(req[r].todo) = Cardinality(req[r].mine)
            /\ req[r].todo = {}
            /\ req[r].dump \in Dump /\ req[r].rejected = Cardinality(Rejected(req[r].dump))
        BY <2>1, <3>1 DEF IInv, BatchInv, Progress, Enqueueing, Prepared
      <3>3. Cardinality(req[r].todo) = 0
        BY <3>2, FS_EmptySet
      <3>4. req[r].enqueued = Cardinality(req[r].mine)
        BY <2>a, <2>b, <3>2, <3>3
      <3>5. Cardinality(Parsed(req[r].dump)) + Cardinality(Rejected(req[r].dump)) = Len(req[r].dump)
        BY <3>2, DumpRows
      <3>6. Cardinality(req[r].mine) + req[r].skipped + req[r].rejected = Len(req[r].dump)
        BY <2>a, <2>b, <3>2, <3>5
      <3>. QED
        BY <3>4, <3>6
    <2>2. Cardinality(letters[r]) = IF r \in Committed THEN req[r].rejected ELSE 0
      <3>1. CASE r \in Committed
        BY <3>1 DEF IInv, LettersInv, BatchInv, Prepared, Live
      <3>2. CASE r \notin Committed
        BY <3>2, FS_EmptySet DEF IInv, LettersInv
      <3>. QED
        BY <3>1, <3>2
    <2>. QED
      BY <2>1, <2>2
  <1>. QED
    BY <1>1, Invariant, PTL

-----------------------------------------------------------------------------
(* IngestBatch implements CommentPipeline.                                 *)

AbstractComment == [key \in Key |-> IF key \in comments THEN "new" ELSE "absent"]
AbstractQueue   == {[comment |-> key, attempt |-> 0] : key \in jobs}
AbstractReq     == [s \in Requests |-> PipelineRequest(s)]

Ingests(keys) == [op |-> "ingest", todo |-> keys, attempt |-> 0, row |-> NoRow]
NoRequest     == [op |-> "idle", todo |-> {}, attempt |-> 0, row |-> NoRow]

\* What stays the same when only these are looked at.
LEMMA SamePipeline ==
    ASSUME UNCHANGED <<comments, jobs>>, AbstractReq' = AbstractReq, CutShort' = CutShort
    PROVE  UNCHANGED Pipeline!vars
  BY DEF Pipeline!vars, Pipeline!dbVars, Pipeline!workerVars, Pipeline!arqVars, AbstractReq

\* A step of one request is one of its abstract request.
LEMMA OneRequest ==
    ASSUME NEW r \in Requests, NEW fields, Changes(r, fields)
    PROVE  /\ AbstractReq' = [AbstractReq EXCEPT ![r] = PipelineRequest(r)']
           /\ \A s \in Requests \ {r} : s \in CutShort' <=> s \in CutShort
  <1>1. ASSUME NEW s \in Requests \ {r} PROVE PipelineRequest(s)' = PipelineRequest(s)
    <2>1. req'[s] = req[s]
      BY DEF Changes
    <2>. QED
      BY <2>1 DEF PipelineRequest, Unqueued
  <1>2. \A s \in Requests \ {r} : s \in CutShort' <=> s \in CutShort
    BY DEF Changes, CutShort
  <1>3. AbstractReq' = [s \in Requests |-> PipelineRequest(s)']
    BY DEF AbstractReq
  <1>4. [AbstractReq EXCEPT ![r] = PipelineRequest(r)'] = [s \in Requests |-> PipelineRequest(s)']
    <2> HIDE DEF PipelineRequest
    <2>. QED
      BY <1>1 DEF AbstractReq
  <1>. QED
    BY <1>2, <1>3, <1>4

\* A request nobody sees, before and after.
LEMMA UnseenStep ==
    ASSUME NEW r \in Requests, NEW fields, Changes(r, fields), UNCHANGED <<comments, jobs>>,
           ~Unqueued(r), ~Unqueued(r)', r \notin CutShort, r \notin CutShort'
    PROVE  UNCHANGED Pipeline!vars
  <1>1. AbstractReq' = AbstractReq
    <2>1. PipelineRequest(r)' = PipelineRequest(r)
      BY DEF PipelineRequest
    <2>2. AbstractReq[r] = PipelineRequest(r) /\ AbstractReq = [s \in Requests |-> AbstractReq[s]]
      BY DEF AbstractReq
    <2>3. AbstractReq' = [AbstractReq EXCEPT ![r] = AbstractReq[r]]
      BY <2>1, <2>2, OneRequest
    <2> HIDE DEF AbstractReq
    <2>. QED
      BY <2>2, <2>3
  <1>2. CutShort' = CutShort
    <2>1. CutShort \subseteq Requests /\ CutShort' \subseteq Requests
      BY DEF CutShort
    <2>. QED
      BY <2>1, OneRequest
  <1>. QED
    BY <1>1, <1>2, SamePipeline

LEMMA CommitIsIngest ==
    ASSUME IInv, NEW r \in Requests, CommitDump(r)
    PROVE  Pipeline!IngestComments(r) \/ UNCHANGED Pipeline!vars
  <1>1. /\ jobs' = jobs /\ comments' = comments \cup Keys(r)
        /\ Changes(r, {"step", "todo"})
        /\ req[r].step = "commit" /\ req'[r].step = "enqueue"
        /\ req'[r].todo = req[r].mine
    BY DumpCommitted DEF IInv
  <1>2. req'[r].keys = req[r].keys
    BY <1>1 DEF Changes, Fields
  <1>3. /\ ~Unqueued(r) /\ r \notin CutShort /\ r \notin CutShort'
        /\ CutShort \subseteq Requests /\ CutShort' \subseteq Requests
    BY <1>1 DEF Unqueued, CutShort
  <1>4. CASE req[r].mine = {}
    <2>1. ~Unqueued(r)' /\ comments' = comments
      BY <1>1, <1>4 DEF Unqueued, Keys
    <2>. QED
      BY <1>1, <1>3, <2>1, UnseenStep
  <1>5. CASE req[r].mine # {}
    <2>1. Keys(r) # {} /\ Keys(r) \in SUBSET Key /\ Keys(r) \cap comments = {}
      <3>1. r \in Open /\ r \in Live
        BY <1>1 DEF Open, Live
      <3>2. req[r].mine \subseteq DOMAIN req[r].keys
        BY <3>1 DEF IInv, BatchInv, Progress
      <3>. QED
        BY <1>5, <3>1, <3>2, KeysTyped DEF IInv, KeysInv, Keys
    <2>2. AbstractReq[r] = NoRequest
      BY <1>3 DEF AbstractReq, PipelineRequest, NoRequest
    <2>3. AbstractReq' = [AbstractReq EXCEPT ![r] = Ingests(Keys(r))]
      <3>1. PipelineRequest(r)' = Ingests(Keys(r))
        BY <1>1, <1>2, <1>5 DEF PipelineRequest, Unqueued, Ingests, Keys
      <3>. QED
        BY <1>1, <3>1, OneRequest
    <2>4. CutShort' = CutShort
      BY <1>1, <1>3, OneRequest
    <2>5. {key \in Keys(r) : AbstractComment[key] = "absent"} = Keys(r)
      BY <2>1 DEF AbstractComment
    <2>6. AbstractComment' = [key \in Key |-> IF key \in Keys(r) THEN "new" ELSE AbstractComment[key]]
      BY <1>1 DEF AbstractComment
    <2>7. Pipeline!Inserted(Keys(r)) = Keys(r)
      BY <2>5 DEF Pipeline!Inserted, AbstractComment
    <2>8. Pipeline!IdleSlot(r)
      BY <2>2 DEF Pipeline!IdleSlot, Pipeline!IdleRequest, AbstractReq, NoRequest
    <2>9. /\ Pipeline!Inserted(Keys(r)) # {}
          /\ AbstractComment' = [key \in Key |-> IF key \in Pipeline!Inserted(Keys(r))
                                                 THEN "new" ELSE AbstractComment[key]]
          /\ AbstractReq' = [AbstractReq EXCEPT ![r] =
                               [op |-> "ingest", todo |-> Pipeline!Inserted(Keys(r)),
                                attempt |-> 0, row |-> NoRow]]
      BY <2>1, <2>3, <2>6, <2>7 DEF Ingests
    <2> HIDE DEF PipelineRequest, Keys, NoRow
    <2>. QED
      BY <1>1, <2>1, <2>4, <2>8, <2>9
         DEF Pipeline!IngestComments, AbstractComment, AbstractReq,
             Pipeline!workerVars, Pipeline!arqVars
  <1>. QED
    BY <1>4, <1>5

LEMMA EnqueueIsEnqueue ==
    ASSUME IInv, NEW r \in Requests, EnqueueNext(r)
    PROVE  Pipeline!EnqueueNext(r)
  <1>1. /\ UNCHANGED <<comments, letters>> /\ Changes(r, {"todo", "enqueued"})
        /\ req[r].step = "enqueue"
    BY JobEnqueued DEF IInv
  <1>2. PICK i \in req[r].todo : /\ jobs' = jobs \cup {req[r].keys[i]}
                                 /\ req'[r].todo = req[r].todo \ {i}
    BY JobEnqueued DEF IInv
  <1> DEFINE key  == req[r].keys[i]
             todo == {req[r].keys[j] : j \in req[r].todo}
  <1>3. req'[r].keys = req[r].keys /\ req'[r].step = "enqueue"
    BY <1>1 DEF Changes, Fields
  <1>4. r \in Committed /\ r \in Live
    BY <1>1 DEF Committed, Live
  <1>5. /\ key \in todo /\ key \notin jobs
        /\ {req[r].keys[j] : j \in req[r].todo \ {i}} = todo \ {key}
    <2>1. /\ req[r].todo \subseteq DOMAIN req[r].keys
          /\ \A j, k \in DOMAIN req[r].keys : req[r].keys[j] = req[r].keys[k] => j = k
      BY <1>1, <1>4 DEF IInv, BatchInv, Prepared, Progress, Enqueueing
    <2>2. key \notin jobs
      BY <1>2, <1>4 DEF IInv, JobsInv
    <2>. QED
      BY <1>2, <2>1, <2>2
  <1>6. AbstractReq[r] = Ingests(todo)
    BY <1>1, <1>2 DEF AbstractReq, PipelineRequest, Unqueued, Ingests
  <1>7. AbstractReq' = [AbstractReq EXCEPT ![r] =
                          IF todo \ {key} = {} THEN NoRequest ELSE Ingests(todo \ {key})]
    <2>1. PipelineRequest(r)' = IF todo \ {key} = {} THEN NoRequest ELSE Ingests(todo \ {key})
      <3>1. {req'[r].keys[j] : j \in req'[r].todo} = todo \ {key}
        BY <1>2, <1>3, <1>5
      <3>2. Unqueued(r)' <=> todo \ {key} # {}
        <4>1. Unqueued(r)' <=> req'[r].todo # {}
          BY <1>3 DEF Unqueued
        <4>2. req'[r].todo # {} <=> {req'[r].keys[j] : j \in req'[r].todo} # {}
          OBVIOUS
        <4>. QED
          BY <3>1, <4>1, <4>2
      <3> HIDE DEF key, todo
      <3>. QED
        BY <3>1, <3>2 DEF PipelineRequest, NoRequest, Ingests
    <2>. QED
      BY <1>1, <2>1, OneRequest
  <1>8. CutShort' = CutShort
    <2>1. CutShort \subseteq Requests /\ CutShort' \subseteq Requests
      BY DEF CutShort
    <2>2. r \notin CutShort /\ r \notin CutShort'
      BY <1>1, <1>3 DEF CutShort
    <2>. QED
      BY <1>1, <2>1, <2>2, OneRequest
  <1>9. AbstractQueue' = AbstractQueue \cup {[comment |-> key, attempt |-> 0]}
    BY <1>2 DEF AbstractQueue
  <1> DEFINE rest == AbstractReq[r].todo \ {key}
  <1>10. /\ key \in AbstractReq[r].todo /\ AbstractReq[r].attempt = 0 /\ AbstractReq[r].op = "ingest"
         /\ AbstractReq' = [AbstractReq EXCEPT ![r] =
                              IF rest = {} THEN NoRequest ELSE [AbstractReq[r] EXCEPT !.todo = rest]]
    <2>1. AbstractReq[r].todo = todo /\ AbstractReq[r].attempt = 0 /\ AbstractReq[r].op = "ingest"
      BY <1>6 DEF Ingests
    <2>2. [AbstractReq[r] EXCEPT !.todo = todo \ {key}] = Ingests(todo \ {key})
      <3> HIDE DEF key, todo
      <3>. QED
        BY <1>6 DEF Ingests
    <2>. QED
      BY <1>5, <1>7, <2>1, <2>2
  <1>11. [comment |-> key, attempt |-> 0] \notin AbstractQueue
    <2> HIDE DEF key
    <2>. QED
      BY <1>5 DEF AbstractQueue
  <1> DEFINE new(c) == [comment |-> c, attempt |-> AbstractReq[r].attempt]
  <1>12. AbstractQueue' = IF new(key) \in AbstractQueue \cup {} THEN AbstractQueue
                          ELSE AbstractQueue \cup {new(key)}
    BY <1>9, <1>10, <1>11
  <1>13. UNCHANGED <<Pipeline!dbVars, Pipeline!workerVars, 1, Cardinality(CutShort)>>
    BY <1>1, <1>8 DEF Pipeline!dbVars, Pipeline!workerVars
  <1>14. UNCHANGED <<{}, {}, [j \in Jobs |-> 0]>>
    OBVIOUS
  <1>15. AbstractReq' = [AbstractReq EXCEPT ![r] =
                           IF rest = {} /\ AbstractReq[r].op # "retry"
                           THEN NoRequest ELSE [AbstractReq[r] EXCEPT !.todo = rest]]
    <2>1. (IF rest = {} THEN NoRequest ELSE [AbstractReq[r] EXCEPT !.todo = rest])
            = IF rest = {} /\ AbstractReq[r].op # "retry"
              THEN NoRequest ELSE [AbstractReq[r] EXCEPT !.todo = rest]
      BY <1>10
    <2>. QED
      BY <1>10, <2>1, Zenon
  <1>16. \E c \in AbstractReq[r].todo :
           /\ AbstractQueue' = IF new(c) \in AbstractQueue \cup {} THEN AbstractQueue
                               ELSE AbstractQueue \cup {new(c)}
           /\ AbstractReq' = [AbstractReq EXCEPT ![r] =
                                IF AbstractReq[r].todo \ {c} = {} /\ AbstractReq[r].op # "retry"
                                THEN NoRequest
                                ELSE [AbstractReq[r] EXCEPT !.todo = AbstractReq[r].todo \ {c}]]
    <2>1. key \in AbstractReq[r].todo
      BY <1>10
    <2> HIDE DEF key, AbstractReq, AbstractQueue, NoRequest
    <2>. QED
      BY <1>12, <1>15, <2>1, Zenon
  <1> HIDE DEF key, todo, PipelineRequest
  <1>. QED
    BY <1>13, <1>14, <1>16, Zenon
       DEF Pipeline!EnqueueNext, Pipeline!EnqueueJob, Pipeline!Known, Pipeline!IdleRequest,
           AbstractReq, AbstractQueue, NoRequest

LEMMA CutIsAbort ==
    ASSUME IInv, NEW r \in Requests, Answer(r) \/ FailRequest(r)
    PROVE  Pipeline!AbortRequest(r) \/ UNCHANGED Pipeline!vars
  <1>1. UNCHANGED <<comments, letters, jobs>>
    BY RequestEnded DEF IInv
  <1>2. CutShort \in SUBSET Requests /\ CutShort' \in SUBSET Requests
    BY DEF CutShort
  <1>3. PICK fields : Changes(r, fields)
    BY RequestEnded DEF IInv
  <1>4. CASE ~Unqueued(r)
    <2>1. ~Unqueued(r)' /\ r \notin CutShort /\ r \notin CutShort'
      <3>1. req'[r].step # "enqueue" /\ r \notin CutShort
        BY RequestEnded DEF IInv, CutShort
      <3>2. req'[r].step = "cut" => req[r].step = "enqueue" /\ req'[r].todo = req[r].todo
        BY RequestEnded DEF IInv, Changes, Fields
      <3>. QED
        BY <1>4, <3>1, <3>2 DEF Unqueued, CutShort
    <2>. QED
      BY <1>1, <1>3, <1>4, <2>1, UnseenStep
  <1>5. CASE Unqueued(r)
    <2>1. /\ req[r].step = "enqueue" /\ req[r].todo # {} /\ req'[r].step = "cut"
          /\ req'[r].todo = req[r].todo
      BY <1>5, RequestEnded DEF IInv, Unqueued, Changes, Fields
    <2>2. r \notin CutShort /\ CutShort' = CutShort \cup {r}
      BY <1>2, <1>3, <2>1, OneRequest DEF CutShort
    <2>3. /\ Cardinality(CutShort') = Cardinality(CutShort) + 1
          /\ Cardinality(CutShort) < Cardinality(Requests)
      <3>1. /\ IsFiniteSet(CutShort) /\ Cardinality(CutShort) <= Cardinality(Requests)
            /\ Cardinality(CutShort) = Cardinality(Requests) => Requests = CutShort
        BY <1>2, IngestRequestsAssumption, FS_Subset
      <3>2. Cardinality(CutShort) \in Nat /\ Cardinality(Requests) \in Nat
        BY <3>1, IngestRequestsAssumption, FS_CardinalityType
      <3>3. Cardinality(CutShort) # Cardinality(Requests)
        BY <2>2, <3>1
      <3>4. Cardinality(CutShort \cup {r}) = Cardinality(CutShort) + 1
        BY <2>2, <3>1, FS_AddElement
      <3>5. Cardinality(CutShort) < Cardinality(Requests)
        BY <3>1, <3>2, <3>3
      <3>. QED
        BY <2>2, <3>4, <3>5
    <2>4. AbstractReq[r] # NoRequest
      BY <1>5 DEF AbstractReq, PipelineRequest, NoRequest
    <2>5. AbstractReq' = [AbstractReq EXCEPT ![r] = NoRequest]
      <3>1. PipelineRequest(r)' = NoRequest
        BY <2>1 DEF PipelineRequest, Unqueued, NoRequest
      <3>. QED
        BY <1>3, <3>1, OneRequest
    <2>6. Pipeline!Fault
      BY <2>3 DEF Pipeline!Fault
    <2>7. UNCHANGED <<Pipeline!dbVars, Pipeline!workerVars, Pipeline!arqVars>>
      BY <1>1 DEF Pipeline!dbVars, Pipeline!workerVars, Pipeline!arqVars
    <2> HIDE DEF PipelineRequest
    <2>8. ~Pipeline!IdleSlot(r)
      BY <2>4 DEF Pipeline!IdleSlot, Pipeline!IdleRequest, AbstractReq, NoRequest
    <2>. QED
      BY <2>5, <2>6, <2>7, <2>8
         DEF Pipeline!AbortRequest, Pipeline!IdleRequest, AbstractReq, NoRequest
  <1>. QED
    BY <1>4, <1>5

LEMMA PipelineStep == IInv /\ [Next]_vars => [Pipeline!Next]_(Pipeline!vars)
  <1> SUFFICES ASSUME IInv, [Next]_vars
               PROVE  Pipeline!Next \/ UNCHANGED Pipeline!vars
    OBVIOUS
  <1>a. ASSUME NEW r \in Requests,
               \/ Pipeline!IngestComments(r) \/ Pipeline!EnqueueNext(r) \/ Pipeline!AbortRequest(r)
        PROVE  Pipeline!Next
    BY <1>a, Zenon DEF Pipeline!Next, Pipeline!PipelineNext, Pipeline!RequestStep, Pipeline!Operator
  <1>1. ASSUME NEW r \in Requests, NEW dump \in Dump, PostDump(r, dump)
        PROVE  UNCHANGED Pipeline!vars
    <2>1. /\ UNCHANGED <<comments, jobs>> /\ Changes(r, Fields)
          /\ req[r].step = "idle" /\ req'[r].step \in {"failed", "insert"}
      BY <1>1, Posted DEF IInv
    <2>2. ~Unqueued(r) /\ ~Unqueued(r)' /\ r \notin CutShort /\ r \notin CutShort'
      BY <2>1 DEF Unqueued, CutShort
    <2>. QED
      BY <2>1, <2>2, UnseenStep
  <1>2. ASSUME NEW r \in Requests, NextChunk(r) \/ InsertRow(r) \/ EndInserts(r)
        PROVE  UNCHANGED Pipeline!vars
    <2>1. req[r].step = "insert" /\ UNCHANGED <<comments, jobs>>
      BY <1>2, Zenon DEF NextChunk, InsertRow, EndInserts
    <2>2. req[r].mine \subseteq DOMAIN req[r].keys
      BY <2>1 DEF IInv, BatchInv, Progress, Live, Open
    <2>3. PICK fields : Changes(r, fields)
      BY <1>2, <2>2, ChunkTaken, RowOffered, InsertsEnded DEF IInv
    <2>4. req'[r].step \in {"insert", "commit"}
      <3>1. CASE NextChunk(r)
        BY <2>1, <3>1, ChunkTaken DEF IInv, Changes, Fields
      <3>2. CASE InsertRow(r)
        BY <2>1, <3>2, RowOffered DEF IInv, Changes, Fields
      <3>3. CASE EndInserts(r)
        BY <2>2, <3>3, InsertsEnded DEF IInv
      <3>. QED
        BY <1>2, <3>1, <3>2, <3>3
    <2>5. ~Unqueued(r) /\ ~Unqueued(r)' /\ r \notin CutShort /\ r \notin CutShort'
      BY <2>1, <2>4 DEF Unqueued, CutShort
    <2>. QED
      BY <2>1, <2>3, <2>5, UnseenStep
  <1>3. CASE UNCHANGED vars
    <2>1. UNCHANGED <<comments, jobs, req>>
      BY <1>3 DEF vars
    <2>2. AbstractReq' = AbstractReq /\ CutShort' = CutShort
      BY <2>1 DEF AbstractReq, PipelineRequest, Unqueued, CutShort
    <2>. QED
      BY <2>1, <2>2, SamePipeline
  <1>4. ASSUME NEW r \in Requests, \/ CommitDump(r) \/ EnqueueNext(r)
                                   \/ Answer(r) \/ FailRequest(r)
        PROVE  Pipeline!Next \/ UNCHANGED Pipeline!vars
    BY <1>4, <1>a, CommitIsIngest, EnqueueIsEnqueue, CutIsAbort
  <1>5. CASE Next
    <2>1. PICK r \in Requests :
            \/ \E dump \in Dump : PostDump(r, dump)
            \/ NextChunk(r) \/ InsertRow(r) \/ EndInserts(r) \/ CommitDump(r)
            \/ EnqueueNext(r) \/ Answer(r) \/ FailRequest(r)
      BY <1>5, Zenon DEF Next
    <2>. QED
      BY <1>1, <1>2, <1>4, <2>1
  <1>. QED
    BY <1>3, <1>5

LEMMA PipelineInit == Init => Pipeline!Init
  <1> SUFFICES ASSUME Init PROVE Pipeline!Init
    OBVIOUS
  <1>1. \A r \in Requests : req[r].step = "idle"
    BY DEF Init, IdleRequest
  <1>2. AbstractReq = [r \in Requests |-> NoRequest]
    BY <1>1 DEF AbstractReq, PipelineRequest, Unqueued, NoRequest
  <1>3. Cardinality(CutShort) = 0
    <2>1. CutShort = {}
      BY <1>1 DEF CutShort
    <2>. QED
      BY <2>1, FS_EmptySet
  <1>4. [key \in Key |-> IF key \in comments THEN "new" ELSE "absent"] = [key \in Key |-> "absent"]
    BY DEF Init
  <1>5. {[comment |-> key, attempt |-> 0] : key \in jobs} = {}
    BY DEF Init
  <1>6. \A x : <<>> = [w \in {} |-> x]
    OBVIOUS
  <1>7. Jobs = Pipeline!Job
    BY DEF Jobs, Pipeline!Job
  <1> HIDE DEF PipelineRequest
  <1>. QED
    BY <1>2, <1>3, <1>4, <1>5, <1>6, <1>7
       DEF Pipeline!Init, Pipeline!QueueInit, Pipeline!IdleRequest, AbstractReq, NoRequest

\* The row-by-row transactions of overlapping dumps implement the pipeline whose
\* ingest takes a whole dump at once.
THEOREM BatchesImplementPipeline == Spec => ImplementsPipeline
  BY PipelineInit, PipelineStep, Invariant, PTL DEF Spec, ImplementsPipeline, Pipeline!Spec
=============================================================================
