------------------------- MODULE ReplyOutboxProofs -------------------------
(***************************************************************************)
(* Theorems about ReplyOutbox, for any sets of comments, requests and      *)
(* drains.                                                                 *)
(***************************************************************************)
EXTENDS ReplyOutbox, SequenceTheorems, TLAPS

-----------------------------------------------------------------------------
(* Types.                                                                  *)

\* Stamping rows changes neither their number nor their type.
LEMMA StampType ==
    ASSUME NEW rows \in Seq(Row), NEW positions
    PROVE  /\ Stamp(rows, positions) \in Seq(Row)
           /\ Len(Stamp(rows, positions)) = Len(rows)
           /\ DOMAIN Stamp(rows, positions) = DOMAIN rows
  <1>1. Len(rows) \in Nat /\ rows \in [1..Len(rows) -> Row] /\ DOMAIN rows = 1..Len(rows)
    BY LenProperties
  <1>2. Stamp(rows, positions) \in [1..Len(rows) -> Row]
    BY <1>1 DEF Stamp, Row
  <1>3. Stamp(rows, positions) \in Seq(Row)
    BY <1>1, <1>2, SeqDef
  <1>4. DOMAIN Stamp(rows, positions) = 1..Len(Stamp(rows, positions))
        /\ Len(Stamp(rows, positions)) \in Nat
    BY <1>3, LenProperties
  <1>5. DOMAIN Stamp(rows, positions) = 1..Len(rows)
    BY <1>2
  <1>6. ASSUME NEW m \in Nat, NEW n \in Nat, 1..m = 1..n
        PROVE  m = n
    <2>1. m # 0 => m \in 1..n
      BY <1>6
    <2>2. n # 0 => n \in 1..m
      BY <1>6
    <2>. QED
      BY <2>1, <2>2
  <1>7. Len(Stamp(rows, positions)) = Len(rows)
    BY <1>1, <1>4, <1>5, <1>6
  <1>. QED
    BY <1>1, <1>3, <1>5, <1>7

\* What an approval puts into its row is a text.
LEMMA PayloadType ==
    ASSUME NEW p \in Patch, NEW c \in Comments
    PROVE  PayloadText(p, c) \in Edits \cup {AgentText}
  BY DEF PayloadText, SavedText, Patch

LEMMA InitTypeOK == Init => TypeOK
  <1> SUFFICES ASSUME Init PROVE TypeOK
    OBVIOUS
  <1>1. outbox \in [Comments -> Seq(Row)] /\ \A c \in Comments : Len(outbox[c]) = 0
    BY EmptySeq DEF Init
  <1>2. IdlePatch \in Patch /\ IdleDrain \in Drain
    BY DEF IdlePatch, Patch, IdleDrain, Drain
  <1>. QED
    BY <1>1, <1>2, BoundAssumption DEF Init, TypeOK, Lifecycle!Init, Lifecycle!Status

LEMMA NextTypeOK == TypeOK /\ [Next]_vars => TypeOK'
  <1> SUFFICES ASSUME TypeOK, [Next]_vars PROVE TypeOK'
    OBVIOUS
  <1> USE BoundAssumption DEF TypeOK
  <1>a. IdlePatch \in Patch /\ IdleDrain \in Drain
    BY DEF IdlePatch, Patch, IdleDrain, Drain
  <1>1. CASE PipelineStep
    <2>1. comment' \in [Comments -> Lifecycle!Status] /\ drafts' \in [Comments -> {0, 1}]
      BY <1>1 DEF PipelineStep, Lifecycle!Accept, Lifecycle!Draft, Lifecycle!Close,
                  Lifecycle!GiveUp, Lifecycle!Status
    <2>2. status' \in [Comments -> DraftStatus \cup {"none"}]
      BY <1>1 DEF PipelineStep, DraftStatus
    <2>. QED
      BY <1>1, <2>1, <2>2 DEF PipelineStep
  <1>2. ASSUME NEW r \in Requests, NEW ids \in SUBSET Comments,
               NEW new \in DraftStatus \cup {"none"}, NEW text \in Edits \cup {Unset},
               Load(r, ids, new, text)
        PROVE  TypeOK'
    <2>1. [ids |-> ids, status |-> new, text |-> text, was |-> status, had |-> final] \in Patch
      BY DEF Patch
    <2>. QED
      BY <1>2, <2>1 DEF Load
  <1>3. ASSUME NEW r \in Requests, CommitUpdate(r)
        PROVE  TypeOK'
    <2> DEFINE p == patch[r]
    <2>1. p \in Patch
      OBVIOUS
    <2>2. final' \in [Comments -> Edits \cup {Unset}]
      BY <1>3, <2>1 DEF CommitUpdate, Patch
    <2>3. status' \in [Comments -> DraftStatus \cup {"none"}]
      BY <1>3, <2>1 DEF CommitUpdate, Patch
    <2>4. ASSUME NEW c \in Comments
          PROVE  outbox'[c] \in Seq(Row) /\ Len(outbox'[c]) <= MaxRows
      <3>1. CASE c \notin Approved(p)
        BY <1>3, <3>1 DEF CommitUpdate
      <3>2. CASE c \in Approved(p)
        <4>1. [text |-> PayloadText(p, c), sent |-> FALSE] \in Row
          BY <2>1, PayloadType DEF Row
        <4>2. outbox'[c] = Append(outbox[c], [text |-> PayloadText(p, c), sent |-> FALSE])
          BY <1>3, <3>2 DEF CommitUpdate
        <4>3. Len(outbox[c]) < MaxRows
          BY <1>3, <3>2 DEF CommitUpdate
        <4>. QED
          BY <4>1, <4>2, <4>3, outbox[c] \in Seq(Row)
      <3>. QED
        BY <3>1, <3>2
    <2>5. outbox' \in [Comments -> Seq(Row)]
      BY <1>3, <2>4 DEF CommitUpdate
    <2>. QED
      BY <1>3, <1>a, <2>2, <2>3, <2>4, <2>5 DEF CommitUpdate
  <1>4. ASSUME NEW r \in Requests, AbortUpdate(r)
        PROVE  TypeOK'
    BY <1>4, <1>a DEF AbortUpdate, Fault
  <1>5. ASSUME NEW w \in Drainers, SelectUnsent(w)
        PROVE  TypeOK'
    <2>1. \A c \in Comments : Unsent(c) \subseteq 1..MaxRows
      <3>. SUFFICES ASSUME NEW c \in Comments PROVE DOMAIN outbox[c] \subseteq 1..MaxRows
        BY DEF Unsent
      <3>1. Len(outbox[c]) \in Nat /\ DOMAIN outbox[c] = 1..Len(outbox[c])
        BY LenProperties, outbox[c] \in Seq(Row)
      <3>. QED
        BY <3>1
    <2>2. [c \in Comments |-> Unsent(c)] \in [Comments -> SUBSET (1..MaxRows)]
      BY <2>1
    <2>3. [drain[w] EXCEPT !.rows = [c \in Comments |-> Unsent(c)]] \in Drain
      BY <2>2 DEF Drain
    <2>. QED
      BY <1>5, <2>3 DEF SelectUnsent, Selected
  <1>6. ASSUME NEW w \in Drainers, NEW c \in Comments, LoadDraft(w, c)
        PROVE  TypeOK'
    <2>1. [draft |-> status[c], comment |-> comment[c]] \in Loaded
      BY DEF Loaded
    <2>2. [drain[w] EXCEPT !.was[c] = [draft |-> status[c], comment |-> comment[c]]] \in Drain
      BY <2>1 DEF Drain
    <2>. QED
      BY <1>6, <2>2 DEF LoadDraft
  <1>7. ASSUME NEW w \in Drainers, CommitDrain(w)
        PROVE  TypeOK'
    <2>1. outbox' \in [Comments -> Seq(Row)] /\ \A c \in Comments : Len(outbox'[c]) <= MaxRows
      BY <1>7, StampType DEF CommitDrain
    <2>2. status' \in [Comments -> DraftStatus \cup {"none"}]
      BY <1>7 DEF CommitDrain, DraftStatus
    <2>3. comment' \in [Comments -> Lifecycle!Status]
      BY <1>7 DEF CommitDrain, AnsweredStatus, Lifecycle!Status
    <2>. QED
      BY <1>7, <1>a, <2>1, <2>2, <2>3 DEF CommitDrain
  <1>8. ASSUME NEW w \in Drainers, FailDrain(w)
        PROVE  TypeOK'
    BY <1>8, <1>a DEF FailDrain, Fault
  <1>9. CASE UNCHANGED vars
    BY <1>9 DEF vars
  <1>10. ASSUME NEW r \in Requests, UpdateReplyDraft(r) \/ BulkUpdate(r)
         PROVE  TypeOK'
    BY <1>2, <1>10 DEF UpdateReplyDraft, BulkUpdate
  <1>11. QED
    BY <1>1, <1>3, <1>4, <1>5, <1>6, <1>7, <1>8, <1>9, <1>10 DEF Next, UpdateStep, DrainStep

\* Every reachable state is well typed; the bound on rows is one.
THEOREM OutboxTypeCorrect == Spec => []TypeOK
  BY InitTypeOK, NextTypeOK, PTL DEF Spec

-----------------------------------------------------------------------------
(* An approved draft has a row that is still to be sent.                   *)

\* Sending the row will turn its draft to "published", since no drain that has it
\* found the draft published already.
WillPublish(c, i) ==
    \A w \in Drainers :
        i \in drain[w].rows[c] => drain[w].was[c].draft # "published"

QueueInv ==
    /\ \A w \in Drainers, c \in Comments : drain[w].rows[c] \subseteq DOMAIN outbox[c]
    /\ \A c \in Comments :
         status[c] = "approved" => \E i \in Unsent(c) : WillPublish(c, i)

LEMMA NextQueueInv == TypeOK /\ QueueInv /\ [Next]_vars => QueueInv'
  <1> SUFFICES ASSUME TypeOK, QueueInv, [Next]_vars PROVE QueueInv'
    OBVIOUS
  <1> USE DEF QueueInv, WillPublish, Unsent
  <1>t. /\ \A r \in Requests : patch[r] \in Patch
        /\ \A c \in Comments : outbox[c] \in Seq(Row)
        /\ drain \in [Drainers -> Drain]
    BY DEF TypeOK
  <1>a. IdleDrain.rows = [c \in Comments |-> {}]
    BY DEF IdleDrain
  <1>1. CASE PipelineStep
    BY <1>1 DEF PipelineStep, DraftStatus
  <1>2. ASSUME NEW r \in Requests, UpdateReplyDraft(r) \/ BulkUpdate(r) \/ AbortUpdate(r)
        PROVE  QueueInv'
    BY <1>2 DEF UpdateReplyDraft, BulkUpdate, Load, AbortUpdate
  <1>3. ASSUME NEW r \in Requests, CommitUpdate(r)
        PROVE  QueueInv'
    <2> DEFINE p == patch[r]
    <2>1. ASSUME NEW c \in Comments, c \notin Approved(p)
          PROVE  outbox'[c] = outbox[c] /\ (status'[c] = "approved" => status[c] = "approved")
      BY <1>3, <2>1 DEF CommitUpdate, Approved
    <2>2. ASSUME NEW c \in Comments, c \in Approved(p)
          PROVE  /\ DOMAIN outbox'[c] = 1..(Len(outbox[c]) + 1)
                 /\ DOMAIN outbox[c] = 1..Len(outbox[c])
                 /\ Len(outbox[c]) \in Nat
                 /\ \A i \in DOMAIN outbox[c] : outbox'[c][i] = outbox[c][i]
                 /\ ~outbox'[c][Len(outbox[c]) + 1].sent
      <3>1. outbox'[c] = Append(outbox[c], [text |-> PayloadText(p, c), sent |-> FALSE])
        BY <1>3, <2>2 DEF CommitUpdate
      <3>2. [text |-> PayloadText(p, c), sent |-> FALSE] \in Row
        BY <1>t, PayloadType DEF Row
      <3>3. outbox[c] \in Seq(Row)
        BY <1>t
      <3>4. Len(outbox[c]) \in Nat /\ DOMAIN outbox[c] = 1..Len(outbox[c])
        BY <3>3, LenProperties
      <3>5. DOMAIN outbox'[c] = 1..(Len(outbox[c]) + 1)
        BY <3>1, <3>2, <3>3
      <3>6. \A i \in 1..Len(outbox[c]) : outbox'[c][i] = outbox[c][i]
        BY <3>1, <3>2, <3>3
      <3>7. outbox'[c][Len(outbox[c]) + 1] = [text |-> PayloadText(p, c), sent |-> FALSE]
        BY <3>1, <3>2, <3>3
      <3>. QED
        BY <3>4, <3>5, <3>6, <3>7
    <2>3. drain' = drain
      BY <1>3 DEF CommitUpdate
    <2>4. ASSUME NEW w \in Drainers, NEW c \in Comments
          PROVE  drain'[w].rows[c] \subseteq DOMAIN outbox'[c]
      <3>1. DOMAIN outbox[c] \subseteq DOMAIN outbox'[c]
        BY <2>1, <2>2
      <3>. QED
        BY <2>3, <3>1
    <2>5. ASSUME NEW c \in Comments, status'[c] = "approved"
          PROVE  \E i \in Unsent(c)' : WillPublish(c, i)'
      <3>1. CASE c \in Approved(p)
        <4> DEFINE new == Len(outbox[c]) + 1
        <4>1. new \in Unsent(c)'
          BY <2>2, <3>1
        <4>2. \A w \in Drainers : new \notin drain[w].rows[c]
          BY <2>2, <3>1
        <4>. QED
          BY <2>3, <4>1, <4>2
      <3>2. CASE c \notin Approved(p)
        <4>1. PICK i \in Unsent(c) : WillPublish(c, i)
          BY <2>1, <2>5, <3>2
        <4>. QED
          BY <2>1, <2>3, <3>2, <4>1
      <3>. QED
        BY <3>1, <3>2
    <2>. QED
      BY <2>4, <2>5
  <1>4. ASSUME NEW w \in Drainers, SelectUnsent(w)
        PROVE  QueueInv'
    <2>1. UNCHANGED <<status, outbox>>
      BY <1>4 DEF SelectUnsent, Selected
    <2>2. \A c \in Comments : drain'[w].rows[c] = Unsent(c) /\ drain'[w].was[c] = Unread
      <3>1. drain' = [drain EXCEPT ![w].rows = [c \in Comments |-> Unsent(c)]]
            /\ drain[w].was = [c \in Comments |-> Unread]
        BY <1>4 DEF SelectUnsent, Selected, IdleDrain
      <3>2. drain'[w] = [drain[w] EXCEPT !.rows = [c \in Comments |-> Unsent(c)]]
        BY <1>t, <3>1
      <3>. QED
        BY <1>t, <3>1, <3>2 DEF Drain
    <2>3. \A v \in Drainers : v # w => drain'[v] = drain[v]
      BY <1>4 DEF SelectUnsent, Selected
    <2>. QED
      BY <2>1, <2>2, <2>3 DEF Unread
  <1>5. ASSUME NEW w \in Drainers, NEW c \in Comments, LoadDraft(w, c)
        PROVE  QueueInv'
    <2>1. UNCHANGED <<status, outbox>>
      BY <1>5 DEF LoadDraft
    <2>2. drain'[w].rows = drain[w].rows
      BY <1>t, <1>5 DEF LoadDraft, Drain
    <2>3. \A b \in Comments : drain'[w].was[b].draft \in {drain[w].was[b].draft, status[b]}
      BY <1>t, <1>5 DEF LoadDraft, Drain
    <2>4. \A v \in Drainers : v # w => drain'[v] = drain[v]
      BY <1>5 DEF LoadDraft
    <2>. QED
      BY <2>1, <2>2, <2>3, <2>4
  <1>6. ASSUME NEW w \in Drainers, CommitDrain(w)
        PROVE  QueueInv'
    <2>1. \A c \in Comments : /\ DOMAIN outbox'[c] = DOMAIN outbox[c]
                              /\ \A i \in DOMAIN outbox[c] :
                                   i \notin drain[w].rows[c] => outbox'[c][i] = outbox[c][i]
      BY <1>t, <1>6, StampType DEF CommitDrain, Stamped, Stamp
    <2>2. \A c \in Comments : drain'[w].rows[c] = {}
      BY <1>t, <1>6, <1>a DEF CommitDrain
    <2>3. \A v \in Drainers : v # w => drain'[v] = drain[v]
      BY <1>6 DEF CommitDrain
    <2>4. ASSUME NEW c \in Comments, status'[c] = "approved"
          PROVE  \E i \in Unsent(c)' : WillPublish(c, i)'
      <3>1. status[c] = "approved" /\ (drain[w].rows[c] # {} => drain[w].was[c].draft = "published")
        BY <1>6, <2>4 DEF CommitDrain, NewlyPublished, Published
      <3>2. PICK i \in Unsent(c) : WillPublish(c, i)
        BY <3>1
      <3>3. i \notin drain[w].rows[c]
        BY <3>1, <3>2
      <3>. QED
        BY <2>1, <2>2, <2>3, <3>2, <3>3
    <2>. QED
      BY <2>1, <2>2, <2>3, <2>4
  <1>7. ASSUME NEW w \in Drainers, FailDrain(w)
        PROVE  QueueInv'
    <2>1. \A c \in Comments : drain'[w].rows[c] = {}
      BY <1>t, <1>7, <1>a DEF FailDrain
    <2>2. \A v \in Drainers : v # w => drain'[v] = drain[v]
      BY <1>7 DEF FailDrain
    <2>3. UNCHANGED <<status, outbox>>
      BY <1>7 DEF FailDrain
    <2>. QED
      BY <2>1, <2>2, <2>3
  <1>8. CASE UNCHANGED vars
    BY <1>8 DEF vars
  <1>9. QED
    BY <1>1, <1>2, <1>3, <1>4, <1>5, <1>6, <1>7, <1>8 DEF Next, UpdateStep, DrainStep

\* The badge "approved" always has a row behind it that some drain will send.
THEOREM ApprovalsAreQueued == Spec => []ApprovedIsQueued
  <1>1. Init => QueueInv
    BY DEF Init, QueueInv, IdleDrain
  <1>2. QueueInv => ApprovedIsQueued
    BY DEF QueueInv, ApprovedIsQueued
  <1>3. QED
    BY <1>1, <1>2, NextQueueInv, OutboxTypeCorrect, PTL DEF Spec

-----------------------------------------------------------------------------
(* Publication is a step of the lifecycle.                                 *)

\* Only drafts that exist are asked about, have rows and are drained.
RowsInv ==
    /\ \A c \in Comments : DOMAIN outbox[c] # {} => drafts[c] > 0
    /\ \A w \in Drainers, c \in Comments : drain[w].rows[c] # {} => drafts[c] > 0
    /\ \A r \in Requests : \A c \in patch[r].ids : drafts[c] > 0

LEMMA NextRowsInv == TypeOK /\ RowsInv /\ [Next]_vars => RowsInv'
  <1> SUFFICES ASSUME TypeOK, RowsInv, [Next]_vars PROVE RowsInv'
    OBVIOUS
  <1> USE DEF RowsInv
  <1>t. /\ patch \in [Requests -> Patch]
        /\ \A c \in Comments : outbox[c] \in Seq(Row)
        /\ drain \in [Drainers -> Drain]
        /\ drafts \in [Comments -> {0, 1}]
    BY DEF TypeOK
  <1>a. IdlePatch.ids = {} /\ \A c \in Comments : IdleDrain.rows[c] = {}
    BY DEF IdlePatch, IdleDrain
  <1>1. CASE PipelineStep
    <2>1. \A c \in Comments : drafts[c] > 0 => drafts'[c] > 0
      BY <1>1, <1>t DEF PipelineStep, Lifecycle!Accept, Lifecycle!Draft, Lifecycle!Close,
                        Lifecycle!GiveUp
    <2>2. UNCHANGED <<outbox, drain, patch>>
      BY <1>1 DEF PipelineStep
    <2>3. \A r \in Requests : patch[r].ids \subseteq Comments
      BY <1>t DEF Patch
    <2>. QED
      BY <2>1, <2>2, <2>3
  <1>2. ASSUME NEW r \in Requests, UpdateReplyDraft(r) \/ BulkUpdate(r)
        PROVE  RowsInv'
    BY <1>2, <1>t DEF UpdateReplyDraft, BulkUpdate, Load
  <1>3. ASSUME NEW r \in Requests, CommitUpdate(r)
        PROVE  RowsInv'
    <2>1. \A c \in Comments \ patch[r].ids : outbox'[c] = outbox[c]
      BY <1>3 DEF CommitUpdate, Approved
    <2>2. \A q \in Requests : patch'[q].ids \subseteq patch[q].ids
      BY <1>3, <1>t, <1>a DEF CommitUpdate
    <2>3. UNCHANGED <<drafts, drain>>
      BY <1>3 DEF CommitUpdate
    <2>. QED
      BY <2>1, <2>2, <2>3
  <1>4. ASSUME NEW r \in Requests, AbortUpdate(r)
        PROVE  RowsInv'
    BY <1>4, <1>t, <1>a DEF AbortUpdate
  <1>5. ASSUME NEW w \in Drainers, SelectUnsent(w)
        PROVE  RowsInv'
    <2>1. drain'[w] = [drain[w] EXCEPT !.rows = [c \in Comments |-> Unsent(c)]]
          /\ \A v \in Drainers : v # w => drain'[v] = drain[v]
      BY <1>5, <1>t DEF SelectUnsent, Selected
    <2>2. \A c \in Comments : drain'[w].rows[c] \subseteq DOMAIN outbox[c]
      BY <2>1, <1>t DEF Drain, Unsent
    <2>3. UNCHANGED <<drafts, outbox, patch>>
      BY <1>5 DEF SelectUnsent, Selected
    <2>. QED
      BY <2>1, <2>2, <2>3
  <1>6. ASSUME NEW w \in Drainers, NEW c \in Comments, LoadDraft(w, c)
        PROVE  RowsInv'
    BY <1>6, <1>t DEF LoadDraft, Drain
  <1>7. ASSUME NEW w \in Drainers, CommitDrain(w)
        PROVE  RowsInv'
    <2>1. \A c \in Comments : DOMAIN outbox'[c] = DOMAIN outbox[c]
      BY <1>7, <1>t, StampType DEF CommitDrain
    <2>2. \A v \in Drainers, c \in Comments : drain'[v].rows[c] \subseteq drain[v].rows[c]
      BY <1>7, <1>t, <1>a DEF CommitDrain
    <2>3. UNCHANGED <<drafts, patch>>
      BY <1>7 DEF CommitDrain
    <2>. QED
      BY <2>1, <2>2, <2>3
  <1>8. ASSUME NEW w \in Drainers, FailDrain(w)
        PROVE  RowsInv'
    BY <1>8, <1>t, <1>a DEF FailDrain
  <1>9. CASE UNCHANGED vars
    BY <1>9 DEF vars
  <1>10. QED
    BY <1>1, <1>2, <1>3, <1>4, <1>5, <1>6, <1>7, <1>8, <1>9 DEF Next, UpdateStep, DrainStep

LEMMA LifecycleStep ==
    TypeOK /\ RowsInv /\ [Next]_vars => [Lifecycle!Next]_(Lifecycle!vars)
  <1> SUFFICES ASSUME TypeOK, RowsInv, [Next]_vars PROVE [Lifecycle!Next]_(Lifecycle!vars)
    OBVIOUS
  <1>1. PipelineStep => Lifecycle!Next
    BY DEF PipelineStep, Lifecycle!Next
  <1>2. ASSUME NEW w \in Drainers, CommitDrain(w)
        PROVE  Lifecycle!Next
    <2> DEFINE C == Answered(drain[w])
    <2>1. C \in SUBSET {c \in Comments : drafts[c] > 0}
      BY DEF RowsInv, Answered, Published
    <2>2. comment' = [c \in Comments |-> IF c \in C THEN "replied" ELSE comment[c]]
      BY <1>2 DEF CommitDrain, AnsweredStatus
    <2>3. UNCHANGED drafts
      BY <1>2 DEF CommitDrain
    <2>. QED
      BY <2>1, <2>2, <2>3 DEF Lifecycle!Publish, Lifecycle!Next
  <1>3. UNCHANGED vars => UNCHANGED Lifecycle!vars
    BY DEF vars, Lifecycle!vars
  <1>4. ASSUME NEW r \in Requests,
               \/ UpdateReplyDraft(r) \/ BulkUpdate(r) \/ CommitUpdate(r) \/ AbortUpdate(r)
        PROVE  UNCHANGED Lifecycle!vars
    BY <1>4 DEF UpdateReplyDraft, BulkUpdate, Load, CommitUpdate, AbortUpdate,
                Lifecycle!vars
  <1>5. ASSUME NEW w \in Drainers,
               SelectUnsent(w) \/ (\E c \in Comments : LoadDraft(w, c)) \/ FailDrain(w)
        PROVE  UNCHANGED Lifecycle!vars
    BY <1>5 DEF SelectUnsent, Selected, LoadDraft, FailDrain, Lifecycle!vars
  <1>6. QED
    BY <1>1, <1>2, <1>3, <1>4, <1>5 DEF Next, UpdateStep, DrainStep

\* Whatever people approve, reject and edit while drains overlap, publication is a
\* step of the lifecycle the pipeline implements.
THEOREM OutboxImplementsLifecycle == Spec => ImplementsLifecycle
  <1>1. Init => Lifecycle!Init /\ RowsInv
    BY DEF Init, RowsInv, IdleDrain, IdlePatch
  <1>2. QED
    BY <1>1, NextRowsInv, LifecycleStep, OutboxTypeCorrect, PTL
    DEF Spec, ImplementsLifecycle, Lifecycle!Spec

-----------------------------------------------------------------------------
(* A reply that went out leaves its comment answered.                      *)

\* Why a drain need not flip a comment it found at "replied": from there a comment
\* with a draft only ever goes to "failed".
AnsweredInv ==
    /\ \A w \in Drainers, c \in Comments :
         drain[w].was[c].comment = "replied" =>
           drafts[c] > 0 /\ comment[c] \in {"replied", "failed"}
    /\ SentIsAnswered

LEMMA NextAnsweredInv == TypeOK /\ RowsInv /\ AnsweredInv /\ [Next]_vars => AnsweredInv'
  <1> SUFFICES ASSUME TypeOK, RowsInv, AnsweredInv, [Next]_vars PROVE AnsweredInv'
    OBVIOUS
  <1> USE DEF AnsweredInv, SentIsAnswered
  <1>t. /\ patch \in [Requests -> Patch]
        /\ \A c \in Comments : outbox[c] \in Seq(Row)
        /\ drain \in [Drainers -> Drain]
        /\ drafts \in [Comments -> {0, 1}]
        /\ comment \in [Comments -> Lifecycle!Status]
    BY DEF TypeOK
  <1>a. \A c \in Comments : IdleDrain.was[c].comment = "unread"
    BY DEF IdleDrain, Unread
  <1>d. \A c \in Comments : (\E i \in DOMAIN outbox[c] : outbox[c][i].sent) => drafts[c] > 0
    BY DEF RowsInv
  <1>1. CASE PipelineStep
    <2>1. ASSUME NEW c \in Comments, drafts[c] > 0, comment[c] \in {"replied", "failed"}
          PROVE  drafts'[c] > 0 /\ comment'[c] \in {"replied", "failed"}
      BY <1>1, <1>t, <2>1 DEF PipelineStep, Lifecycle!Accept, Lifecycle!Draft,
                              Lifecycle!Close, Lifecycle!GiveUp
    <2>2. UNCHANGED <<outbox, drain>>
      BY <1>1 DEF PipelineStep
    <2>. QED
      BY <1>d, <2>1, <2>2
  <1>2. ASSUME NEW r \in Requests, UpdateReplyDraft(r) \/ BulkUpdate(r) \/ AbortUpdate(r)
        PROVE  AnsweredInv'
    BY <1>2 DEF UpdateReplyDraft, BulkUpdate, Load, AbortUpdate
  <1>3. ASSUME NEW r \in Requests, CommitUpdate(r)
        PROVE  AnsweredInv'
    <2> DEFINE p == patch[r]
    <2>1. ASSUME NEW c \in Comments, NEW i \in DOMAIN outbox'[c], outbox'[c][i].sent
          PROVE  i \in DOMAIN outbox[c] /\ outbox[c][i].sent
      <3>1. CASE c \in Approved(p)
        <4> DEFINE row == [text |-> PayloadText(p, c), sent |-> FALSE]
        <4>1. outbox'[c] = Append(outbox[c], row)
          BY <1>3, <3>1 DEF CommitUpdate
        <4>2. row \in Row /\ ~row.sent
          BY <1>t, PayloadType DEF Row
        <4>3. outbox[c] \in Seq(Row)
          BY <1>t
        <4>4. Len(outbox[c]) \in Nat /\ DOMAIN outbox[c] = 1..Len(outbox[c])
          BY <4>3, LenProperties
        <4> HIDE DEF row
        <4>5. /\ DOMAIN outbox'[c] = 1..(Len(outbox[c]) + 1)
              /\ \A k \in 1..Len(outbox[c]) : outbox'[c][k] = outbox[c][k]
              /\ outbox'[c][Len(outbox[c]) + 1] = row
          BY <4>1, <4>2, <4>3
        <4>6. i # Len(outbox[c]) + 1
          BY <2>1, <4>2, <4>5
        <4>7. i \in 1..Len(outbox[c])
          BY <4>4, <4>5, <4>6
        <4>. QED
          BY <2>1, <4>4, <4>5, <4>7
      <3>2. CASE c \notin Approved(p)
        BY <1>3, <2>1, <3>2 DEF CommitUpdate
      <3>. QED
        BY <3>1, <3>2
    <2>2. UNCHANGED <<comment, drafts, drain>>
      BY <1>3 DEF CommitUpdate
    <2>. QED
      BY <2>1, <2>2
  <1>4. ASSUME NEW w \in Drainers, SelectUnsent(w)
        PROVE  AnsweredInv'
    <2>1. UNCHANGED <<comment, drafts, outbox>>
      BY <1>4 DEF SelectUnsent, Selected
    <2>2. \A v \in Drainers : drain'[v].was = drain[v].was
      BY <1>4, <1>t DEF SelectUnsent, Selected, Drain
    <2>. QED
      BY <2>1, <2>2
  <1>5. ASSUME NEW w \in Drainers, NEW c \in Comments, LoadDraft(w, c)
        PROVE  AnsweredInv'
    <2>1. UNCHANGED <<comment, drafts, outbox>> /\ drafts[c] > 0
      BY <1>5 DEF LoadDraft, ToLoad, RowsInv
    <2>2. \A v \in Drainers, b \in Comments :
            \/ drain'[v].was[b] = drain[v].was[b]
            \/ b = c /\ drain'[v].was[b].comment = comment[c]
      BY <1>5, <1>t DEF LoadDraft, Drain
    <2>. QED
      BY <2>1, <2>2
  <1>6. ASSUME NEW w \in Drainers, CommitDrain(w)
        PROVE  AnsweredInv'
    <2>1. \A c \in Comments :
            comment'[c] = IF c \in Answered(drain[w]) THEN "replied" ELSE comment[c]
      BY <1>6 DEF CommitDrain, AnsweredStatus
    <2>2. \A v \in Drainers : drain'[v] = drain[v] \/ drain'[v] = IdleDrain
      BY <1>6, <1>t DEF CommitDrain
    <2>3. UNCHANGED drafts
      BY <1>6 DEF CommitDrain
    <2>4. \A v \in Drainers, c \in Comments :
            drain'[v].was[c].comment = "replied" =>
              drafts'[c] > 0 /\ comment'[c] \in {"replied", "failed"}
      BY <1>a, <2>1, <2>2, <2>3
    <2>5. ASSUME NEW c \in Comments, NEW i \in DOMAIN outbox'[c], outbox'[c][i].sent
          PROVE  comment'[c] \in {"replied", "failed"}
      <3>1. CASE drain[w].rows[c] # {}
        BY <2>1, <3>1 DEF Answered, Published
      <3>2. CASE drain[w].rows[c] = {}
        <4>1. outbox'[c] = Stamp(outbox[c], {})
          BY <1>6, <3>2 DEF CommitDrain, Stamped
        <4>2. i \in DOMAIN outbox[c] /\ outbox[c][i].sent
          BY <2>5, <4>1 DEF Stamp
        <4>. QED
          BY <2>1, <4>2
      <3>. QED
        BY <3>1, <3>2
    <2>. QED
      BY <2>4, <2>5
  <1>7. ASSUME NEW w \in Drainers, FailDrain(w)
        PROVE  AnsweredInv'
    <2>1. \A v \in Drainers : drain'[v] = drain[v] \/ drain'[v] = IdleDrain
      BY <1>7, <1>t DEF FailDrain
    <2>2. UNCHANGED <<comment, drafts, outbox>>
      BY <1>7 DEF FailDrain
    <2>. QED
      BY <1>a, <2>1, <2>2
  <1>8. CASE UNCHANGED vars
    BY <1>8 DEF vars
  <1>9. QED
    BY <1>1, <1>2, <1>3, <1>4, <1>5, <1>6, <1>7, <1>8 DEF Next, UpdateStep, DrainStep

\* Whoever published the draft and whatever a drain had loaded, a comment whose reply
\* went out reads "replied", or "failed" after a late dead letter.
THEOREM SentRepliesAreAnswered == Spec => []SentIsAnswered
  <1>1. Init => RowsInv /\ AnsweredInv
    BY DEF Init, RowsInv, AnsweredInv, SentIsAnswered, IdleDrain, IdlePatch, Unread
  <1>2. AnsweredInv => SentIsAnswered
    BY DEF AnsweredInv
  <1>3. QED
    BY <1>1, <1>2, NextRowsInv, NextAnsweredInv, OutboxTypeCorrect, PTL DEF Spec
=============================================================================
