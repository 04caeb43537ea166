---------------------------- MODULE ReplyOutbox ----------------------------
(***************************************************************************)
(* Approval and publication: PATCH /reply_drafts/{id} and .../bulk, the    *)
(* outbox rows an approval writes, and the workers that drain them, beside *)
(* a comment pipeline of which only the CommentLifecycle is seen.          *)
(*                                                                         *)
(* A comment has at most one draft (CommentPipeline!AtMostOneDraft), so a  *)
(* draft is named by its comment.  Sessions load rows, and at the commit   *)
(* write only the columns they changed: a handler is a load and a commit   *)
(* with everybody else in between, and no lock is taken in the load.       *)
(***************************************************************************)
EXTENDS Naturals, Sequences

CONSTANTS Comments,
          Requests,   \* API requests that can be in flight at once
          Drainers,   \* drain_outbox runs that can overlap: one per worker
          Edits,      \* texts a person can save, "" among them or not
          Unset,      \* final_text IS NULL
          MaxRows,    \* bound: outbox rows one draft can get
          MaxFaults   \* bound: requests and drains that fail

ASSUME UnsetAssumption == Unset \notin Edits
ASSUME BoundAssumption == MaxRows \in Nat /\ MaxFaults \in Nat

VARIABLES comment, drafts,   \* see CommentLifecycle
          status,   \* reply_drafts.status, "none" before the draft exists
          final,    \* reply_drafts.final_text
          outbox,   \* the outbox rows of each draft, in the order written
          patch,    \* API requests between their load and their commit
          drain,    \* drain_outbox runs between their select and their commit
          faults

Lifecycle == INSTANCE CommentLifecycle

vars == <<comment, drafts, status, final, outbox, patch, drain, faults>>

DraftStatus == {"pending", "approved", "rejected", "published"}
AgentText == "the agent's text"

\* A request: the drafts, the new status ("none" when the body has none), the
\* text to save, and the columns as loaded.
Patch == [ids : SUBSET Comments, status : DraftStatus \cup {"none"},
          text : Edits \cup {Unset},
          was : [Comments -> DraftStatus \cup {"none"}],
          had : [Comments -> Edits \cup {Unset}]]
IdlePatch == [ids |-> {}, status |-> "none", text |-> Unset,
              was |-> [c \in Comments |-> "none"], had |-> [c \in Comments |-> Unset]]

Row == [text : Edits \cup {AgentText}, sent : BOOLEAN]

\* A drain: the rows selected, as positions in outbox, and the statuses of their
\* drafts and comments once loaded.
Loaded == [draft : DraftStatus \cup {"none"}, comment : Lifecycle!Status]
Unread == [draft |-> "unread", comment |-> "unread"]
Drain == [rows : [Comments -> SUBSET (1..MaxRows)], was : [Comments -> Loaded \cup {Unread}]]
IdleDrain == [rows |-> [c \in Comments |-> {}], was |-> [c \in Comments |-> Unread]]

TypeOK ==
    /\ comment \in [Comments -> Lifecycle!Status]
    /\ drafts \in [Comments -> {0, 1}]
    /\ status \in [Comments -> DraftStatus \cup {"none"}]
    /\ final \in [Comments -> Edits \cup {Unset}]
    /\ outbox \in [Comments -> Seq(Row)]
    /\ \A c \in Comments : Len(outbox[c]) <= MaxRows
    /\ patch \in [Requests -> Patch]
    /\ drain \in [Drainers -> Drain]
    /\ faults \in 0..MaxFaults

Init ==
    /\ Lifecycle!Init
    /\ status = [c \in Comments |-> "none"]
    /\ final = [c \in Comments |-> Unset]
    /\ outbox = [c \in Comments |-> <<>>]
    /\ patch = [r \in Requests |-> IdlePatch]
    /\ drain = [w \in Drainers |-> IdleDrain]
    /\ faults = 0

-----------------------------------------------------------------------------
(* The pipeline.  A new draft is pending and unedited.                     *)

PipelineStep ==
    /\ \/ Lifecycle!Accept
       \/ \E c \in Comments :
            Lifecycle!Draft(c) \/ Lifecycle!Close(c) \/ Lifecycle!GiveUp(c)
    /\ status' = [c \in Comments |->
                    IF drafts'[c] > drafts[c] THEN "pending" ELSE status[c]]
    /\ UNCHANGED <<final, outbox, patch, drain, faults>>

-----------------------------------------------------------------------------
(* The API.                                                                *)

\* The Inbox offers Publish on a draft it has seen approved, however long ago;
\* it offers the rest on any draft that it has not yet seen published.
CanAsk(c, new) == new = "published" => outbox[c] # <<>>

\* The load.  Any id that is not there is a 404 for the whole request.
Load(r, ids, new, text) ==
    /\ patch[r] = IdlePatch
    /\ ids # {}
    /\ \A c \in ids : drafts[c] > 0 /\ CanAsk(c, new)
    /\ patch' = [patch EXCEPT ![r] = [ids |-> ids, status |-> new, text |-> text,
                                      was |-> status, had |-> final]]
    /\ UNCHANGED <<comment, drafts, status, final, outbox, drain, faults>>

\* PATCH /reply_drafts/{id}: a status, a text, both or neither.
UpdateReplyDraft(r) ==
    \E c \in Comments, new \in DraftStatus \cup {"none"}, text \in Edits \cup {Unset} :
        Load(r, {c}, new, text)

\* PATCH /reply_drafts/bulk: one status for many drafts.
BulkUpdate(r) ==
    \E ids \in SUBSET Comments, new \in DraftStatus : Load(r, ids, new, Unset)

\* payload_json.text of the row: draft.final_text or draft.text, with the session's
\* final_text.
SavedText(p, c) == IF p.text = Unset THEN p.had[c] ELSE p.text
PayloadText(p, c) ==
    IF SavedText(p, c) \in {Unset, ""} THEN AgentText ELSE SavedText(p, c)

\* The drafts for which _apply adds an outbox row, and a variant that takes an
\* approved draft for one that is queued already.
OnlyNewlyApproved(p) == {c \in p.ids : p.status = "approved" /\ p.was[c] = "pending"}
Approved(p) == {c \in p.ids : p.status = "approved"}

\* _apply on every draft of the request, and the one commit.
CommitUpdate(r) ==
    LET p == patch[r]
    IN /\ p.ids # {}
       /\ \A c \in Approved(p) : Len(outbox[c]) < MaxRows
       /\ final' = [c \in Comments |->
                      IF c \in p.ids /\ p.text \notin {Unset, p.had[c]}
                      THEN p.text ELSE final[c]]
       /\ status' = [c \in Comments |->
                       IF c \in p.ids /\ p.status \notin {"none", p.was[c]}
                       THEN p.status ELSE status[c]]
       /\ outbox' = [c \in Comments |->
                       IF c \in Approved(p)
                       THEN Append(outbox[c], [text |-> PayloadText(p, c), sent |-> FALSE])
                       ELSE outbox[c]]
       /\ patch' = [patch EXCEPT ![r] = IdlePatch]
       /\ UNCHANGED <<comment, drafts, drain, faults>>

Fault == faults < MaxFaults /\ faults' = faults + 1

\* The request dies before its commit.
AbortUpdate(r) ==
    /\ patch[r] # IdlePatch
    /\ patch' = [patch EXCEPT ![r] = IdlePatch]
    /\ Fault
    /\ UNCHANGED <<comment, drafts, status, final, outbox, drain>>

-----------------------------------------------------------------------------
(* drain_outbox, from _outbox_loop of any worker or as a job of its own.   *)

Unsent(c) == {i \in DOMAIN outbox[c] : ~outbox[c][i].sent}

\* WHERE sent_at IS NULL, and a variant that also asks for the draft's status.
SelectedIfApproved(c) == IF status[c] = "approved" THEN Unsent(c) ELSE {}
Selected(c) == Unsent(c)

SelectUnsent(w) ==
    /\ drain[w] = IdleDrain
    /\ \E c \in Comments : Selected(c) # {}
    /\ drain' = [drain EXCEPT ![w].rows = [c \in Comments |-> Selected(c)]]
    /\ UNCHANGED <<comment, drafts, status, final, outbox, patch, faults>>

ToLoad(w) == {c \in Comments : drain[w].rows[c] # {} /\ drain[w].was[c] = Unread}

\* session.get of a draft and of its comment: once per draft, the second row of a
\* draft finds both in the session.
LoadDraft(w, c) ==
    /\ c \in ToLoad(w)
    /\ drain' = [drain EXCEPT ![w].was[c] = [draft |-> status[c], comment |-> comment[c]]]
    /\ UNCHANGED <<comment, drafts, status, final, outbox, patch, faults>>

\* The rows a drain stamps, and a variant of the stamp that is an UPDATE ... WHERE
\* sent_at IS NULL of its own.
AllUnsent(w, c) == IF drain[w].rows[c] = {} THEN {} ELSE Unsent(c)
Stamped(w, c) == drain[w].rows[c]

\* sent_at of the rows at some positions.
Stamp(rows, positions) ==
    [i \in DOMAIN rows |->
       IF i \in positions THEN [rows[i] EXCEPT !.sent = TRUE] ELSE rows[i]]

\* The status of a comment whose reply went out, and a variant that gives it the
\* draft's.
DraftsOwnStatus == "published"
AnsweredStatus == "replied"

\* The drafts whose rows a drain sends, those of them it flips, and the comments it
\* flips: SQLAlchemy writes a column only when it differs from what was loaded.  (The
\* variant flips the comment with the draft, and so not when the draft is published.)
Published(d) == {c \in Comments : d.rows[c] # {}}
NewlyPublished(d) == {c \in Published(d) : d.was[c].draft # "published"}
Answered(d) == {c \in Published(d) : d.was[c].comment # "replied"}

\* The commit: sent_at, the draft's status and the comment's.
CommitDrain(w) ==
    LET d == drain[w]
    IN /\ d # IdleDrain
       /\ ToLoad(w) = {}
       /\ outbox' = [c \in Comments |-> Stamp(outbox[c], Stamped(w, c))]
       /\ status' = [c \in Comments |->
                       IF c \in NewlyPublished(d) THEN "published" ELSE status[c]]
       /\ comment' = [c \in Comments |->
                        IF c \in Answered(d) THEN AnsweredStatus ELSE comment[c]]
       /\ drain' = [drain EXCEPT ![w] = IdleDrain]
       /\ UNCHANGED <<drafts, final, patch, faults>>

\* The drain raises, or its worker dies: nothing was committed, and the next tick
\* starts over.
FailDrain(w) ==
    /\ drain[w] # IdleDrain
    /\ drain' = [drain EXCEPT ![w] = IdleDrain]
    /\ Fault
    /\ UNCHANGED <<comment, drafts, status, final, outbox, patch>>

-----------------------------------------------------------------------------
DrainStep(w) ==
    \/ SelectUnsent(w)
    \/ \E c \in Comments : LoadDraft(w, c)
    \/ CommitDrain(w)

UpdateStep(r) == UpdateReplyDraft(r) \/ BulkUpdate(r) \/ CommitUpdate(r) \/ AbortUpdate(r)

Next ==
    \/ PipelineStep
    \/ \E r \in Requests : UpdateStep(r)
    \/ \E w \in Drainers : DrainStep(w) \/ FailDrain(w)

Spec == Init /\ [][Next]_vars

\* _outbox_loop ticks every 30 seconds in every worker, whatever the last tick did,
\* and its statements answer or raise.  Nobody is bound to press anything.
FairSpec == Spec /\ \A w \in Drainers : WF_vars(DrainStep(w))

-----------------------------------------------------------------------------
(* Properties.                                                             *)

\* A draft that reads "approved" has a row that no drain has sent yet, whatever
\* other approvals, rejections and overlapping drains did to it: the badge is
\* never a promise nobody will keep.
ApprovedIsQueued == \A c \in Comments : status[c] = "approved" => Unsent(c) # {}

\* A comment whose reply went out never reads as waiting for review again: a drain
\* flips it even when the draft was published by hand, or by another drain, and only
\* a late dead letter takes it from "replied".
SentIsAnswered ==
    \A c \in Comments :
        (\E i \in DOMAIN outbox[c] : outbox[c][i].sent)
          => comment[c] \in {"replied", "failed"}

\* What publication does to comments is a step of the lifecycle the pipeline
\* implements.
ImplementsLifecycle == Lifecycle!Spec

\* "clicking Approve would have left the row at `approved` forever": it does not
\* stay there.
ApprovalLoopCloses ==
    \A c \in Comments : status[c] = "approved" ~> status[c] # "approved"

\* Every outbox row is sent in the end, whatever becomes of its draft.
EveryRowIsSent ==
    \A c \in Comments : \A i \in 1..MaxRows :
        i \in Unsent(c) ~> i \in DOMAIN outbox[c] \ Unsent(c)

-----------------------------------------------------------------------------
(* Claims of comments and docs that the code does not keep.                *)

\* "A human reviews and approves agent output before anything is published": what
\* is sent is a draft that reads "approved", or "published", when it is sent.
OnlyApprovedIsSent ==
    [][\A c \in Comments :
          (\E i \in Unsent(c) : i \notin Unsent(c)')
            => status[c] \in {"approved", "published"}]_vars

\* "published replies only", one row each: no reply is sent, or counted, twice.
SentOnce ==
    \A c \in Comments : \A i, j \in DOMAIN outbox[c] :
        outbox[c][i].sent /\ outbox[c][j].sent => i = j
=============================================================================
