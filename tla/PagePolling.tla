----------------------------- MODULE PagePolling -----------------------------
(***************************************************************************)
(* One page of the web application: what it shows, the loads it has in     *)
(* flight (the effect's on a new brand or filter, the poll's, and those    *)
(* that clicks end with) and what becomes of their answers, which come in  *)
(* any order.  A page component is not remounted when the brand changes.   *)
(*                                                                         *)
(* Six kinds of page differ in when they poll, which answers they paint    *)
(* and what a new brand leaves on them; the kind is chosen once:           *)
(*   inbox    polls always (Inbox; the agents table, which has no clicks)  *)
(*   content  polls while a photo it shows is being analysed               *)
(*   ideas    polls for a while after Generate (Ideas, Insights; the       *)
(*            dashboard, which has neither)                                *)
(*   meter    polls always, without a generation, and has one view         *)
(*            (FailedJobs, QueueMeter)                                     *)
(*   sidebar  polls also when hidden, without a generation, and keeps the  *)
(*            totals of the brand that is left (AppShell)                  *)
(*   summary  polls for a while after Generate, without a generation       *)
(***************************************************************************)
EXTENDS Naturals

CONSTANTS Views,        \* brand and filter
          MaxInFlight,  \* bound: loads in flight at once
          MaxPolls,     \* GENERATE_MAX_POLLS, SUMMARY_MAX_POLLS
          MaxVersion,   \* bound: changes of the rows, over all views
          Nothing       \* no rows, no load, no version to compare with

ASSUME PageLoadsAssumption == MaxInFlight \in Nat \ {0}
ASSUME PagePollsAssumption == MaxPolls \in Nat \ {0}
ASSUME PageVersionAssumption == MaxVersion \in Nat

\* Some view's rows, after so many changes, with a photo that is waiting or not.
Rows == [view : Views, version : 0..MaxVersion, waiting : BOOLEAN]

ASSUME PageNothingAssumption == Nothing \notin Rows \cup Nat

VARIABLES page,     \* the kind of the page
          view,     \* the brand and filter in force
          paused,   \* document.hidden, or a draft of the inbox is being edited
          version,  \* how often rows have changed in the database
          waiting,  \* the views that have a photo without an analysis
          wrote,    \* the version when an act of the page last went on to load
          shown,    \* the rows on the page
          newest,   \* the load whose number is generation.current, while in flight
          load,     \* the loads in flight
          click     \* the handler that runs

vars == <<page, view, paused, version, waiting, wrote, shown, newest, load, click>>

Pages   == {"inbox", "content", "ideas", "meter", "sidebar", "summary"}
Guarded == {"inbox", "content", "ideas"}
Loads   == 1..MaxInFlight

\* fresh: no later effect has cancelled the load, where an effect does.
FreeLoad == [state |-> "free", view |-> Nothing, rows |-> Nothing,
             clicked |-> FALSE, fresh |-> FALSE]
Load == [state : {"free", "sent", "answered"}, view : Views \cup {Nothing},
         rows : Rows \cup {Nothing}, clicked : BOOLEAN, fresh : BOOLEAN]

\* view is the one the handler's closure captured, before the version of that
\* view that was shown when Generate was clicked.
IdleClick == [step |-> "idle", op |-> "act", view |-> Nothing, polls |-> 0,
              before |-> Nothing, load |-> Nothing]
Click == [step : {"idle", "posting", "posted", "sleeping", "loading"},
          op : {"act", "generate"}, view : Views \cup {Nothing}, polls : 0..MaxPolls,
          before : (0..MaxVersion) \cup {Nothing}, load : Loads \cup {Nothing}]

TypeOK ==
    /\ page \in Pages
    /\ view \in Views
    /\ paused \in BOOLEAN
    /\ version \in 0..MaxVersion
    /\ waiting \in SUBSET Views
    /\ wrote \in 0..MaxVersion
    /\ shown \in Rows \cup {Nothing}
    /\ newest \in Loads \cup {Nothing}
    /\ load \in [Loads -> Load]
    /\ click \in Click

-----------------------------------------------------------------------------
(* Loads.                                                                  *)

\* mine = ++generation.current, where there is one.
Numbered(l) == IF page \in Guarded THEN l ELSE Nothing

Sent(l, v, clicked) ==
    [load EXCEPT ![l] = [state |-> "sent", view |-> v, rows |-> Nothing,
                         clicked |-> clicked, fresh |-> TRUE]]

FirstFree(l) ==
    /\ load[l].state = "free"
    /\ \A k \in Loads : k < l => load[k].state # "free"

SendLoad(l, v, clicked) ==
    /\ FirstFree(l)
    /\ load' = Sent(l, v, clicked)
    /\ newest' = Numbered(l)

\* Only photos are analysed.
Waits == IF page = "content" THEN SUBSET Views ELSE {{}}

\* The first render: the effect has sent its load.
Init ==
    /\ page \in Pages
    /\ view \in Views
    /\ paused = FALSE
    /\ version = 0
    /\ waiting \in {{}, UNION Waits}
    /\ wrote = 0
    /\ shown = Nothing
    /\ newest = Numbered(1)
    /\ load = [l \in Loads |->
                 IF l = 1 THEN [FreeLoad EXCEPT !.state = "sent", !.view = view, !.fresh = TRUE]
                 ELSE FreeLoad]
    /\ click = IdleClick

\* The effect empties the page, but not the sidebar; a variant that never does.
KeptRows == shown
EmptiedRows == IF page = "sidebar" THEN shown ELSE Nothing

\* Another brand or filter: the old effect is cancelled, the new one loads.
ChangeView(v) ==
    /\ page # "meter"
    /\ v # view
    /\ view' = v
    /\ shown' = EmptiedRows
    /\ \E l \in Loads :
         /\ FirstFree(l)
         /\ load' = [k \in Loads |-> IF k = l THEN Sent(l, v, FALSE)[l]
                                     ELSE [load[k] EXCEPT !.fresh = page \in Guarded]]
         /\ newest' = Numbered(l)
    /\ UNCHANGED <<page, paused, version, waiting, wrote, click>>

\* A photo on the page has no analysis yet.
Analysing == shown # Nothing /\ shown.waiting

InboxPolls   == page = "inbox"
ContentPolls == page = "content" /\ Analysing
MeterPolls   == page = "meter"
SidebarPolls == page = "sidebar"

PollRuns == SidebarPolls \/ (~paused /\ (InboxPolls \/ ContentPolls \/ MeterPolls))

\* The view an interval loads; a variant whose effect does not depend on load.
FirstView == CHOOSE v \in Views : TRUE
PolledView == view

\* setInterval
Poll ==
    /\ PollRuns
    /\ \E l \in Loads : SendLoad(l, PolledView, FALSE)
    /\ UNCHANGED <<page, view, paused, version, waiting, wrote, shown, click>>

TogglePause ==
    /\ paused' = ~paused
    /\ UNCHANGED <<page, view, version, waiting, wrote, shown, newest, load, click>>

\* The API's SELECT.
Serve(l) ==
    /\ load[l].state = "sent"
    /\ load' = [load EXCEPT ![l].state = "answered",
                            ![l].rows = [view |-> load[l].view, version |-> version,
                                         waiting |-> load[l].view \in waiting]]
    /\ UNCHANGED <<page, view, paused, version, waiting, wrote, shown, newest, click>>

\* mine === generation.current, and a page without that line.
NoGeneration(l) == TRUE
Current(l) == l = newest

\* The answer may hold rows that were not there when Generate was clicked (a
\* change is not always a new row).
MayBeNews(l) ==
    /\ click.load = l /\ click.op = "generate"
    /\ page = "summary" \/ Current(l)
    /\ IF click.before = Nothing THEN TRUE ELSE load[l].rows.version > click.before

\* Which answers are painted.  The summary's loop paints what is news to it.
Paints(l, news) ==
    CASE page \in Guarded -> Current(l)
      [] page = "summary" /\ load[l].clicked -> news
      [] OTHER -> load[l].fresh

Forget(l) ==
    /\ load' = [load EXCEPT ![l] = FreeLoad]
    /\ newest' = IF l = newest THEN Nothing ELSE newest

\* The loop's bound, and the bound with <= for <.
OnceMore == click.polls < 0
PollsSpent == click.polls = 0

\* The handler after its load; a Generate's loop is done when news came, or when
\* it has polled often enough.
Resume(l, over) ==
    IF click.load = l
    THEN click' = IF click.op = "act" \/ over \/ PollsSpent
                  THEN IdleClick
                  ELSE [click EXCEPT !.step = "sleeping", !.load = Nothing]
    ELSE UNCHANGED click

Receive(l) ==
    /\ load[l].state = "answered"
    /\ \E news \in {n \in BOOLEAN : n => MayBeNews(l)} :
         /\ shown' = IF Paints(l, news) THEN load[l].rows ELSE shown
         /\ Resume(l, news)
    /\ Forget(l)
    /\ UNCHANGED <<page, view, paused, version, waiting, wrote>>

\* The answer is an error, or none comes: the rows stay.  The summary's loop
\* ends, the others go on.
LoadFails(l) ==
    /\ load[l].state = "answered"
    /\ Forget(l)
    /\ Resume(l, page = "summary")
    /\ UNCHANGED <<page, view, paused, version, waiting, wrote, shown>>

-----------------------------------------------------------------------------
(* Clicks.                                                                 *)

\* What the page's buttons do: a write followed by a load, or Generate.
Offers(op) ==
    \/ op = "act" /\ page \in {"inbox", "content", "ideas", "meter"}
    \/ op = "generate" /\ page \in {"ideas", "summary"}

ShownVersion ==
    IF shown # Nothing /\ shown.view = view THEN shown.version ELSE Nothing

\* The handler is a closure over the view of its render.
StartClick(op) ==
    /\ click.step = "idle"
    /\ Offers(op)
    /\ click' = [IdleClick EXCEPT !.step = "posting", !.op = op, !.view = view,
                                  !.before = IF op = "generate" THEN ShownVersion ELSE Nothing,
                                  !.polls = IF op = "generate" THEN MaxPolls ELSE 0]
    /\ UNCHANGED <<page, view, paused, version, waiting, wrote, shown, newest, load>>

\* Rows change: an upload, a worker, a colleague, a click.
Changed ==
    /\ version < MaxVersion
    /\ version' = version + 1
    /\ waiting' \in Waits

Change ==
    /\ Changed
    /\ UNCHANGED <<page, view, paused, wrote, shown, newest, load, click>>

\* The API commits the write of an act, which may change nothing.  A Generate
\* only queues a job.
Commit ==
    /\ click.step = "posting"
    /\ \/ click.op = "act" /\ Changed
       \/ UNCHANGED <<version, waiting>>
    /\ click' = [click EXCEPT !.step = "posted"]
    /\ UNCHANGED <<page, view, paused, wrote, shown, newest, load>>

\* await action(); await load()
ActLoads ==
    /\ click.op = "act" /\ click.step = "posted"
    /\ \E l \in Loads :
         /\ SendLoad(l, click.view, TRUE)
         /\ click' = [click EXCEPT !.step = "loading", !.load = l]
    /\ wrote' = version
    /\ UNCHANGED <<page, view, paused, version, waiting, shown>>

GenerateSleeps ==
    /\ click.op = "generate" /\ click.step = "posted"
    /\ click' = [click EXCEPT !.step = "sleeping"]
    /\ UNCHANGED <<page, view, paused, version, waiting, wrote, shown, newest, load>>

GenerateLoads ==
    /\ click.step = "sleeping"
    /\ \E l \in Loads :
         /\ SendLoad(l, click.view, TRUE)
         /\ click' = [click EXCEPT !.step = "loading", !.load = l, !.polls = click.polls - 1]
    /\ UNCHANGED <<page, view, paused, version, waiting, wrote, shown>>

\* The request of the click fails.  The meter loads in a finally.
ClickFails ==
    /\ click.step \in {"posting", "posted"}
    /\ page # "meter"
    /\ click' = IdleClick
    /\ UNCHANGED <<page, view, paused, version, waiting, wrote, shown, newest, load>>

-----------------------------------------------------------------------------
Network(l) == Serve(l) \/ Receive(l) \/ LoadFails(l)
Handler == Commit \/ ActLoads \/ GenerateSleeps \/ GenerateLoads \/ ClickFails

Next ==
    \/ \E v \in Views : ChangeView(v)
    \/ \E l \in Loads : Network(l)
    \/ \E op \in {"act", "generate"} : StartClick(op)
    \/ Poll \/ TogglePause \/ Change \/ Handler

Spec == Init /\ [][Next]_vars

-----------------------------------------------------------------------------
(* Safety.                                                                 *)

\* A page with a generation never goes back, whatever order answers come in: rows
\* of a view give way only to rows of the same or a later state of it, and none
\* that it paints are older than a write it has made and been told of.
NeverGoesBack ==
    [][ shown' # shown /\ shown' # Nothing /\ page \in Guarded =>
          /\ shown'.version >= wrote
          /\ shown # Nothing /\ shown'.view = shown.view => shown'.version >= shown.version ]_vars

\* Rows of another brand or filter are on a page only because the load of a click
\* made under that brand was answered.  (This does happen: the handler's load is the
\* newest although its view is not the page's.)  The sidebar alone keeps what it
\* shows when the brand changes; no answer brings it totals of another brand.
OtherRowsNeedAnOldClick ==
    [][ shown' # Nothing /\ shown'.view # view' /\ <<shown, view>>' # <<shown, view>> =>
          \/ \E l \in Loads : load[l].clicked /\ load[l].rows = shown' /\ load'[l] = FreeLoad
          \/ page = "sidebar" /\ view' # view /\ shown' = shown ]_vars

-----------------------------------------------------------------------------
(* Liveness.                                                               *)

\* Timers fire and requests are answered or fail.  Each poll makes the answers
\* to earlier ones void, so it takes infinitely many answers that come before
\* the next poll.
Matters(l) == IF page \in Guarded THEN l = newest ELSE load[l].fresh

Fairness ==
    /\ WF_vars(Poll) /\ SF_vars(Handler)
    /\ \A l \in Loads : WF_vars(Network(l))
    /\ SF_vars(\E l \in Loads : Matters(l) /\ Serve(l))
    /\ SF_vars(\E l \in Loads : Matters(l) /\ Receive(l))

FairSpec == Spec /\ Fairness

Shows(v, n) == shown # Nothing /\ shown.view = v /\ shown.version >= n

\* What happens in the database gets onto a page that keeps polling, rows of
\* another brand or an older state notwithstanding.
PollCatchesUp ==
    \A v \in Views, n \in 0..MaxVersion :
        (view = v /\ version >= n /\ PollRuns)
          ~> (Shows(v, n) \/ view # v \/ ~PollRuns)
=============================================================================
