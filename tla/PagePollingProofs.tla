-------------------------- MODULE PagePollingProofs --------------------------
(***************************************************************************)
(* Theorems about PagePolling, for each kind of page, any views and any    *)
(* bounds.                                                                 *)
(***************************************************************************)
EXTENDS PagePolling, TLAPS

\* A Generate has polls left until its last load, only a Generate sleeps, and a
\* handler that runs has a view.
Counted ==
    /\ (click.step \in {"posting", "posted", "sleeping"} /\ click.op = "generate") => click.polls > 0
    /\ click.step = "sleeping" => click.op = "generate"
    /\ click.step # "idle" => click.view \in Views
    /\ click.load # Nothing => click.step = "loading"

\* A load in flight is for a view, and an answer has rows.
Addressed ==
    \A l \in Loads :
        /\ load[l].state # "free" => load[l].view \in Views
        /\ load[l].state = "answered" => load[l].rows \in Rows

TypeInv == TypeOK /\ Counted /\ Addressed

-----------------------------------------------------------------------------
(* Types.                                                                  *)

LEMMA Idle == FreeLoad \in Load /\ IdleClick \in Click
  BY PagePollsAssumption DEF FreeLoad, Load, IdleClick, Click

LEMMA NumberedType == ASSUME NEW l \in Loads PROVE Numbered(l) \in Loads \cup {Nothing}
  BY DEF Numbered

\* What a sent and an answered load consist of.
LEMMA SentRecord ==
    ASSUME NEW v \in Views, NEW clicked \in BOOLEAN,
           NEW r, r = [state |-> "sent", view |-> v, rows |-> Nothing, clicked |-> clicked, fresh |-> TRUE]
    PROVE  r \in Load /\ r.state = "sent" /\ r.view = v /\ r.clicked = clicked /\ r.fresh
  BY DEF Load

LEMMA AnsweredRecord ==
    ASSUME NEW q \in Load, NEW rows \in Rows,
           NEW r, r = [q EXCEPT !.state = "answered", !.rows = rows]
    PROVE  /\ r \in Load /\ r.state = "answered" /\ r.rows = rows
           /\ r.view = q.view /\ r.clicked = q.clicked /\ r.fresh = q.fresh
  BY DEF Load

LEMMA CancelledRecord ==
    ASSUME NEW q \in Load, NEW fresh \in BOOLEAN, NEW r, r = [q EXCEPT !.fresh = fresh]
    PROVE  /\ r \in Load /\ r.state = q.state /\ r.rows = q.rows
           /\ r.view = q.view /\ r.clicked = q.clicked /\ r.fresh = fresh
  BY DEF Load

LEMMA InitTypeInv == Init => TypeInv
  <1> SUFFICES ASSUME Init PROVE TypeInv
    OBVIOUS
  <1>1. 1 \in Loads
    BY PageLoadsAssumption DEF Loads
  <1>2. waiting \in SUBSET Views
    BY DEF Init, Waits
  <1> DEFINE first == [FreeLoad EXCEPT !.state = "sent", !.view = view, !.fresh = TRUE]
  <1>4. view \in Views
    BY DEF Init
  <1>5. first \in Load /\ first.state = "sent" /\ first.view = view
    <2>1. FreeLoad \in Load
      BY Idle
    <2>. QED
      BY <1>4, <2>1 DEF Load
  <1>6. load = [l \in Loads |-> IF l = 1 THEN first ELSE FreeLoad]
    BY Zenon DEF Init
  <1>7. load \in [Loads -> Load] /\ Addressed
    <2> HIDE DEF first
    <2>1. FreeLoad.state = "free"
      BY DEF FreeLoad
    <2>. QED
      BY <1>4, <1>5, <1>6, <2>1, Idle DEF Addressed
  <1>8. newest \in Loads \cup {Nothing}
    BY <1>1, NumberedType DEF Init
  <1>9. click \in Click /\ Counted
    BY Idle DEF Init, Counted, IdleClick
  <1>10. page \in Pages /\ paused = FALSE /\ version = 0 /\ wrote = 0 /\ shown = Nothing
    BY DEF Init
  <1>11. 0 \in 0..MaxVersion
    BY PageVersionAssumption
  <1>. QED
    BY <1>2, <1>4, <1>7, <1>8, <1>9, <1>10, <1>11 DEF TypeInv, TypeOK

\* A load that is sent leaves the other loads alone.
LEMMA Send ==
    ASSUME TypeInv, NEW l \in Loads, NEW v \in Views, NEW clicked \in BOOLEAN, SendLoad(l, v, clicked)
    PROVE  /\ load' \in [Loads -> Load]
           /\ newest' = Numbered(l) /\ newest' \in Loads \cup {Nothing}
           /\ load'[l].state = "sent" /\ load'[l].view = v /\ load'[l].clicked = clicked
           /\ \A k \in Loads \ {l} : load'[k] = load[k]
           /\ Addressed'
  <1> DEFINE r == [state |-> "sent", view |-> v, rows |-> Nothing, clicked |-> clicked, fresh |-> TRUE]
  <1>1. load' = [load EXCEPT ![l] = r] /\ newest' = Numbered(l)
    BY DEF SendLoad, Sent
  <1>2. r \in Load /\ r.state = "sent" /\ r.view = v /\ r.clicked = clicked
    <2>1. r = [state |-> "sent", view |-> v, rows |-> Nothing, clicked |-> clicked, fresh |-> TRUE]
      OBVIOUS
    <2> HIDE DEF r
    <2>. QED
      BY <2>1, SentRecord
  <1> HIDE DEF r
  <1>. QED
    BY <1>1, <1>2, NumberedType DEF TypeInv, TypeOK, Addressed

\* The effect's load, which may cancel the others.
LEMMA ViewChanged ==
    ASSUME TypeInv, NEW v \in Views, NEW l \in Loads,
           load' = [k \in Loads |-> IF k = l THEN Sent(l, v, FALSE)[l]
                                    ELSE [load[k] EXCEPT !.fresh = page \in Guarded]]
    PROVE  /\ load' \in [Loads -> Load]
           /\ load'[l].state = "sent" /\ load'[l].view = v
           /\ \A k \in Loads \ {l} :
                 /\ load'[k].state = load[k].state /\ load'[k].view = load[k].view
                 /\ load'[k].rows = load[k].rows /\ load'[k].clicked = load[k].clicked
                 /\ page \notin Guarded => ~load'[k].fresh
           /\ Addressed'
  <1> DEFINE r == [state |-> "sent", view |-> v, rows |-> Nothing, clicked |-> FALSE, fresh |-> TRUE]
             guarded == page \in Guarded
             q(k) == [load[k] EXCEPT !.fresh = guarded]
  <1>1. load' = [k \in Loads |-> IF k = l THEN r ELSE q(k)]
    BY DEF Sent, TypeInv, TypeOK
  <1>2. r \in Load /\ r.state = "sent" /\ r.view = v
    <2>1. r = [state |-> "sent", view |-> v, rows |-> Nothing, clicked |-> FALSE, fresh |-> TRUE]
      OBVIOUS
    <2> HIDE DEF r
    <2>. QED
      BY <2>1, SentRecord
  <1>3. ASSUME NEW k \in Loads
        PROVE  /\ q(k) \in Load /\ q(k).state = load[k].state /\ q(k).view = load[k].view
               /\ q(k).rows = load[k].rows /\ q(k).clicked = load[k].clicked /\ (~guarded => ~q(k).fresh)
    <2>1. load[k] \in Load
      BY DEF TypeInv, TypeOK
    <2>2. guarded \in BOOLEAN
      OBVIOUS
    <2> HIDE DEF guarded
    <2>. QED
      BY <2>1, <2>2, CancelledRecord
  <1> HIDE DEF r, q
  <1>4. load' \in [Loads -> Load] /\ load'[l].state = "sent" /\ load'[l].view = v
    BY <1>1, <1>2, <1>3
  <1>5. ASSUME NEW k \in Loads \ {l}
        PROVE  /\ load'[k].state = load[k].state /\ load'[k].view = load[k].view
               /\ load'[k].rows = load[k].rows /\ load'[k].clicked = load[k].clicked
               /\ page \notin Guarded => ~load'[k].fresh
    <2>1. load'[k] = q(k)
      BY <1>1
    <2>. QED
      BY <1>3, <2>1
  <1> HIDE DEF guarded
  <1>. QED
    BY <1>4, <1>5 DEF TypeInv, Addressed

\* An answer has the rows of the load's view as they are now.
LEMMA Served ==
    ASSUME TypeInv, NEW l \in Loads, Serve(l)
    PROVE  /\ load' \in [Loads -> Load]
           /\ load'[l].state = "answered" /\ load'[l].rows \in Rows
           /\ load'[l].rows.view = load[l].view /\ load'[l].rows.version = version
           /\ load'[l].view = load[l].view /\ load'[l].clicked = load[l].clicked
           /\ load'[l].fresh = load[l].fresh
           /\ \A k \in Loads \ {l} : load'[k] = load[k]
           /\ Addressed'
  <1> DEFINE there == load[l].view \in waiting
             rows == [view |-> load[l].view, version |-> version, waiting |-> there]
             r == [load[l] EXCEPT !.state = "answered", !.rows = rows]
  <1>1. load' = [load EXCEPT ![l] = r]
    BY DEF Serve, TypeInv, TypeOK
  <1>2. /\ load[l] \in Load /\ load[l].view \in Views /\ version \in 0..MaxVersion
        /\ load \in [Loads -> Load]
    BY DEF Serve, TypeInv, TypeOK, Addressed
  <1>3. rows \in Rows /\ rows.view = load[l].view /\ rows.version = version
    <2>1. there \in BOOLEAN
      OBVIOUS
    <2> HIDE DEF there
    <2>. QED
      BY <1>2, <2>1 DEF Rows
  <1>4. /\ r \in Load /\ r.state = "answered" /\ r.rows = rows
        /\ r.view = load[l].view /\ r.clicked = load[l].clicked /\ r.fresh = load[l].fresh
    <2>1. rows \in Rows /\ load[l] \in Load
      BY <1>2, <1>3
    <2> HIDE DEF rows
    <2>2. r \in Load /\ r.state = "answered" /\ r.rows = rows /\ r.view = load[l].view
      BY <2>1 DEF Load
    <2>3. r.clicked = load[l].clicked
      BY <2>1 DEF Load
    <2>4. r.fresh = load[l].fresh
      BY <2>1 DEF Load
    <2>. QED
      BY <2>2, <2>3, <2>4
  <1> HIDE DEF r, rows
  <1>. QED
    BY <1>1, <1>2, <1>3, <1>4 DEF TypeInv, Addressed

\* A load that is forgotten.
LEMMA Forgot ==
    ASSUME TypeInv, NEW l \in Loads, Forget(l)
    PROVE  /\ load' \in [Loads -> Load] /\ newest' \in Loads \cup {Nothing}
           /\ load'[l].state = "free"
           /\ \A k \in Loads \ {l} : load'[k] = load[k]
           /\ newest' = newest \/ newest' = Nothing
           /\ newest' # l \/ newest' = Nothing
           /\ Addressed'
  <1>1. FreeLoad \in Load /\ FreeLoad.state = "free"
    BY Idle DEF FreeLoad
  <1> HIDE DEF FreeLoad
  <1>. QED
    BY <1>1 DEF TypeInv, TypeOK, Forget, Addressed

\* After a load a handler is idle again, or a Generate that sleeps.
LEMMA Resumed ==
    ASSUME TypeInv, NEW l \in Loads, NEW over, Resume(l, over)
    PROVE  click' \in Click /\ Counted'
  <1>1. CASE click' = click
    BY <1>1 DEF TypeInv, TypeOK, Counted
  <1>2. CASE click' = IdleClick
    BY <1>2, Idle DEF Counted, IdleClick
  <1>3. CASE click.op # "act" /\ ~PollsSpent /\ click.load = l
             /\ click' = [click EXCEPT !.step = "sleeping", !.load = Nothing]
    <2>1. click \in Click
      BY DEF TypeInv, TypeOK
    <2>2. click.op = "generate" /\ click.polls > 0
      BY <1>3, <2>1 DEF Click, PollsSpent
    <2>3. click.step # "idle"
      BY <1>3, PageNothingAssumption DEF Loads, TypeInv, Counted
    <2>. QED
      BY <1>3, <2>1, <2>2, <2>3 DEF Click, Counted, TypeInv
  <1>. QED
    BY <1>1, <1>2, <1>3 DEF Resume

LEMMA NextTypeInv == TypeInv /\ [Next]_vars => TypeInv'
  <1> SUFFICES ASSUME TypeInv, [Next]_vars PROVE TypeInv'
    OBVIOUS
  <1>0. /\ page \in Pages /\ view \in Views /\ paused \in BOOLEAN /\ version \in 0..MaxVersion
        /\ waiting \in SUBSET Views /\ wrote \in 0..MaxVersion /\ shown \in Rows \cup {Nothing}
        /\ newest \in Loads \cup {Nothing} /\ load \in [Loads -> Load] /\ click \in Click
        /\ Counted /\ Addressed
    BY DEF TypeInv, TypeOK
  <1>00. click.step # "idle" => click.view \in Views
    BY <1>0 DEF Counted
  <1>1. ASSUME NEW v \in Views, ChangeView(v)
        PROVE  TypeInv'
    <2>1. PICK l \in Loads :
            /\ load' = [k \in Loads |-> IF k = l THEN Sent(l, v, FALSE)[l]
                                        ELSE [load[k] EXCEPT !.fresh = page \in Guarded]]
            /\ newest' = Numbered(l)
      BY <1>1 DEF ChangeView
    <2>2. load' \in [Loads -> Load] /\ Addressed'
      BY <2>1, ViewChanged
    <2>3. newest' \in Loads \cup {Nothing}
      BY <2>1, NumberedType
    <2>4. Counted'
      BY <1>0, <1>1 DEF ChangeView, Counted
    <2>. QED
      BY <1>0, <1>1, <2>2, <2>3, <2>4 DEF ChangeView, EmptiedRows, TypeInv, TypeOK
  <1>2. ASSUME Poll PROVE TypeInv'
    <2>1. PICK l \in Loads : SendLoad(l, view, FALSE)
      BY <1>2 DEF Poll, PolledView
    <2>2. load' \in [Loads -> Load] /\ newest' \in Loads \cup {Nothing} /\ Addressed'
      BY <1>0, <2>1, Send
    <2>3. Counted'
      BY <1>0, <1>2 DEF Poll, Counted
    <2>. QED
      BY <1>0, <1>2, <2>2, <2>3 DEF Poll, TypeInv, TypeOK
  <1>3. ASSUME TogglePause PROVE TypeInv'
    <2>1. paused' \in BOOLEAN
      BY <1>3 DEF TogglePause
    <2>2. Counted' /\ Addressed'
      BY <1>0, <1>3 DEF TogglePause, Counted, Addressed
    <2>. QED
      BY <1>0, <1>3, <2>1, <2>2 DEF TogglePause, TypeInv, TypeOK
  <1>4. ASSUME NEW l \in Loads, Serve(l)
        PROVE  TypeInv'
    <2>1. load' \in [Loads -> Load] /\ Addressed'
      BY <1>4, Served
    <2>2. Counted'
      BY <1>0, <1>4 DEF Serve, Counted
    <2>. QED
      BY <1>0, <1>4, <2>1, <2>2 DEF Serve, TypeInv, TypeOK
  <1>5. ASSUME NEW l \in Loads, Receive(l)
        PROVE  TypeInv'
    <2>1. /\ Forget(l)
          /\ UNCHANGED <<page, view, paused, version, waiting, wrote>>
          /\ load[l].state = "answered"
      BY <1>5 DEF Receive
    <2>2. PICK news : /\ shown' = IF Paints(l, news) THEN load[l].rows ELSE shown
                      /\ Resume(l, news)
      BY <1>5 DEF Receive
    <2>3. load[l].rows \in Rows
      BY <1>0, <2>1 DEF Addressed
    <2>4. shown' \in Rows \cup {Nothing}
      BY <1>0, <2>2, <2>3
    <2>5. load' \in [Loads -> Load] /\ newest' \in Loads \cup {Nothing} /\ Addressed'
      BY <2>1, Forgot
    <2>6. click' \in Click /\ Counted'
      BY <2>2, Resumed
    <2>. QED
      BY <1>0, <2>1, <2>4, <2>5, <2>6 DEF TypeInv, TypeOK
  <1>6. ASSUME NEW l \in Loads, LoadFails(l)
        PROVE  TypeInv'
    <2>1. /\ Forget(l) /\ Resume(l, page = "summary")
          /\ UNCHANGED <<page, view, paused, version, waiting, wrote, shown>>
      BY <1>6 DEF LoadFails
    <2>2. load' \in [Loads -> Load] /\ newest' \in Loads \cup {Nothing} /\ Addressed'
      BY <2>1, Forgot
    <2>3. click' \in Click /\ Counted'
      BY <2>1, Resumed
    <2>. QED
      BY <1>0, <2>1, <2>2, <2>3 DEF TypeInv, TypeOK
  <1>7. ASSUME NEW op \in {"act", "generate"}, StartClick(op)
        PROVE  TypeInv'
    <2>1. UNCHANGED <<page, view, paused, version, waiting, wrote, shown, newest, load>>
      BY <1>7 DEF StartClick
    <2>2. ShownVersion \in (0..MaxVersion) \cup {Nothing}
      BY <1>0 DEF ShownVersion, Rows
    <2> DEFINE seen == IF op = "generate" THEN ShownVersion ELSE Nothing
               left == IF op = "generate" THEN MaxPolls ELSE 0
    <2>3. /\ seen \in (0..MaxVersion) \cup {Nothing} /\ left \in 0..MaxPolls
          /\ op = "generate" => left > 0
      BY <2>2, PagePollsAssumption
    <2>4. click' = [step |-> "posting", op |-> op, view |-> view, polls |-> left,
                    before |-> seen, load |-> Nothing]
      BY <1>7 DEF StartClick, IdleClick
    <2>5. click' \in Click /\ Counted'
      <3> HIDE DEF seen, left
      <3>. QED
        BY <1>0, <2>3, <2>4 DEF Click, Counted
    <2>6. Addressed'
      BY <1>0, <2>1 DEF Addressed
    <2>. QED
      BY <1>0, <2>1, <2>5, <2>6 DEF TypeInv, TypeOK
  <1>8. ASSUME Changed, UNCHANGED <<page, view, paused, wrote, shown, newest, load>>,
               click' \in Click, Counted'
        PROVE  TypeInv'
    <2>1. version' \in 0..MaxVersion
      BY <1>0, <1>8, PageVersionAssumption DEF Changed
    <2>2. waiting' \in SUBSET Views
      BY <1>8 DEF Changed, Waits
    <2>3. Addressed'
      BY <1>0, <1>8 DEF Addressed
    <2>. QED
      BY <1>0, <1>8, <2>1, <2>2, <2>3 DEF TypeInv, TypeOK
  <1>9. ASSUME Change PROVE TypeInv'
    <2>1. Counted'
      BY <1>0, <1>9 DEF Change, Counted
    <2>. QED
      BY <1>0, <1>8, <1>9, <2>1 DEF Change
  <1>10. ASSUME UNCHANGED <<page, view, paused, version, waiting, wrote, shown, newest, load>>,
                click' \in Click, Counted'
         PROVE  TypeInv'
    <2>1. Addressed'
      BY <1>0, <1>10 DEF Addressed
    <2>. QED
      BY <1>0, <1>10, <2>1 DEF TypeInv, TypeOK
  <1>11. ASSUME Commit PROVE TypeInv'
    <2>1. click.step = "posting" /\ click' = [click EXCEPT !.step = "posted"]
      BY <1>11 DEF Commit
    <2>2. click' \in Click /\ Counted'
      BY <1>0, <2>1 DEF Click, Counted
    <2>. QED
      BY <1>8, <1>10, <1>11, <2>2 DEF Commit
  <1>12. ASSUME ActLoads PROVE TypeInv'
    <2>1. click.op = "act" /\ click.step = "posted" /\ wrote' = version
          /\ UNCHANGED <<page, view, paused, version, waiting, shown>>
      BY <1>12 DEF ActLoads
    <2>2. PICK l \in Loads : /\ SendLoad(l, click.view, TRUE)
                             /\ click' = [click EXCEPT !.step = "loading", !.load = l]
      BY <1>12 DEF ActLoads
    <2>3. load' \in [Loads -> Load] /\ newest' \in Loads \cup {Nothing} /\ Addressed'
      BY <1>00, <2>1, <2>2, Send
    <2>4. click' \in Click /\ Counted'
      BY <1>0, <2>1, <2>2 DEF Click, Counted
    <2>. QED
      BY <1>0, <2>1, <2>3, <2>4 DEF TypeInv, TypeOK
  <1>13. ASSUME GenerateSleeps PROVE TypeInv'
    <2>1. /\ click.op = "generate" /\ click.step = "posted" /\ click' = [click EXCEPT !.step = "sleeping"]
          /\ UNCHANGED <<page, view, paused, version, waiting, wrote, shown, newest, load>>
      BY <1>13 DEF GenerateSleeps
    <2>2. click' \in Click /\ Counted'
      BY <1>0, <2>1 DEF Click, Counted
    <2>. QED
      BY <1>10, <2>1, <2>2
  <1>14. ASSUME GenerateLoads PROVE TypeInv'
    <2>1. click.step = "sleeping" /\ UNCHANGED <<page, view, paused, version, waiting, wrote, shown>>
      BY <1>14 DEF GenerateLoads
    <2>2. PICK l \in Loads :
            /\ SendLoad(l, click.view, TRUE)
            /\ click' = [click EXCEPT !.step = "loading", !.load = l, !.polls = click.polls - 1]
      BY <1>14 DEF GenerateLoads
    <2>3. load' \in [Loads -> Load] /\ newest' \in Loads \cup {Nothing} /\ Addressed'
      BY <1>00, <2>1, <2>2, Send
    <2>4. click.polls \in 0..MaxPolls /\ click.polls > 0
      BY <1>0, <2>1 DEF Click, Counted
    <2>5. click.polls - 1 \in 0..MaxPolls
      BY <2>4, PagePollsAssumption
    <2>6. click' \in Click /\ Counted'
      BY <1>0, <2>1, <2>2, <2>5 DEF Click, Counted
    <2>. QED
      BY <1>0, <2>1, <2>3, <2>6 DEF TypeInv, TypeOK
  <1>15. ASSUME ClickFails PROVE TypeInv'
    <2>1. click' = IdleClick /\ UNCHANGED <<page, view, paused, version, waiting, wrote, shown, newest, load>>
      BY <1>15 DEF ClickFails
    <2>2. click' \in Click /\ Counted'
      BY <2>1, Idle DEF IdleClick, Counted
    <2>. QED
      BY <1>10, <2>1, <2>2
  <1>16. CASE UNCHANGED vars
    <2>1. Counted' /\ Addressed'
      BY <1>0, <1>16 DEF vars, Counted, Addressed
    <2>. QED
      BY <1>0, <1>16, <2>1 DEF vars, TypeInv, TypeOK
  <1>. QED
    BY <1>1, <1>2, <1>3, <1>4, <1>5, <1>6, <1>7, <1>9, <1>11, <1>12, <1>13, <1>14, <1>15, <1>16
    DEF Next, Network, Handler

\* Every variable of a page stays within its type: the loop of a Generate never
\* counts below zero and a handler never loads for no brand.
THEOREM PagesTypes == Spec => []TypeOK
  <1>1. Init => TypeInv
    BY InitTypeInv
  <1>2. TypeInv /\ [Next]_vars => TypeInv'
    BY NextTypeInv
  <1>3. TypeInv => TypeOK
    BY DEF TypeInv
  <1>. QED
    BY <1>1, <1>2, <1>3, PTL DEF Spec

-----------------------------------------------------------------------------
(* A page with a generation never goes back.                               *)

\* What is shown is no newer than the database, and the answer that would be
\* painted is no older than what is shown or than the page's last write.
InOrder ==
    page \in Guarded =>
        /\ wrote <= version
        /\ shown # Nothing => shown.version <= version
        /\ \A l \in Loads :
              (l = newest /\ load[l].state = "answered") =>
                 /\ load[l].rows.version \in wrote..version
                 /\ (shown # Nothing /\ shown.view = load[l].rows.view)
                       => load[l].rows.version >= shown.version

\* Only the newest load's answer is painted, and then there is no newest.
LEMMA GuardedReceive ==
    ASSUME TypeInv, page \in Guarded, NEW l \in Loads, Receive(l)
    PROVE  \/ shown' = shown
           \/ l = newest /\ load[l].state = "answered" /\ shown' = load[l].rows /\ newest' = Nothing
  <1>1. PICK news \in BOOLEAN : shown' = IF Paints(l, news) THEN load[l].rows ELSE shown
    BY DEF Receive
  <1>2. Paints(l, news) => l = newest
    <2>1. page # "summary"
      BY DEF Guarded
    <2>. QED
      BY <2>1 DEF Paints, Current
  <1>3. load[l].state = "answered" /\ newest' = IF l = newest THEN Nothing ELSE newest
    BY DEF Receive, Forget
  <1>. QED
    BY <1>1, <1>2, <1>3

\* A load that has just been sent has no answer.
LEMMA SentKeepsOrder ==
    ASSUME TypeInv, InOrder, NEW l \in Loads, NEW v \in Views, NEW clicked \in BOOLEAN,
           SendLoad(l, v, clicked), UNCHANGED <<page, version, shown>>, wrote' \in {wrote, version}
    PROVE  InOrder'
  <1>1. newest' = Numbered(l) /\ load'[l].state = "sent"
    BY Send
  <1>2. page \in Guarded => newest' = l
    BY <1>1 DEF Numbered
  <1>3. version \in Nat /\ wrote \in Nat
    BY PageVersionAssumption DEF TypeInv, TypeOK
  <1>. QED
    BY <1>1, <1>2, <1>3 DEF InOrder

\* A page remains of its kind.
LEMMA PageStays == [Next]_vars => page' = page
  <1>1. \A l \in Loads : Network(l) => page' = page
    BY DEF Network, Serve, Receive, LoadFails
  <1>2. Handler => page' = page
    BY DEF Handler, Commit, ActLoads, GenerateSleeps, GenerateLoads, ClickFails
  <1>3. \A v \in Views : ChangeView(v) => page' = page
    BY DEF ChangeView
  <1>4. \A op \in {"act", "generate"} : StartClick(op) => page' = page
    BY DEF StartClick
  <1>. QED
    BY <1>1, <1>2, <1>3, <1>4 DEF Next, Poll, TogglePause, Change, vars

LEMMA NextInOrder == TypeInv /\ InOrder /\ [Next]_vars => InOrder'
  <1> SUFFICES ASSUME TypeInv, InOrder, [Next]_vars, page \in Guarded PROVE InOrder'
    BY PageStays DEF InOrder
  <1>0. /\ version \in Nat /\ wrote \in Nat /\ view \in Views
        /\ click.step # "idle" => click.view \in Views
        /\ shown # Nothing => shown \in Rows /\ shown.version \in Nat
        /\ Nothing \notin Loads
    BY PageVersionAssumption, PageNothingAssumption DEF TypeInv, TypeOK, Counted, Rows, Loads
  <1>1. ASSUME NEW v \in Views, ChangeView(v)
        PROVE  InOrder'
    <2>1. PICK l \in Loads :
            /\ load' = [k \in Loads |-> IF k = l THEN Sent(l, v, FALSE)[l]
                                        ELSE [load[k] EXCEPT !.fresh = page \in Guarded]]
            /\ newest' = Numbered(l)
      BY <1>1 DEF ChangeView
    <2>2. newest' = l /\ load'[l].state = "sent"
      BY <2>1, ViewChanged DEF Numbered
    <2>3. shown' = Nothing /\ UNCHANGED <<page, version, wrote>>
      BY <1>1 DEF ChangeView, EmptiedRows, Guarded
    <2>. QED
      BY <2>2, <2>3 DEF InOrder
  <1>2. ASSUME Poll PROVE InOrder'
    <2>1. PICK l \in Loads : SendLoad(l, view, FALSE)
      BY <1>2 DEF Poll, PolledView
    <2>2. UNCHANGED <<page, version, wrote, shown>>
      BY <1>2 DEF Poll
    <2>. QED
      BY <1>0, <2>1, <2>2, SentKeepsOrder
  <1>3. ASSUME UNCHANGED <<page, version, wrote, shown, newest, load>>
        PROVE  InOrder'
    BY <1>3 DEF InOrder
  <1>4. ASSUME NEW l \in Loads, Serve(l)
        PROVE  InOrder'
    <2>1. /\ load'[l].rows.version = version
          /\ \A k \in Loads \ {l} : load'[k] = load[k]
      BY <1>4, Served
    <2>2. UNCHANGED <<page, version, wrote, shown, newest>>
      BY <1>4 DEF Serve
    <2>. QED
      BY <1>0, <2>1, <2>2 DEF InOrder
  <1>5. ASSUME NEW l \in Loads, Receive(l)
        PROVE  InOrder'
    <2>1. Forget(l) /\ UNCHANGED <<page, version, wrote>>
      BY <1>5 DEF Receive
    <2>2. /\ load'[l].state = "free"
          /\ \A k \in Loads \ {l} : load'[k] = load[k]
          /\ newest' = newest \/ newest' = Nothing
      BY <2>1, Forgot
    <2>3. CASE shown' = shown
      BY <2>1, <2>2, <2>3, <1>0 DEF InOrder
    <2>4. CASE /\ l = newest /\ load[l].state = "answered"
               /\ shown' = load[l].rows /\ newest' = Nothing
      <3>1. load[l].rows.version \in wrote..version
        BY <2>4 DEF InOrder
      <3>. QED
        BY <1>0, <2>1, <2>4, <3>1 DEF InOrder
    <2>. QED
      BY <1>5, <2>3, <2>4, GuardedReceive
  <1>6. ASSUME NEW l \in Loads, LoadFails(l)
        PROVE  InOrder'
    <2>1. Forget(l) /\ UNCHANGED <<page, version, wrote, shown>>
      BY <1>6 DEF LoadFails
    <2>2. /\ load'[l].state = "free"
          /\ \A k \in Loads \ {l} : load'[k] = load[k]
          /\ newest' = newest \/ newest' = Nothing
      BY <2>1, Forgot
    <2>. QED
      BY <1>0, <2>1, <2>2 DEF InOrder
  <1>7. ASSUME Changed, UNCHANGED <<page, wrote, shown, newest, load>>
        PROVE  InOrder'
    <2>1. version' = version + 1
      BY <1>7 DEF Changed
    <2>. QED
      BY <1>0, <1>7, <2>1 DEF InOrder
  <1>8. ASSUME Commit PROVE InOrder'
    BY <1>3, <1>7, <1>8 DEF Commit
  <1>9. ASSUME ActLoads PROVE InOrder'
    <2>1. click.step = "posted" /\ wrote' = version /\ UNCHANGED <<page, version, shown>>
      BY <1>9 DEF ActLoads
    <2>2. PICK l \in Loads : SendLoad(l, click.view, TRUE)
      BY <1>9 DEF ActLoads
    <2>. QED
      BY <1>0, <2>1, <2>2, SentKeepsOrder
  <1>10. ASSUME GenerateLoads PROVE InOrder'
    <2>1. click.step = "sleeping" /\ UNCHANGED <<page, version, wrote, shown>>
      BY <1>10 DEF GenerateLoads
    <2>2. PICK l \in Loads : SendLoad(l, click.view, TRUE)
      BY <1>10 DEF GenerateLoads
    <2>. QED
      BY <1>0, <2>1, <2>2, SentKeepsOrder
  <1>11. CASE UNCHANGED vars
    BY <1>3, <1>11 DEF vars
  <1>. QED
    BY <1>1, <1>2, <1>3, <1>4, <1>5, <1>6, <1>7, <1>8, <1>9, <1>10, <1>11
    DEF Next, Network, Handler, TogglePause, StartClick, Change, GenerateSleeps, ClickFails

\* Inbox, Content, Ideas and Insights never replace the rows of a view by an older
\* state of it, nor paint rows from before a write they have been told of.
THEOREM PagesNeverGoBack == Spec => NeverGoesBack
  <1> DEFINE Onward == shown' # shown /\ shown' # Nothing /\ page \in Guarded =>
                         /\ shown'.version >= wrote
                         /\ shown # Nothing /\ shown'.view = shown.view => shown'.version >= shown.version
  <1>1. Init => TypeInv /\ InOrder
    <2>1. ASSUME Init PROVE InOrder
      <3>1. \A l \in Loads : load[l].state # "answered"
        BY <2>1 DEF Init, FreeLoad
      <3>2. wrote = 0 /\ version = 0 /\ shown = Nothing
        BY <2>1 DEF Init
      <3>. QED
        BY <3>1, <3>2 DEF InOrder
    <2>. QED
      BY <2>1, InitTypeInv
  <1>2. TypeInv /\ InOrder /\ [Next]_vars => (TypeInv /\ InOrder)'
    BY NextTypeInv, NextInOrder
  <1>3. TypeInv /\ InOrder /\ [Next]_vars => [Onward]_vars
    <2> SUFFICES ASSUME TypeInv, InOrder, [Next]_vars, shown' # shown, shown' # Nothing, page \in Guarded
                 PROVE  /\ shown'.version >= wrote
                        /\ shown # Nothing /\ shown'.view = shown.view => shown'.version >= shown.version
      BY DEF vars
    <2>1. PICK l \in Loads : Receive(l)
      BY DEF Next, Network, Handler, ChangeView, EmptiedRows, Guarded, Poll, TogglePause, Serve, LoadFails,
             StartClick, Change, Commit, ActLoads, GenerateSleeps, GenerateLoads, ClickFails, vars
    <2>2. l = newest /\ load[l].state = "answered" /\ shown' = load[l].rows
      BY <2>1, GuardedReceive
    <2>3. wrote \in Nat /\ version \in Nat
      BY PageVersionAssumption DEF TypeInv, TypeOK
    <2>. QED
      BY <2>2, <2>3 DEF InOrder
  <1>. QED
    BY <1>1, <1>2, <1>3, PTL DEF Spec, NeverGoesBack

-----------------------------------------------------------------------------
(* Whose rows a page shows.                                                *)

\* An answer is for the view its load asked for, and a load that could still be
\* painted asked for the page's view unless a click's handler sent it.
OwnView ==
    \A l \in Loads :
        /\ load[l].state = "answered" => load[l].rows.view = load[l].view
        /\ (load[l].state # "free" /\ ~load[l].clicked /\ Matters(l)) => load[l].view = view

LEMMA NextOwnView == TypeInv /\ OwnView /\ [Next]_vars => OwnView'
  <1> SUFFICES ASSUME TypeInv, OwnView, [Next]_vars PROVE OwnView'
    OBVIOUS
  <1>0. /\ view \in Views /\ (click.step # "idle" => click.view \in Views)
        /\ newest \in Loads \cup {Nothing} /\ Nothing \notin Loads
    BY PageNothingAssumption DEF TypeInv, TypeOK, Counted, Loads
  <1>1. ASSUME NEW v \in Views, ChangeView(v)
        PROVE  OwnView'
    <2>1. PICK l \in Loads :
            /\ load' = [k \in Loads |-> IF k = l THEN Sent(l, v, FALSE)[l]
                                        ELSE [load[k] EXCEPT !.fresh = page \in Guarded]]
            /\ newest' = Numbered(l)
      BY <1>1 DEF ChangeView
    <2>2. /\ load'[l].state = "sent" /\ load'[l].view = v
          /\ \A k \in Loads \ {l} :
                /\ load'[k].state = load[k].state /\ load'[k].view = load[k].view
                /\ load'[k].rows = load[k].rows /\ load'[k].clicked = load[k].clicked
                /\ page \notin Guarded => ~load'[k].fresh
      BY <2>1, ViewChanged
    <2>3. view' = v /\ page' = page
      BY <1>1 DEF ChangeView
    <2>4. \A k \in Loads \ {l} : ~Matters(k)'
      BY <2>1, <2>2, <2>3 DEF Matters, Numbered
    <2>. QED
      BY <2>2, <2>3, <2>4 DEF OwnView
  <1>2. ASSUME NEW l \in Loads, NEW v \in Views, NEW clicked \in BOOLEAN, SendLoad(l, v, clicked),
               UNCHANGED <<page, view>>, ~clicked => v = view
        PROVE  OwnView'
    <2>1. /\ newest' = Numbered(l)
          /\ load'[l].state = "sent" /\ load'[l].view = v /\ load'[l].clicked = clicked
          /\ \A k \in Loads \ {l} : load'[k] = load[k]
      BY <1>2, Send
    <2>2. \A k \in Loads \ {l} : Matters(k)' => Matters(k)
      BY <1>2, <2>1 DEF Matters, Numbered
    <2>. QED
      BY <1>2, <2>1, <2>2 DEF OwnView
  <1>3. ASSUME Poll PROVE OwnView'
    <2>1. PICK l \in Loads : SendLoad(l, view, FALSE)
      BY <1>3 DEF Poll, PolledView
    <2>. QED
      BY <1>0, <1>2, <1>3, <2>1 DEF Poll
  <1>4. ASSUME UNCHANGED <<page, view, newest, load>>
        PROVE  OwnView'
    BY <1>4 DEF OwnView, Matters
  <1>5. ASSUME NEW l \in Loads, Serve(l)
        PROVE  OwnView'
    <2>1. /\ load'[l].rows.view = load[l].view /\ load'[l].view = load[l].view
          /\ load'[l].clicked = load[l].clicked /\ load'[l].fresh = load[l].fresh
          /\ \A k \in Loads \ {l} : load'[k] = load[k]
      BY <1>5, Served
    <2>2. UNCHANGED <<page, view, newest>> /\ load[l].state = "sent"
      BY <1>5 DEF Serve
    <2>3. \A k \in Loads : Matters(k)' => Matters(k)
      BY <2>1, <2>2 DEF Matters
    <2>. QED
      BY <2>1, <2>2, <2>3 DEF OwnView
  <1>6. ASSUME NEW l \in Loads, Forget(l), UNCHANGED <<page, view>>
        PROVE  OwnView'
    <2>1. /\ load'[l].state = "free"
          /\ \A k \in Loads \ {l} : load'[k] = load[k]
          /\ newest' = newest \/ newest' = Nothing
      BY <1>6, Forgot
    <2>2. \A k \in Loads \ {l} : Matters(k)' => Matters(k)
      BY <1>0, <1>6, <2>1 DEF Matters
    <2>. QED
      BY <1>6, <2>1, <2>2 DEF OwnView
  <1>7. ASSUME NEW l \in Loads, Receive(l) \/ LoadFails(l)
        PROVE  OwnView'
    BY <1>6, <1>7 DEF Receive, LoadFails
  <1>8. ASSUME ActLoads \/ GenerateLoads PROVE OwnView'
    <2>1. click.step # "idle" /\ UNCHANGED <<page, view>>
      BY <1>8 DEF ActLoads, GenerateLoads
    <2>2. PICK l \in Loads : SendLoad(l, click.view, TRUE)
      BY <1>8 DEF ActLoads, GenerateLoads
    <2>. QED
      BY <1>0, <1>2, <2>1, <2>2
  <1>9. CASE UNCHANGED vars
    BY <1>4, <1>9 DEF vars
  <1>. QED
    BY <1>1, <1>3, <1>4, <1>5, <1>7, <1>8, <1>9
    DEF Next, Network, Handler, TogglePause, StartClick, Change, Commit, GenerateSleeps, ClickFails

\* Rows of another brand or filter are painted only by the load of a click that
\* was made under it; on the sidebar, where there are no clicks, they are the totals
\* that were there when the brand changed.
THEOREM OtherRowsAreExplained == Spec => OtherRowsNeedAnOldClick
  <1> DEFINE Explained ==
               shown' # Nothing /\ shown'.view # view' /\ <<shown, view>>' # <<shown, view>> =>
                 \/ \E l \in Loads : load[l].clicked /\ load[l].rows = shown' /\ load'[l] = FreeLoad
                 \/ page = "sidebar" /\ view' # view /\ shown' = shown
  <1>1. Init => TypeInv /\ OwnView
    <2>1. ASSUME Init PROVE OwnView
      <3> DEFINE first == [FreeLoad EXCEPT !.state = "sent", !.view = view, !.fresh = TRUE]
      <3>1. view \in Views /\ load = [l \in Loads |-> IF l = 1 THEN first ELSE FreeLoad]
        BY <2>1 DEF Init
      <3>2. first.state = "sent" /\ first.view = view
        <4>1. FreeLoad \in Load
          BY Idle
        <4>. QED
          BY <3>1, <4>1 DEF Load
      <3>3. FreeLoad.state = "free"
        BY DEF FreeLoad
      <3> HIDE DEF first
      <3>. QED
        BY <3>1, <3>2, <3>3 DEF OwnView
    <2>. QED
      BY <2>1, InitTypeInv
  <1>2. TypeInv /\ OwnView /\ [Next]_vars => (TypeInv /\ OwnView)'
    BY NextTypeInv, NextOwnView
  <1>3. TypeInv /\ OwnView /\ [Next]_vars => [Explained]_vars
    <2> SUFFICES ASSUME TypeInv, OwnView, [Next]_vars, shown' # Nothing, shown'.view # view',
                        <<shown, view>>' # <<shown, view>>
                 PROVE  Explained
      BY DEF vars
    <2>0. CASE \E v \in Views : ChangeView(v)
      <3>1. view' # view /\ shown' = EmptiedRows
        BY <2>0 DEF ChangeView
      <3>. QED
        BY <3>1 DEF EmptiedRows
    <2> SUFFICES ASSUME ~\E v \in Views : ChangeView(v)
                 PROVE  \E l \in Loads : load[l].clicked /\ load[l].rows = shown' /\ load'[l] = FreeLoad
      BY <2>0
    <2>1. PICK l \in Loads : Receive(l)
      BY DEF Next, Network, Handler, Poll, TogglePause, Serve, LoadFails,
             StartClick, Change, Commit, ActLoads, GenerateSleeps, GenerateLoads, ClickFails, vars
    <2>2. /\ load[l].state = "answered" /\ view' = view /\ load' = [load EXCEPT ![l] = FreeLoad]
      BY <2>1 DEF Receive, Forget
    <2>3. PICK news \in BOOLEAN : shown' = IF Paints(l, news) THEN load[l].rows ELSE shown
      BY <2>1 DEF Receive
    <2>4. Paints(l, news) /\ shown' = load[l].rows
      BY <2>2, <2>3
    <2>5. load[l].clicked
      <3> SUFFICES ASSUME ~load[l].clicked PROVE FALSE
        OBVIOUS
      <3>1. Matters(l)
        BY <2>4 DEF Paints, Current, Matters, Guarded
      <3>. QED
        BY <2>2, <2>4, <3>1 DEF OwnView
    <2>. QED
      BY <2>2, <2>4, <2>5 DEF TypeInv, TypeOK
  <1>. QED
    BY <1>1, <1>2, <1>3, PTL DEF Spec, OtherRowsNeedAnOldClick
=============================================================================
