---------------------------- MODULE InboxStream ----------------------------
(***************************************************************************)
(* The inbox of one user on one frontend process: the bus that passes       *)
(* bot.processed events on to open event streams, the streams themselves,   *)
(* and what each inbox page shows.  A page reads the list, then opens its   *)
(* stream; each event makes it read the list again.  The frontend's queue   *)
(* is auto-deleted: it exists only while the process consumes from it.      *)
(***************************************************************************)
EXTENDS Naturals, FiniteSets

CONSTANTS Rows,      \* notification rows of the user
          CreatedAt, \* of each row; the rows of one cycle share it
          Limit,     \* rows that one read of the list returns
          Tabs       \* inbox pages, each with one stream

ASSUME TabsAssumption == IsFiniteSet(Tabs)
ASSUME RowsAssumption == CreatedAt \in [Rows -> Nat] /\ Limit \in Nat \ {0}

VARIABLES
    row,       \* the collection: "none", "unread" or "read" for each row
    unsaid,    \* rows inserted whose event is not published yet
    queue,     \* events in the frontend's queue
    linked,    \* whether the process consumes from the broker
    cur,       \* the listener set the bus maps the user to, 0 when none
    members,   \* the listeners in each listener set ever handed out
    tab        \* the pages

inboxVars == <<row, unsaid, queue, linked, cur, members, tab>>

SetIds == 1..(Cardinality(Tabs) + 1)
NoRows == [r \in Rows |-> "none"]
Closed == [phase |-> "closed", set |-> 0, list |-> NoRows, fetch |-> "no",
           answer |-> NoRows, mark |-> "no", target |-> {}, gap |-> FALSE]

\* The phases of a tab: "closed", "loading", "auth", "on"; in "left" and
\* "ghost" the page is gone and its handler has not noticed.

InboxInit ==
    /\ row = NoRows /\ unsaid = {} /\ queue = 0 /\ linked = FALSE
    /\ cur = 0 /\ members = [i \in SetIds |-> {}]
    /\ tab = [t \in Tabs |-> Closed]

In(phases) == {t \in Tabs : tab[t].phase \in phases}
Listening == IF cur = 0 THEN {} ELSE members[cur]
\* A page whose last event was for a list it cannot have read yet.
WithGap(T) == [t \in Tabs |-> IF t \in T THEN [tab[t] EXCEPT !.gap = TRUE] ELSE tab[t]]
Deaf == In({"loading", "auth", "on"}) \ Listening

-----------------------------------------------------------------------------
\* A bot service inserts a row, later announces it; without a queue the
\* exchange drops the event.
InsertRow(r) ==
    /\ row[r] = "none"
    /\ row' = [row EXCEPT ![r] = "unread"]
    /\ unsaid' = unsaid \cup {r}
    /\ UNCHANGED <<queue, linked, cur, members, tab>>

Announce ==
    /\ unsaid # {} /\ unsaid' = {}
    /\ queue' = IF linked THEN queue + 1 ELSE queue
    /\ tab' = IF linked THEN tab ELSE WithGap(In({"loading", "auth", "on"}))
    /\ UNCHANGED <<row, linked, cur, members>>

\* start: connect, declare the queue, consume; it is tried again for ever.
Link ==
    /\ ~linked /\ linked' = TRUE
    /\ UNCHANGED <<row, unsaid, queue, cur, members, tab>>

Unlink ==
    /\ linked /\ linked' = FALSE
    /\ queue' = 0
    /\ tab' = IF queue > 0 THEN WithGap(In({"loading", "auth", "on"})) ELSE tab
    /\ UNCHANGED <<row, unsaid, cur, members>>

\* Mutant: the loop over the listeners ends with the first.
FirstOf(S) == IF S = {} THEN {} ELSE {CHOOSE t \in S : TRUE}

Told(S) == S

\* publish calls each listener, which writes to its response; an open page
\* answers inbox.refresh with a new read, dropping the one in flight.
Deliver ==
    /\ queue > 0 /\ linked
    /\ queue' = queue - 1
    /\ tab' = [t \in Tabs |->
         IF t \in Told(Listening) /\ tab[t].phase = "on"
         THEN [tab[t] EXCEPT !.fetch = "sent", !.answer = NoRows]
         ELSE WithGap(Deaf)[t]]
    /\ UNCHANGED <<row, unsaid, linked, cur, members>>

-----------------------------------------------------------------------------
OpenPage(t) ==
    /\ tab[t].phase = "closed"
    /\ tab' = [tab EXCEPT ![t] = [Closed EXCEPT !.phase = "loading", !.fetch = "sent"]]
    /\ UNCHANGED <<row, unsaid, queue, linked, cur, members>>

Shown(list) == {r \in Rows : list[r] # "none"}

\* P: the first Limit rows of S, newest first; among equals any.
IsPage(P, S) ==
    /\ IF Cardinality(S) > Limit THEN Cardinality(P) = Limit ELSE P = S
    /\ \A p \in P, q \in S \ P : CreatedAt[p] >= CreatedAt[q]

\* notifications.get reads the rows; the answer is on its way.
ReadList(t) ==
    /\ tab[t].fetch = "sent"
    /\ \E P \in SUBSET Shown(row) :
        /\ IsPage(P, Shown(row))
        /\ tab' = [tab EXCEPT ![t].fetch = "read",
                     ![t].answer = [r \in Rows |-> IF r \in P THEN row[r] ELSE "none"]]
    /\ UNCHANGED <<row, unsaid, queue, linked, cur, members>>

\* The first answer mounts the page, which opens its stream.
ShowList(t) ==
    /\ tab[t].fetch = "read"
    /\ tab' = [tab EXCEPT ![t].fetch = "no", ![t].answer = NoRows,
                          ![t].list = tab[t].answer,
                          ![t].phase = IF @ = "loading" THEN "auth" ELSE @]
    /\ UNCHANGED <<row, unsaid, queue, linked, cur, members>>

\* Listener sets no stream holds on to; which of them is used is all one.
Unused == {i \in SetIds : i # cur /\ members[i] = {} /\ \A t \in Tabs : tab[t].set # i}

\* Mutant: subscribe always makes a new listener set.
FreshSet == {CHOOSE i \in Unused : TRUE}

SetForUser == IF cur = 0 THEN FreshSet ELSE {cur}

\* sse/inbox.get after requireUserIdHex: subscribe, then wait for the close.
Subscribe(t) ==
    /\ tab[t].phase \in {"auth", "left"}
    /\ \E i \in SetForUser :
        /\ members' = [members EXCEPT ![i] = @ \cup {t}]
        /\ cur' = i
        /\ tab' = [tab EXCEPT ![t].set = i,
                     ![t].phase = IF @ = "auth" THEN "on" ELSE "ghost"]
    /\ UNCHANGED <<row, unsaid, queue, linked>>

\* The function subscribe returned, called for aborted and again for close.
Unsubscribe(t) ==
    LET i == tab[t].set IN
    /\ members' = [members EXCEPT ![i] = @ \ {t}]
    /\ cur' = IF members[i] \subseteq {t} THEN 0 ELSE cur

\* A page that leaves before its stream's close handlers are registered
\* leaves a listener behind.
ClosePage(t) ==
    /\ tab[t].phase \in {"loading", "auth", "on"}
    /\ IF tab[t].phase = "on" THEN Unsubscribe(t) ELSE UNCHANGED <<cur, members>>
    /\ tab' = [tab EXCEPT ![t] =
         IF @.phase = "auth" THEN [Closed EXCEPT !.phase = "left"] ELSE Closed]
    /\ UNCHANGED <<row, unsaid, queue, linked>>

\* The process restarts; EventSource connects again, the list is not read.
Restart ==
    /\ linked' = FALSE /\ queue' = 0
    /\ cur' = 0 /\ members' = [i \in SetIds |-> {}]
    /\ LET seen == IF queue > 0 THEN WithGap(In({"loading", "auth", "on"})) ELSE tab IN
       tab' = [t \in Tabs |->
         CASE tab[t].phase = "on" -> [seen[t] EXCEPT !.phase = "auth", !.set = 0]
           [] tab[t].phase \in {"left", "ghost"} -> Closed
           [] OTHER -> seen[t]]
    /\ UNCHANGED <<row, unsaid>>

-----------------------------------------------------------------------------
\* onSelect: the row is marked in the list only when the PATCH has succeeded.
Select(t, r) ==
    /\ tab[t].phase \in {"auth", "on"} /\ tab[t].mark = "no"
    /\ tab[t].list[r] = "unread"
    /\ tab' = [tab EXCEPT ![t].mark = "patch", ![t].target = {r}]
    /\ UNCHANGED <<row, unsaid, queue, linked, cur, members>>

SelectAll(t) ==
    /\ tab[t].phase \in {"auth", "on"} /\ tab[t].mark = "no"
    /\ \E r \in Rows : tab[t].list[r] = "unread"
    /\ tab' = [tab EXCEPT ![t].mark = "all"]
    /\ UNCHANGED <<row, unsaid, queue, linked, cur, members>>

Marked(f, S) == [r \in Rows |-> IF r \in S /\ f[r] = "unread" THEN "read" ELSE f[r]]

\* read.patch and read-all.post, or a request that fails.
MarkRead(t) ==
    /\ tab[t].mark \in {"patch", "all"}
    /\ row' = Marked(row, IF tab[t].mark = "patch" THEN tab[t].target ELSE Rows)
    /\ tab' = [tab EXCEPT ![t].mark = IF @ = "patch" THEN "patched" ELSE "alldone"]
    /\ UNCHANGED <<unsaid, queue, linked, cur, members>>

MarkFails(t) ==
    /\ tab[t].mark \in {"patch", "all"}
    /\ tab' = [tab EXCEPT ![t].mark = "no", ![t].target = {}]
    /\ UNCHANGED <<row, unsaid, queue, linked, cur, members>>

\* Mutant: read-all marks the whole list instead of reading it again.
ShowsRead(t) == Rows

ShownRead(t) == tab[t].target

MarkShown(t) ==
    /\ tab[t].mark \in {"patched", "alldone"}
    /\ LET done == [tab[t] EXCEPT !.mark = "no", !.target = {},
                                  !.list = Marked(@, ShownRead(t))] IN
       tab' = [tab EXCEPT ![t] =
         IF tab[t].mark = "patched" THEN done
         ELSE [done EXCEPT !.fetch = "sent", !.answer = NoRows]]
    /\ UNCHANGED <<row, unsaid, queue, linked, cur, members>>

InboxNext ==
    \/ \E r \in Rows : InsertRow(r)
    \/ Announce \/ Link \/ Unlink \/ Deliver \/ Restart
    \/ \E t \in Tabs :
        \/ OpenPage(t) \/ ReadList(t) \/ ShowList(t) \/ Subscribe(t) \/ ClosePage(t)
        \/ SelectAll(t) \/ MarkRead(t) \/ MarkFails(t) \/ MarkShown(t)
        \/ \E r \in Rows : Select(t, r)

InboxSpec == InboxInit /\ [][InboxNext]_inboxVars

-----------------------------------------------------------------------------
\* The bus holds the streams of the pages that listen, and of no page that is
\* gone, except those that left while their session was being looked up.
BusHoldsOpenStreams ==
    /\ Listening = In({"on", "ghost"})
    /\ \A i \in SetIds \ {cur} : members[i] = {}

\* A list shows a row, or is full with rows that are as new.
AccountsFor(list, r) ==
    \/ list[r] # "none"
    \/ /\ Cardinality(Shown(list)) = Limit
       /\ \A q \in Shown(list) : CreatedAt[q] >= CreatedAt[r]

\* A page at rest shows every row that was announced but for those older than
\* the hundred it shows, unless an event came by while its stream was not open
\* or the process was cut off from the broker.
ListIsFresh ==
    \A t \in In({"on"}) :
        tab[t].fetch = "no" /\ ~tab[t].gap /\ queue = 0
        => \A r \in Rows \ unsaid : row[r] # "none" => AccountsFor(tab[t].list, r)

\* No page shows a row as read that is unread in the collection, in whatever
\* order its reads of the list and its marks are answered.
ReadMarksAreReal ==
    \A t \in Tabs, r \in Rows : tab[t].list[r] = "read" => row[r] = "read"
=============================================================================
