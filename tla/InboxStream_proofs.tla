------------------------- MODULE InboxStream_proofs -------------------------
(***************************************************************************)
(* Proofs about InboxStream, for any rows and any finite set of pages.      *)
(***************************************************************************)
EXTENDS InboxStream, FiniteSetTheorems, TLAPS

Lists == [Rows -> {"none", "unread", "read"}]
Pages == [phase : {"closed", "loading", "auth", "on", "left", "ghost"}, set : SetIds \cup {0},
          list : Lists, fetch : {"no", "sent", "read"}, answer : Lists,
          mark : {"no", "patch", "all", "patched", "alldone"}, target : SUBSET Rows,
          gap : BOOLEAN]

InboxType ==
    /\ row \in Lists
    /\ linked \in BOOLEAN
    /\ cur \in SetIds \cup {0}
    /\ members \in [SetIds -> SUBSET Tabs]
    /\ tab \in [Tabs -> Pages]

(* What a page knows of the rows: nothing that is not there, nothing read   *)
(* that is not; and what it was told is marked.                             *)
ShowsNoMore(f) == \A r \in Rows : /\ f[r] # "none" => row[r] # "none"
                                  /\ f[r] = "read" => row[r] = "read"

PagesKnow ==
    \A t \in Tabs :
        /\ ShowsNoMore(tab[t].list) /\ ShowsNoMore(tab[t].answer)
        /\ \A r \in tab[t].target : row[r] # "none"
        /\ tab[t].mark = "patched" => \A r \in tab[t].target : row[r] = "read"
        /\ tab[t].mark \notin {"patch", "patched"} => tab[t].target = {}

ReadInv == InboxType /\ PagesKnow


LEMMA ClosedTyped == Closed \in Pages
BY DEF Closed, NoRows, Lists, Pages

LEMMA TypedStart == InboxInit => InboxType
BY ClosedTyped DEF InboxInit, InboxType, NoRows, Lists

(* A page that missed an event is as it was, but for the mark of that.      *)
Missed(p) == [p EXCEPT !.gap = TRUE]

LEMMA GapTyped ==
    ASSUME InboxType, NEW T
    PROVE  /\ WithGap(T) \in [Tabs -> Pages]
           /\ \A t \in Tabs : WithGap(T)[t] \in {tab[t], Missed(tab[t])}
<1>1. \A t \in Tabs : tab[t] \in Pages /\ Missed(tab[t]) \in Pages
    BY DEF InboxType, Pages, Missed
<1>2. WithGap(T) = [t \in Tabs |-> IF t \in T THEN Missed(tab[t]) ELSE tab[t]]
    BY DEF WithGap, Missed
<1>3. QED
    BY <1>1, <1>2

(* What of a page a step leaves alone that only tells it of a gap.          *)
Alike(p, q) ==
    /\ p.phase = q.phase /\ p.set = q.set /\ p.list = q.list /\ p.fetch = q.fetch
    /\ p.answer = q.answer /\ p.mark = q.mark /\ p.target = q.target

LEMMA GapAlike ==
    ASSUME InboxType, NEW T, NEW t \in Tabs
    PROVE  WithGap(T)[t] \in Pages /\ Alike(WithGap(T)[t], tab[t])
<1>1. tab[t] \in Pages
    BY DEF InboxType
<1>2. Alike(tab[t], tab[t]) /\ Alike(Missed(tab[t]), tab[t])
    BY <1>1 DEF Pages, Alike, Missed
<1>3. QED
    BY <1>2, GapTyped

LEMMA MarkedTyped ==
    ASSUME NEW f \in Lists, NEW S
    PROVE  /\ Marked(f, S) \in Lists
           /\ \A r \in Rows : /\ Marked(f, S)[r] = "none" <=> f[r] = "none"
                              /\ f[r] = "read" => Marked(f, S)[r] = "read"
                              /\ r \in S /\ f[r] # "none" => Marked(f, S)[r] = "read"
                              /\ Marked(f, S)[r] = "read" => f[r] = "read" \/ r \in S
BY DEF Lists, Marked
-----------------------------------------------------------------------------
(* The rows only ever come and get read.                                    *)
RowsAdvance ==
    /\ row' \in Lists
    /\ \A r \in Rows : /\ row[r] # "none" => row'[r] # "none"
                       /\ row[r] = "read" => row'[r] = "read"

(* A step on one page, and one on the pages that changes no list.           *)
OnePage(t, p) ==
    /\ tab' = [tab EXCEPT ![t] = p]
    /\ p \in Pages

KnowsRows(p) ==
    /\ \A r \in Rows : /\ p.list[r] # "none" => row'[r] # "none"
                       /\ p.list[r] = "read" => row'[r] = "read"
                       /\ p.answer[r] # "none" => row'[r] # "none"
                       /\ p.answer[r] = "read" => row'[r] = "read"
    /\ \A r \in p.target : row'[r] # "none"
    /\ p.mark = "patched" => \A r \in p.target : row'[r] = "read"
    /\ p.mark \notin {"patch", "patched"} => p.target = {}

LEMMA StillKnows ==
    ASSUME ReadInv, RowsAdvance, NEW t \in Tabs
    PROVE  KnowsRows(tab[t])
<1>1. tab[t] \in Pages
    BY DEF ReadInv, InboxType
<1>2. QED
    BY <1>1 DEF ReadInv, PagesKnow, ShowsNoMore, RowsAdvance, KnowsRows, Pages

LEMMA KnowAll ==
    ASSUME tab' \in [Tabs -> Pages], \A t \in Tabs : KnowsRows(tab'[t])
    PROVE  PagesKnow'
BY DEF KnowsRows, PagesKnow, ShowsNoMore

LEMMA OneKnows ==
    ASSUME ReadInv, RowsAdvance, NEW t \in Tabs, NEW p \in Pages,
           tab' = [tab EXCEPT ![t] = p], KnowsRows(p)
    PROVE  tab' \in [Tabs -> Pages] /\ PagesKnow'
<1>1. tab' \in [Tabs -> Pages]
    BY DEF ReadInv, InboxType
<1>2. \A u \in Tabs : KnowsRows(tab'[u])
    <2>1. ASSUME NEW u \in Tabs PROVE tab'[u] = p \/ tab'[u] = tab[u]
        BY DEF ReadInv, InboxType
    <2>2. QED
        BY <2>1, StillKnows
<1>3. QED
    BY <1>1, <1>2, KnowAll

LEMMA ClosedKnows == RowsAdvance => KnowsRows(Closed)
BY DEF KnowsRows, Closed, NoRows, RowsAdvance

LEMMA AlikeKnows ==
    ASSUME NEW p, NEW q, Alike(p, q), KnowsRows(q)
    PROVE  KnowsRows(p)
BY DEF Alike, KnowsRows

LEMMA RowsStay == InboxType /\ row' = row => RowsAdvance
BY DEF InboxType, RowsAdvance
-----------------------------------------------------------------------------
(* The bus's part: which pages hold a listener set, and that it is the one  *)
(* the bus has for the user.                                                *)
Streaming(p) == p.phase \in {"on", "ghost"}

BusInv ==
    /\ \A t \in Tabs : /\ Streaming(tab[t]) => cur # 0 /\ tab[t].set = cur /\ t \in members[cur]
                       /\ ~Streaming(tab[t]) => tab[t].set = 0
    /\ \A i \in SetIds : \A t \in members[i] : i = cur /\ Streaming(tab[t])

InboxInv == ReadInv /\ BusInv

(* A step that leaves the bus alone and only lets one page go on.           *)
LEMMA OnePageStep ==
    ASSUME InboxInv, RowsAdvance, NEW t \in Tabs, NEW p \in Pages,
           tab' = [tab EXCEPT ![t] = p], KnowsRows(p),
           p.set = tab[t].set, Streaming(p) <=> Streaming(tab[t]),
           UNCHANGED <<linked, cur, members>>
    PROVE  InboxInv'
<1>1. tab' \in [Tabs -> Pages] /\ PagesKnow'
    BY OneKnows DEF InboxInv
<1>2. InboxType'
    BY <1>1 DEF InboxInv, ReadInv, InboxType, RowsAdvance
<1>3. \A u \in Tabs : tab'[u].set = tab[u].set /\ (Streaming(tab'[u]) <=> Streaming(tab[u]))
    BY DEF InboxInv, ReadInv, InboxType
<1>4. BusInv'
    <2>1. \A i \in SetIds : members[i] \subseteq Tabs
        BY DEF InboxInv, ReadInv, InboxType
    <2>2. QED
        BY <1>3, <2>1 DEF InboxInv, BusInv
<1>5. QED
    BY <1>1, <1>2, <1>4 DEF InboxInv, ReadInv

(* A step that leaves the bus alone and only tells pages of a gap.          *)
LEMMA AlikeStep ==
    ASSUME InboxInv, RowsAdvance, linked' \in BOOLEAN, UNCHANGED <<cur, members>>,
           tab' \in [Tabs -> Pages], \A t \in Tabs : Alike(tab'[t], tab[t])
    PROVE  InboxInv'
<1>1. \A t \in Tabs : KnowsRows(tab'[t])
    BY StillKnows, AlikeKnows DEF InboxInv
<1>2. PagesKnow'
    BY <1>1, KnowAll
<1>3. InboxType'
    BY DEF InboxInv, ReadInv, InboxType, RowsAdvance
<1>4. BusInv'
    <2>1. \A t \in Tabs : tab'[t].set = tab[t].set /\ (Streaming(tab'[t]) <=> Streaming(tab[t]))
        BY DEF Alike, Streaming
    <2>2. \A i \in SetIds : members[i] \subseteq Tabs
        BY DEF InboxInv, ReadInv, InboxType
    <2>3. QED
        BY <2>1, <2>2 DEF InboxInv, BusInv
<1>5. QED
    BY <1>2, <1>3, <1>4 DEF InboxInv, ReadInv

LEMMA TabsAlike == InboxType => \A t \in Tabs : Alike(tab[t], tab[t])
BY DEF Alike

LEMMA BrokerKeeps ==
    ASSUME InboxInv, Announce \/ Link \/ Unlink
    PROVE  InboxInv'
<1>1. RowsAdvance /\ InboxType
    BY RowsStay DEF InboxInv, ReadInv, Announce, Link, Unlink
<1>2. linked' \in BOOLEAN /\ UNCHANGED <<cur, members>>
    BY <1>1 DEF InboxType, Announce, Link, Unlink
<1>3. tab' = tab \/ tab' = WithGap(In({"loading", "auth", "on"}))
    BY DEF Announce, Link, Unlink
<1>4. tab' \in [Tabs -> Pages] /\ \A t \in Tabs : Alike(tab'[t], tab[t])
    BY <1>1, <1>3, GapAlike, GapTyped, TabsAlike DEF InboxType
<1>5. QED
    BY <1>1, <1>2, <1>4, AlikeStep

LEMMA InsertKeeps ==
    ASSUME InboxInv, NEW r \in Rows, InsertRow(r)
    PROVE  InboxInv'
<1>1. RowsAdvance
    BY DEF InboxInv, ReadInv, InboxType, InsertRow, RowsAdvance, Lists
<1>2. tab' = tab /\ linked' = linked /\ UNCHANGED <<cur, members>>
    BY DEF InsertRow
<1>3. QED
    BY <1>1, <1>2, AlikeStep, TabsAlike DEF InboxInv, ReadInv, InboxType

(* An event makes listening pages read again, and changes no list.          *)
LEMMA DeliverKeeps ==
    ASSUME InboxInv, Deliver
    PROVE  InboxInv'
<1>1. RowsAdvance /\ InboxType
    BY RowsStay DEF InboxInv, ReadInv, Deliver
<1>2. \A t \in Tabs :
         LET p == [tab[t] EXCEPT !.fetch = "sent", !.answer = NoRows] IN
         /\ p \in Pages /\ KnowsRows(p) /\ p.set = tab[t].set /\ p.phase = tab[t].phase
    <2>1. SUFFICES ASSUME NEW t \in Tabs
          PROVE LET p == [tab[t] EXCEPT !.fetch = "sent", !.answer = NoRows] IN
                /\ p \in Pages /\ KnowsRows(p) /\ p.set = tab[t].set /\ p.phase = tab[t].phase
        OBVIOUS
    <2>2. DEFINE p == [tab[t] EXCEPT !.fetch = "sent", !.answer = NoRows]
    <2>3. tab[t] \in Pages /\ KnowsRows(tab[t])
        BY <1>1, StillKnows DEF InboxInv, InboxType
    <2>4. p \in Pages /\ p.set = tab[t].set /\ p.phase = tab[t].phase /\ p.list = tab[t].list
          /\ p.answer = NoRows /\ p.mark = tab[t].mark /\ p.target = tab[t].target
        BY <2>3 DEF Pages, NoRows, Lists
    <2>5. KnowsRows(p)
        BY <2>3, <2>4 DEF KnowsRows, NoRows
    <2>6. QED
        BY <2>4, <2>5
<1>3. \A t \in Tabs : WithGap(Deaf)[t] \in Pages /\ Alike(WithGap(Deaf)[t], tab[t])
    BY <1>1, GapAlike
<1>4. \A t \in Tabs : \/ tab'[t] = [tab[t] EXCEPT !.fetch = "sent", !.answer = NoRows]
                      \/ tab'[t] = WithGap(Deaf)[t]
    BY DEF Deliver
<1>5. \A t \in Tabs : /\ tab'[t] \in Pages /\ KnowsRows(tab'[t])
                      /\ tab'[t].set = tab[t].set /\ tab'[t].phase = tab[t].phase
    <2>1. \A t \in Tabs : KnowsRows(tab[t])
        BY <1>1, StillKnows DEF InboxInv
    <2>2. QED
        BY <1>2, <1>3, <1>4, <2>1, AlikeKnows DEF Alike
<1>6. tab' \in [Tabs -> Pages]
    <2>1. \E f : tab' = [t \in Tabs |-> f[t]]
        <3>1. tab' = [t \in Tabs |-> tab'[t]]
            BY DEF Deliver
        <3>2. QED
            BY <3>1
    <2>2. QED
        BY <1>5, <2>1
<1>7. PagesKnow'
    BY <1>5, <1>6, KnowAll
<1>8. UNCHANGED <<row, linked, cur, members>>
    BY DEF Deliver
<1>9. BusInv'
    <2>1. \A i \in SetIds : members[i] \subseteq Tabs
        BY <1>1 DEF InboxType
    <2>2. QED
        BY <1>5, <1>8, <2>1 DEF InboxInv, BusInv, Streaming
<1>10. QED
    BY <1>1, <1>6, <1>7, <1>8, <1>9 DEF InboxInv, ReadInv, InboxType

(* The steps of one page that leave the bus alone.                          *)
LEMMA ReadingKeeps ==
    ASSUME InboxInv, NEW t \in Tabs, OpenPage(t) \/ ReadList(t) \/ ShowList(t)
    PROVE  InboxInv'
<1>1. RowsAdvance /\ InboxType /\ UNCHANGED <<row, linked, cur, members>>
    BY RowsStay DEF InboxInv, ReadInv, OpenPage, ReadList, ShowList
<1>2. tab[t] \in Pages /\ KnowsRows(tab[t])
    BY <1>1, StillKnows DEF InboxInv, InboxType
<1>3. CASE OpenPage(t)
    <2>1. DEFINE p == [Closed EXCEPT !.phase = "loading", !.fetch = "sent"]
    <2>2. p \in Pages /\ KnowsRows(p) /\ ~Streaming(p) /\ p.set = 0
        <3>1. /\ p \in Pages /\ p.list = Closed.list /\ p.answer = Closed.answer
              /\ p.mark = Closed.mark /\ p.target = Closed.target
              /\ p.phase = "loading" /\ p.set = Closed.set
            BY ClosedTyped DEF Pages
        <3>2. Closed.set = 0
            BY DEF Closed
        <3>3. QED
            BY <1>1, <3>1, <3>2, ClosedKnows DEF KnowsRows, Streaming
    <2>3. tab' = [tab EXCEPT ![t] = p] /\ ~Streaming(tab[t])
        BY <1>3 DEF OpenPage, Streaming
    <2>4. tab[t].set = 0
        BY <2>3 DEF InboxInv, BusInv
    <2>5. QED
        BY <1>1, <2>2, <2>3, <2>4, OnePageStep
<1>4. CASE ReadList(t)
    <2> PICK P \in SUBSET Shown(row) :
            tab' = [tab EXCEPT ![t].fetch = "read",
                      ![t].answer = [r \in Rows |-> IF r \in P THEN row[r] ELSE "none"]]
        BY <1>4 DEF ReadList
    <2>1. DEFINE answer == [r \in Rows |-> IF r \in P THEN row[r] ELSE "none"]
                 p == [tab[t] EXCEPT !.fetch = "read", !.answer = answer]
    <2>2. answer \in Lists
        BY DEF InboxInv, ReadInv, InboxType, Lists
    <2>3. /\ p \in Pages /\ p.set = tab[t].set /\ p.phase = tab[t].phase
          /\ p.list = tab[t].list /\ p.answer = answer /\ p.mark = tab[t].mark
          /\ p.target = tab[t].target
        <3> HIDE DEF answer
        <3>1. QED
            BY <1>1, <1>2, <2>2 DEF Pages
    <2>4. KnowsRows(p)
        BY <1>1, <1>2, <2>3 DEF KnowsRows
    <2>5. tab' = [tab EXCEPT ![t] = p]
        OBVIOUS
    <2>6. QED
        BY <1>1, <2>3, <2>4, <2>5, OnePageStep DEF Streaming
<1>5. CASE ShowList(t)
    <2>1. DEFINE now == IF tab[t].phase = "loading" THEN "auth" ELSE tab[t].phase
                 p == [tab[t] EXCEPT !.fetch = "no", !.answer = NoRows,
                                     !.list = tab[t].answer, !.phase = now]
    <2>2. /\ p \in Pages /\ p.set = tab[t].set /\ p.phase = now
          /\ p.list = tab[t].answer /\ p.answer = NoRows /\ p.mark = tab[t].mark
          /\ p.target = tab[t].target
        BY <1>2 DEF Pages, NoRows, Lists
    <2>3. KnowsRows(p)
        BY <1>2, <2>2 DEF KnowsRows, NoRows
    <2>4. tab' = [tab EXCEPT ![t] = p]
        BY <1>5 DEF ShowList
    <2>5. Streaming(p) <=> Streaming(tab[t])
        <3> HIDE DEF p
        <3>1. QED
            BY <2>2 DEF Streaming
    <2>6. QED
        <3> HIDE DEF p
        <3>1. QED
            BY <1>1, <2>2, <2>3, <2>4, <2>5, OnePageStep
<1>6. QED
    BY <1>3, <1>4, <1>5

LEMMA MarkingKeeps ==
    ASSUME InboxInv, NEW t \in Tabs,
           SelectAll(t) \/ MarkFails(t) \/ MarkRead(t) \/ MarkShown(t)
             \/ \E r \in Rows : Select(t, r)
    PROVE  InboxInv'
<1>1. InboxType /\ UNCHANGED <<linked, cur, members>> /\ tab[t] \in Pages /\ row \in Lists
    BY DEF InboxInv, ReadInv, InboxType, SelectAll, MarkFails, MarkRead, MarkShown, Select
<1>2. tab[t].mark \notin {"patch", "patched"} => tab[t].target = {}
    BY DEF InboxInv, ReadInv, PagesKnow
<1>3. ASSUME NEW r \in Rows, Select(t, r) PROVE InboxInv'
    <2>1. DEFINE p == [tab[t] EXCEPT !.mark = "patch", !.target = {r}]
    <2>2. RowsAdvance /\ row' = row
        BY <1>1, <1>3, RowsStay DEF Select
    <2>3. KnowsRows(tab[t])
        BY <2>2, StillKnows DEF InboxInv
    <2>4. /\ p \in Pages /\ p.set = tab[t].set /\ p.phase = tab[t].phase
          /\ p.list = tab[t].list /\ p.answer = tab[t].answer /\ p.mark = "patch"
          /\ p.target = {r}
        BY <1>1 DEF Pages
    <2>5. KnowsRows(p)
        BY <1>3, <2>3, <2>4 DEF KnowsRows, Select
    <2>6. tab' = [tab EXCEPT ![t] = p]
        BY <1>3 DEF Select
    <2>7. QED
        BY <1>1, <2>2, <2>4, <2>5, <2>6, OnePageStep DEF Streaming
<1>4. CASE SelectAll(t)
    <2>1. DEFINE p == [tab[t] EXCEPT !.mark = "all"]
    <2>2. RowsAdvance /\ row' = row
        BY <1>1, <1>4, RowsStay DEF SelectAll
    <2>3. KnowsRows(tab[t])
        BY <2>2, StillKnows DEF InboxInv
    <2>4. /\ p \in Pages /\ p.set = tab[t].set /\ p.phase = tab[t].phase
          /\ p.list = tab[t].list /\ p.answer = tab[t].answer /\ p.mark = "all"
          /\ p.target = tab[t].target
        BY <1>1 DEF Pages
    <2>5. KnowsRows(p)
        BY <1>2, <1>4, <2>3, <2>4 DEF KnowsRows, SelectAll
    <2>6. tab' = [tab EXCEPT ![t] = p]
        BY <1>4 DEF SelectAll
    <2>7. QED
        BY <1>1, <2>2, <2>4, <2>5, <2>6, OnePageStep DEF Streaming
<1>5. CASE MarkFails(t)
    <2>1. DEFINE p == [tab[t] EXCEPT !.mark = "no", !.target = {}]
    <2>2. RowsAdvance /\ row' = row
        BY <1>1, <1>5, RowsStay DEF MarkFails
    <2>3. KnowsRows(tab[t])
        BY <2>2, StillKnows DEF InboxInv
    <2>4. /\ p \in Pages /\ p.set = tab[t].set /\ p.phase = tab[t].phase
          /\ p.list = tab[t].list /\ p.answer = tab[t].answer /\ p.mark = "no"
          /\ p.target = {}
        BY <1>1 DEF Pages
    <2>5. KnowsRows(p)
        BY <2>3, <2>4 DEF KnowsRows
    <2>6. tab' = [tab EXCEPT ![t] = p]
        BY <1>5 DEF MarkFails
    <2>7. QED
        BY <1>1, <2>2, <2>4, <2>5, <2>6, OnePageStep DEF Streaming
(* The rows the page marks become read; they are there, for it showed them. *)
<1>6. CASE MarkRead(t)
    <2>1. DEFINE S == IF tab[t].mark = "patch" THEN tab[t].target ELSE Rows
                 done == IF tab[t].mark = "patch" THEN "patched" ELSE "alldone"
                 p == [tab[t] EXCEPT !.mark = done]
    <2>2. row' = Marked(row, S) /\ tab[t].mark \in {"patch", "all"}
        BY <1>6 DEF MarkRead
    <2>3. RowsAdvance
        BY <1>1, <2>2, MarkedTyped DEF RowsAdvance
    <2>4. KnowsRows(tab[t])
        BY <2>3, StillKnows DEF InboxInv
    <2>5. /\ p \in Pages /\ p.set = tab[t].set /\ p.phase = tab[t].phase
          /\ p.list = tab[t].list /\ p.answer = tab[t].answer /\ p.mark = done
          /\ p.target = tab[t].target
        BY <1>1 DEF Pages
    <2>6. \A r \in tab[t].target : r \in Rows /\ row[r] # "none"
        BY <1>1 DEF InboxInv, ReadInv, PagesKnow, Pages
    <2>7. tab[t].mark = "patch" => \A r \in tab[t].target : row'[r] = "read"
        BY <1>1, <2>2, <2>6, MarkedTyped
    <2>8. tab[t].mark = "all" => tab[t].target = {}
        BY <1>2
    <2>9. KnowsRows(p)
        BY <2>2, <2>4, <2>5, <2>7, <2>8 DEF KnowsRows
    <2>10. tab' = [tab EXCEPT ![t] = p]
        BY <1>6 DEF MarkRead
    <2>11. QED
        BY <1>1, <2>3, <2>5, <2>9, <2>10, OnePageStep DEF Streaming
(* What the page now shows as read is what its request marked.              *)
<1>7. CASE MarkShown(t)
    <2>1. DEFINE done == [tab[t] EXCEPT !.mark = "no", !.target = {},
                                        !.list = Marked(tab[t].list, ShownRead(t))]
                 p == IF tab[t].mark = "patched" THEN done
                      ELSE [done EXCEPT !.fetch = "sent", !.answer = NoRows]
    <2>2. RowsAdvance /\ row' = row
        BY <1>1, <1>7, RowsStay DEF MarkShown
    <2>3. KnowsRows(tab[t])
        BY <2>2, StillKnows DEF InboxInv
    <2>4. /\ Marked(tab[t].list, tab[t].target) \in Lists
          /\ \A r \in Rows :
               LET m == Marked(tab[t].list, tab[t].target)[r] IN
               /\ m = "none" <=> tab[t].list[r] = "none"
               /\ m = "read" => tab[t].list[r] = "read" \/ r \in tab[t].target
        BY <1>1, MarkedTyped DEF Pages
    <2>5. \A r \in tab[t].target : row'[r] = "read"
        BY <1>2, <1>7, <2>3 DEF KnowsRows, MarkShown
    <2>6. /\ done \in Pages /\ done.set = tab[t].set /\ done.phase = tab[t].phase
          /\ done.list = Marked(tab[t].list, tab[t].target) /\ done.answer = tab[t].answer
          /\ done.mark = "no" /\ done.target = {}
        BY <1>1, <2>4 DEF Pages, ShownRead
    <2>7. KnowsRows(done)
        BY <2>3, <2>4, <2>5, <2>6 DEF KnowsRows
    <2>8. /\ p \in Pages /\ p.set = tab[t].set /\ p.phase = tab[t].phase /\ KnowsRows(p)
        <3> HIDE DEF done
        <3>1. DEFINE q == [done EXCEPT !.fetch = "sent", !.answer = NoRows]
        <3>2. /\ q \in Pages /\ q.set = done.set /\ q.phase = done.phase
              /\ q.list = done.list /\ q.answer = NoRows /\ q.mark = "no" /\ q.target = {}
            BY <2>6 DEF Pages, NoRows, Lists
        <3>3. KnowsRows(q)
            BY <2>7, <3>2 DEF KnowsRows, NoRows
        <3>4. QED
            BY <2>6, <2>7, <3>2, <3>3
    <2>9. tab' = [tab EXCEPT ![t] = p]
        BY <1>7 DEF MarkShown
    <2>10. QED
        BY <1>1, <2>2, <2>8, <2>9, OnePageStep DEF Streaming
<1>8. QED
    BY <1>3, <1>4, <1>5, <1>6, <1>7
-----------------------------------------------------------------------------
(* The steps of the bus itself.                                             *)
LEMMA SubscribeKeeps ==
    ASSUME InboxInv, NEW t \in Tabs, Subscribe(t)
    PROVE  InboxInv'
<1>1. RowsAdvance /\ InboxType /\ tab[t] \in Pages /\ UNCHANGED <<row, linked>>
    BY RowsStay DEF InboxInv, ReadInv, InboxType, Subscribe
<1>2. PICK i \in SetForUser :
          /\ members' = [members EXCEPT ![i] = members[i] \cup {t}]
          /\ cur' = i
          /\ tab' = [tab EXCEPT ![t].set = i,
                       ![t].phase = IF tab[t].phase = "auth" THEN "on" ELSE "ghost"]
    BY DEF Subscribe
<1>3. 1 \in SetIds /\ 0 \notin SetIds /\ SetIds \subseteq Nat
    BY TabsAssumption, FS_CardinalityType DEF SetIds
(* With no set in the map nobody listens, and every set can be used.        *)
<1>4. i \in SetIds /\ i # 0 /\ (cur # 0 => i = cur)
    <2>1. CASE cur = 0
        <3>1. \A j \in SetIds : members[j] = {}
            BY <1>1, <1>3, <2>1 DEF InboxInv, BusInv, InboxType
        <3>2. \A u \in Tabs : tab[u].set = 0
            BY <2>1 DEF InboxInv, BusInv
        <3>3. 1 \in Unused
            BY <1>3, <2>1, <3>1, <3>2 DEF Unused
        <3>4. i = CHOOSE j \in Unused : TRUE
            BY <2>1 DEF SetForUser, FreshSet
        <3>5. i \in Unused
            BY <3>3, <3>4
        <3>6. QED
            BY <1>3, <2>1, <3>5 DEF Unused
    <2>2. CASE cur # 0
        BY <1>1, <1>3, <2>2 DEF SetForUser, InboxType
    <2>3. QED
        BY <2>1, <2>2
<1>5. DEFINE next == IF tab[t].phase = "auth" THEN "on" ELSE "ghost"
             p == [tab[t] EXCEPT !.set = i, !.phase = next]
<1>6. /\ p \in Pages /\ p.set = i /\ p.phase = next
      /\ p.list = tab[t].list /\ p.answer = tab[t].answer /\ p.mark = tab[t].mark
      /\ p.target = tab[t].target
    BY <1>1, <1>4 DEF Pages
<1>7. tab' = [tab EXCEPT ![t] = p]
    BY <1>2
<1> HIDE DEF p
<1>8. KnowsRows(p)
    <2>1. KnowsRows(tab[t])
        BY <1>1, StillKnows DEF InboxInv
    <2>2. QED
        BY <1>6, <2>1 DEF KnowsRows
<1>9. tab' \in [Tabs -> Pages] /\ PagesKnow'
    BY <1>1, <1>6, <1>7, <1>8, OneKnows DEF InboxInv
<1>10. InboxType'
    BY <1>1, <1>2, <1>4, <1>9 DEF InboxType
<1>11. /\ tab'[t] = p /\ \A u \in Tabs \ {t} : tab'[u] = tab[u]
       /\ members'[i] = members[i] \cup {t} /\ \A j \in SetIds \ {i} : members'[j] = members[j]
    BY <1>1, <1>2, <1>4, <1>7 DEF InboxType
<1>12. Streaming(p) /\ ~Streaming(tab[t])
    BY <1>6 DEF Streaming, Subscribe
<1>13. BusInv'
    <2>1. ASSUME NEW u \in Tabs
          PROVE  /\ Streaming(tab'[u]) => cur' # 0 /\ tab'[u].set = cur' /\ u \in members'[cur']
                 /\ ~Streaming(tab'[u]) => tab'[u].set = 0
        <3>1. CASE u = t
            BY <1>2, <1>4, <1>6, <1>11, <1>12, <3>1
        <3>2. CASE u # t
            BY <1>2, <1>4, <1>11, <3>2 DEF InboxInv, BusInv
        <3>3. QED
            BY <3>1, <3>2
    <2>2. ASSUME NEW j \in SetIds, NEW u \in members'[j]
          PROVE  j = cur' /\ Streaming(tab'[u])
        <3>1. CASE u = t /\ j = i
            BY <1>2, <1>11, <1>12, <3>1
        <3>2. CASE ~(u = t /\ j = i)
            <4>1. u \in members[j] /\ u \in Tabs
                BY <1>1, <1>11, <3>2 DEF InboxType
            <4>2. j = cur /\ Streaming(tab[u])
                BY <4>1 DEF InboxInv, BusInv
            <4>3. j = i /\ u # t
                BY <1>3, <1>4, <1>12, <4>2
            <4>4. QED
                BY <1>2, <1>11, <4>1, <4>2, <4>3
        <3>3. QED
            BY <3>1, <3>2
    <2>3. QED
        BY <2>1, <2>2 DEF BusInv
<1>14. QED
    BY <1>9, <1>10, <1>13 DEF InboxInv, ReadInv

LEMMA ClosePageKeeps ==
    ASSUME InboxInv, NEW t \in Tabs, ClosePage(t)
    PROVE  InboxInv'
<1>1. RowsAdvance /\ InboxType /\ tab[t] \in Pages /\ UNCHANGED <<row, linked>>
    BY RowsStay DEF InboxInv, ReadInv, InboxType, ClosePage
<1>2. DEFINE p == IF tab[t].phase = "auth" THEN [Closed EXCEPT !.phase = "left"] ELSE Closed
<1>3. /\ p \in Pages /\ ~Streaming(p) /\ p.set = 0
      /\ p.list = NoRows /\ p.answer = NoRows /\ p.mark = "no" /\ p.target = {}
    <2>1. /\ Closed.phase = "closed" /\ Closed.set = 0 /\ Closed.list = NoRows
          /\ Closed.answer = NoRows /\ Closed.mark = "no" /\ Closed.target = {}
        BY DEF Closed
    <2>2. DEFINE q == [Closed EXCEPT !.phase = "left"]
    <2>3. /\ q \in Pages /\ q.phase = "left" /\ q.set = 0 /\ q.list = NoRows
          /\ q.answer = NoRows /\ q.mark = "no" /\ q.target = {}
        BY <2>1, ClosedTyped DEF Pages
    <2>4. QED
        BY <2>1, <2>3, ClosedTyped DEF Streaming
<1>4. tab' = [tab EXCEPT ![t] = p]
    BY DEF ClosePage
<1> HIDE DEF p
<1>5. KnowsRows(p)
    BY <1>1, <1>3 DEF KnowsRows, NoRows, RowsAdvance
<1>6. tab' \in [Tabs -> Pages] /\ PagesKnow'
    BY <1>1, <1>3, <1>4, <1>5, OneKnows DEF InboxInv
<1>7. tab'[t] = p /\ \A u \in Tabs \ {t} : tab'[u] = tab[u]
    BY <1>1, <1>4 DEF InboxType
<1>8. CASE tab[t].phase = "on"
    <2>1. /\ members' = [members EXCEPT ![cur] = members[cur] \ {t}]
          /\ cur' = IF members[cur] \subseteq {t} THEN 0 ELSE cur
          /\ cur \in SetIds /\ cur # 0
        BY <1>1, <1>8 DEF ClosePage, Unsubscribe, InboxInv, BusInv, InboxType, Streaming
    <2>2. InboxType'
        BY <1>1, <1>6, <2>1 DEF InboxType
    <2>3. /\ members'[cur] = members[cur] \ {t}
          /\ \A j \in SetIds \ {cur} : members'[j] = {}
        BY <1>1, <2>1 DEF InboxInv, BusInv, InboxType
    <2>4. \A u \in Tabs \ {t} : Streaming(tab[u]) =>
              u \in members[cur] /\ tab[u].set = cur /\ cur' = cur
        BY <2>1 DEF InboxInv, BusInv
    <2>5. \A u \in Tabs : /\ Streaming(tab'[u]) => cur' # 0 /\ tab'[u].set = cur' /\ u \in members'[cur']
                          /\ ~Streaming(tab'[u]) => tab'[u].set = 0
        BY <1>3, <1>7, <2>1, <2>3, <2>4 DEF InboxInv, BusInv
    <2>6. ASSUME NEW j \in SetIds, NEW u \in members'[j]
          PROVE  j = cur' /\ Streaming(tab'[u])
        <3>1. j = cur /\ u \in members[cur] /\ u # t /\ u \in Tabs
            BY <1>1, <2>1, <2>3 DEF InboxType
        <3>2. QED
            BY <1>7, <2>1, <3>1 DEF InboxInv, BusInv
    <2>7. QED
        BY <1>6, <2>2, <2>5, <2>6 DEF InboxInv, ReadInv, BusInv
<1>9. CASE tab[t].phase # "on"
    <2>1. UNCHANGED <<cur, members>> /\ ~Streaming(tab[t])
        BY <1>9 DEF ClosePage, Streaming
    <2>2. InboxType'
        BY <1>1, <1>6, <2>1 DEF InboxType
    <2>3. BusInv'
        <3>1. \A i \in SetIds : members[i] \subseteq Tabs \ {t}
            BY <1>1, <2>1 DEF InboxInv, BusInv, InboxType
        <3>2. QED
            BY <1>3, <1>7, <2>1, <3>1 DEF InboxInv, BusInv
    <2>4. QED
        BY <1>6, <2>2, <2>3 DEF InboxInv, ReadInv
<1>10. QED
    BY <1>8, <1>9

LEMMA RestartKeeps ==
    ASSUME InboxInv, Restart
    PROVE  InboxInv'
<1>1. RowsAdvance /\ InboxType /\ UNCHANGED row
    BY RowsStay DEF InboxInv, ReadInv, Restart
<1>2. PICK seen \in [Tabs -> Pages] :
          /\ \A t \in Tabs : Alike(seen[t], tab[t])
          /\ tab' = [t \in Tabs |->
               CASE tab[t].phase = "on" -> [seen[t] EXCEPT !.phase = "auth", !.set = 0]
                 [] tab[t].phase \in {"left", "ghost"} -> Closed
                 [] OTHER -> seen[t]]
    <2>1. DEFINE s == IF queue > 0 THEN WithGap(In({"loading", "auth", "on"})) ELSE tab
    <2>2. s \in [Tabs -> Pages] /\ \A t \in Tabs : Alike(s[t], tab[t])
        BY <1>1, GapAlike, GapTyped, TabsAlike DEF InboxType
    <2>3. QED
        BY <2>2 DEF Restart
<1>3. \A t \in Tabs : /\ tab'[t] \in Pages /\ KnowsRows(tab'[t])
                      /\ ~Streaming(tab'[t]) /\ tab'[t].set = 0
    <2>1. SUFFICES ASSUME NEW t \in Tabs
                   PROVE  /\ tab'[t] \in Pages /\ KnowsRows(tab'[t])
                          /\ ~Streaming(tab'[t]) /\ tab'[t].set = 0
        OBVIOUS
    <2>2. seen[t] \in Pages /\ KnowsRows(seen[t]) /\ Alike(seen[t], tab[t])
        BY <1>1, <1>2, StillKnows, AlikeKnows DEF InboxInv
    <2>3. CASE tab[t].phase = "on"
        <3>1. DEFINE q == [seen[t] EXCEPT !.phase = "auth", !.set = 0]
        <3>2. /\ q \in Pages /\ q.phase = "auth" /\ q.set = 0 /\ q.list = seen[t].list
              /\ q.answer = seen[t].answer /\ q.mark = seen[t].mark /\ q.target = seen[t].target
            BY <2>2 DEF Pages
        <3>3. tab'[t] = q
            BY <1>2, <2>3
        <3>4. KnowsRows(q)
            BY <2>2, <3>2 DEF KnowsRows
        <3>5. QED
            BY <3>2, <3>3, <3>4 DEF Streaming
    <2>4. CASE tab[t].phase \in {"left", "ghost"}
        <3>1. tab'[t] = Closed
            BY <1>2, <2>4
        <3>2. Closed.phase = "closed" /\ Closed.set = 0
            BY DEF Closed
        <3>3. QED
            BY <1>1, <3>1, <3>2, ClosedTyped, ClosedKnows DEF Streaming
    <2>5. CASE tab[t].phase \notin {"on", "left", "ghost"}
        <3>1. tab'[t] = seen[t] /\ ~Streaming(tab[t])
            BY <1>2, <2>5 DEF Streaming
        <3>2. QED
            BY <2>2, <3>1 DEF InboxInv, BusInv, Alike, Streaming
    <2>6. QED
        BY <2>3, <2>4, <2>5
<1>4. /\ cur' = 0 /\ members' = [i \in SetIds |-> {}] /\ linked' = FALSE
    BY DEF Restart
<1>5. tab' \in [Tabs -> Pages]
    <2>1. tab' = [t \in Tabs |-> tab'[t]]
        BY <1>2
    <2>2. QED
        BY <1>3, <2>1
<1>6. PagesKnow'
    BY <1>3, <1>5, KnowAll
<1>7. InboxType' /\ BusInv'
    BY <1>1, <1>3, <1>4, <1>5 DEF InboxType, BusInv
<1>8. QED
    BY <1>6, <1>7 DEF InboxInv, ReadInv
-----------------------------------------------------------------------------
LEMMA InboxStart == InboxInit => InboxInv
<1> SUFFICES ASSUME InboxInit PROVE InboxInv
    OBVIOUS
<1>1. InboxType
    BY TypedStart
<1>2. \A t \in Tabs : tab[t] = Closed
    BY DEF InboxInit
<1>3. PagesKnow
    BY <1>2 DEF PagesKnow, ShowsNoMore, Closed, NoRows
<1>4. BusInv
    BY <1>2 DEF BusInv, InboxInit, Closed, Streaming
<1>5. QED
    BY <1>1, <1>3, <1>4 DEF InboxInv, ReadInv

LEMMA InboxStep == InboxInv /\ [InboxNext]_inboxVars => InboxInv'
<1> SUFFICES ASSUME InboxInv, [InboxNext]_inboxVars PROVE InboxInv'
    OBVIOUS
<1>1. CASE UNCHANGED inboxVars
    <2>1. RowsAdvance /\ InboxType /\ tab' = tab /\ linked' = linked /\ UNCHANGED <<cur, members>>
        BY <1>1, RowsStay DEF inboxVars, InboxInv, ReadInv
    <2>2. QED
        BY <2>1, AlikeStep, TabsAlike DEF InboxType
<1>2. QED
    BY <1>1, InsertKeeps, BrokerKeeps, DeliverKeeps, RestartKeeps, ReadingKeeps, SubscribeKeeps,
       ClosePageKeeps, MarkingKeeps
       DEF InboxNext

LEMMA InboxInvariant == InboxSpec => []InboxInv
<1>1. QED
    BY InboxStart, InboxStep, PTL DEF InboxSpec

(* No page shows a row as read that is unread in the collection, in whatever *)
(* order its reads of the list and its marks are answered or fail.           *)
THEOREM ReadIsRead == InboxSpec => []ReadMarksAreReal
<1>1. InboxInv => ReadMarksAreReal
    BY DEF InboxInv, ReadInv, PagesKnow, ShowsNoMore, ReadMarksAreReal
<1>2. QED
    BY <1>1, InboxInvariant, PTL

LEMMA ListeningIsStreaming == InboxInv => BusHoldsOpenStreams
<1> SUFFICES ASSUME InboxInv PROVE BusHoldsOpenStreams
    OBVIOUS
<1>1. InboxType /\ BusInv
    BY DEF InboxInv, ReadInv
<1>2. \A i \in SetIds \ {cur} : members[i] = {}
    BY <1>1 DEF BusInv, InboxType
<1>3. \A t \in Tabs : t \in Listening <=> Streaming(tab[t])
    BY <1>1 DEF BusInv, InboxType, Listening
<1>4. Listening \subseteq Tabs
    BY <1>1 DEF InboxType, Listening
<1>5. Listening = In({"on", "ghost"})
    BY <1>3, <1>4 DEF In, Streaming
<1>6. QED
    BY <1>2, <1>5 DEF BusHoldsOpenStreams

(* The bus holds the listeners of the open streams, and of those whose page  *)
(* left while its session was looked up, all in the one set it has for the   *)
(* user: no page that closes, no restart and no late subscribe leaves a      *)
(* listener in a set the bus has let go.                                     *)
THEOREM BusIsExact == InboxSpec => []BusHoldsOpenStreams
<1>1. QED
    BY InboxInvariant, ListeningIsStreaming, PTL
-----------------------------------------------------------------------------
(* What a page knows of an announced row: its list accounts for it, or will.  *)
Reaches(p, r) ==
    \/ p.fetch = "no" /\ AccountsFor(p.list, r)
    \/ p.fetch = "sent"
    \/ p.fetch = "read" /\ AccountsFor(p.answer, r)

Attentive(p) == p.phase \in {"loading", "auth", "on"}

FreshAt(p, rows, new, events) ==
    Attentive(p) /\ ~p.gap =>
        events > 0 \/ \A r \in Rows \ new : rows[r] # "none" => Reaches(p, r)

(* A page of the rows accounts for each: what it leaves out is no newer.     *)
LEMMA PageAccounts ==
    ASSUME row \in Lists, NEW P \in SUBSET Shown(row), IsPage(P, Shown(row)),
           NEW f, f = [r \in Rows |-> IF r \in P THEN row[r] ELSE "none"],
           NEW r \in Rows, row[r] # "none"
    PROVE  AccountsFor(f, r)
<1>1. Shown(f) = P
    BY DEF Shown
<1>2. CASE r \in P
    BY <1>1, <1>2 DEF Shown, AccountsFor
<1>3. CASE r \notin P
    <2>1. r \in Shown(row) \ P
        BY <1>3 DEF Shown
    <2>2. Cardinality(P) = Limit /\ \A q \in P : CreatedAt[q] >= CreatedAt[r]
        BY <1>3, <2>1 DEF IsPage
    <2>3. QED
        BY <1>1, <2>2 DEF AccountsFor
<1>4. QED
    BY <1>2, <1>3

FreshInv ==
    /\ queue \in Nat
    /\ \A t \in Tabs : FreshAt(tab[t], row, unsaid, queue)

LEMMA FreshStart == InboxInit => FreshInv
BY DEF InboxInit, FreshInv, FreshAt, Attentive, Closed

(* A step of one page, which may mark rows.                                  *)
LEMMA OneFresh ==
    ASSUME InboxInv, FreshInv, NEW t \in Tabs, NEW p, tab' = [tab EXCEPT ![t] = p],
           UNCHANGED <<queue, unsaid>>, \A r \in Rows : row'[r] = "none" <=> row[r] = "none",
           FreshAt(p, row, unsaid, queue)
    PROVE  FreshInv'
<1>1. \A u \in Tabs : tab'[u] = p \/ tab'[u] = tab[u]
    BY DEF InboxInv, ReadInv, InboxType
<1>2. \A u \in Tabs : FreshAt(tab'[u], row, unsaid, queue)
    BY <1>1 DEF FreshInv
<1>3. \A u \in Tabs : FreshAt(tab'[u], row', unsaid', queue')
    BY <1>2 DEF FreshAt
<1>4. QED
    BY <1>3 DEF FreshInv

(* ... that is as fresh as it was.                                           *)
LEMMA AsFresh ==
    ASSUME FreshInv, NEW t \in Tabs, NEW p,
           Attentive(p) => Attentive(tab[t]), p.gap = tab[t].gap,
           p.fetch = tab[t].fetch, p.answer = tab[t].answer,
           \A r \in Rows : p.list[r] = "none" <=> tab[t].list[r] = "none"
    PROVE  FreshAt(p, row, unsaid, queue)
<1>1. Shown(p.list) = Shown(tab[t].list)
    BY DEF Shown
<1>2. \A r \in Rows : AccountsFor(p.list, r) <=> AccountsFor(tab[t].list, r)
    BY <1>1 DEF AccountsFor
<1>3. QED
    BY <1>2 DEF FreshInv, FreshAt, Reaches

LEMMA FreshReading ==
    ASSUME InboxInv, FreshInv, NEW t \in Tabs, OpenPage(t) \/ ReadList(t) \/ ShowList(t)
    PROVE  FreshInv'
<1>1. UNCHANGED <<row, queue, unsaid>>
    BY DEF OpenPage, ReadList, ShowList
<1>2. tab[t] \in Pages /\ FreshAt(tab[t], row, unsaid, queue)
      /\ \A r \in Rows : tab[t].list[r] # "none" => row[r] # "none"
    BY DEF InboxInv, ReadInv, InboxType, FreshInv, PagesKnow, ShowsNoMore
<1>3. CASE OpenPage(t)
    <2>1. DEFINE p == [Closed EXCEPT !.phase = "loading", !.fetch = "sent"]
    <2>2. p.fetch = "sent"
        BY ClosedTyped DEF Pages
    <2>3. FreshAt(p, row, unsaid, queue)
        <3> HIDE DEF p
        <3>1. QED
            BY <2>2 DEF FreshAt, Reaches
    <2>4. tab' = [tab EXCEPT ![t] = p]
        BY <1>3 DEF OpenPage
    <2>5. QED
        BY <1>1, <2>3, <2>4, OneFresh
<1>4. CASE ReadList(t)
    <2> PICK P \in SUBSET Shown(row) :
            /\ IsPage(P, Shown(row))
            /\ tab' = [tab EXCEPT ![t].fetch = "read",
                         ![t].answer = [r \in Rows |-> IF r \in P THEN row[r] ELSE "none"]]
        BY <1>4 DEF ReadList
    <2>1. DEFINE answer == [r \in Rows |-> IF r \in P THEN row[r] ELSE "none"]
                 p == [tab[t] EXCEPT !.fetch = "read", !.answer = answer]
    <2>2. p.fetch = "read" /\ p.answer = answer
        <3> HIDE DEF answer
        <3>1. QED
            BY <1>2 DEF Pages
    <2>3. FreshAt(p, row, unsaid, queue)
        <3>1. \A r \in Rows : row[r] # "none" => AccountsFor(answer, r)
            BY PageAccounts DEF InboxInv, ReadInv, InboxType
        <3> HIDE DEF answer, p
        <3>2. QED
            BY <2>2, <3>1 DEF FreshAt, Reaches
    <2>4. tab' = [tab EXCEPT ![t] = p]
        OBVIOUS
    <2>5. QED
        BY <1>1, <2>3, <2>4, OneFresh
<1>5. CASE ShowList(t)
    <2>1. DEFINE now == IF tab[t].phase = "loading" THEN "auth" ELSE tab[t].phase
                 p == [tab[t] EXCEPT !.fetch = "no", !.answer = NoRows,
                                     !.list = tab[t].answer, !.phase = now]
    <2>2. p.fetch = "no" /\ p.list = tab[t].answer /\ p.phase = now /\ p.gap = tab[t].gap
        BY <1>2 DEF Pages
    <2>3. Attentive(p) => Attentive(tab[t])
        <3> HIDE DEF p
        <3>1. QED
            BY <2>2 DEF Attentive
    <2>4. tab[t].fetch = "read"
        BY <1>5 DEF ShowList
    <2>5. FreshAt(p, row, unsaid, queue)
        <3> HIDE DEF p
        <3>1. QED
            BY <1>2, <2>2, <2>3, <2>4 DEF FreshAt, Reaches
    <2>6. tab' = [tab EXCEPT ![t] = p]
        BY <1>5 DEF ShowList
    <2>7. QED
        BY <1>1, <2>5, <2>6, OneFresh
<1>6. QED
    BY <1>3, <1>4, <1>5

(* Marking changes no row's presence, in the collection or on a page.        *)
LEMMA FreshMarking ==
    ASSUME InboxInv, FreshInv, NEW t \in Tabs,
           SelectAll(t) \/ MarkFails(t) \/ MarkRead(t) \/ MarkShown(t)
             \/ \E r \in Rows : Select(t, r)
    PROVE  FreshInv'
<1>1. UNCHANGED <<queue, unsaid>> /\ \A r \in Rows : row'[r] = "none" <=> row[r] = "none"
    <2>1. row' = row \/ \E S \in SUBSET Rows : row' = Marked(row, S)
        <3>1. tab[t].target \subseteq Rows
            BY DEF InboxInv, ReadInv, InboxType, Pages
        <3>2. QED
            BY <3>1 DEF SelectAll, MarkFails, MarkRead, MarkShown, Select
    <2>2. row \in Lists
        BY DEF InboxInv, ReadInv, InboxType
    <2>3. UNCHANGED <<queue, unsaid>>
        BY DEF SelectAll, MarkFails, MarkRead, MarkShown, Select
    <2>4. QED
        BY <2>1, <2>2, <2>3, MarkedTyped
<1>2. tab[t] \in Pages
    BY DEF InboxInv, ReadInv, InboxType
<1>3. PICK p : /\ tab' = [tab EXCEPT ![t] = p]
               /\ p.phase = tab[t].phase /\ p.gap = tab[t].gap
               /\ \A r \in Rows : p.list[r] = "none" <=> tab[t].list[r] = "none"
               /\ \/ p.fetch = tab[t].fetch /\ p.answer = tab[t].answer
                  \/ p.fetch = "sent"
    <2>1. ASSUME NEW r \in Rows, Select(t, r)
          PROVE  \E p : /\ tab' = [tab EXCEPT ![t] = p]
               /\ p.phase = tab[t].phase /\ p.gap = tab[t].gap
               /\ p.list = tab[t].list
               /\ p.fetch = tab[t].fetch /\ p.answer = tab[t].answer
        <3>1. DEFINE p == [tab[t] EXCEPT !.mark = "patch", !.target = {r}]
        <3>2. p.phase = tab[t].phase /\ p.gap = tab[t].gap /\ p.list = tab[t].list
              /\ p.fetch = tab[t].fetch /\ p.answer = tab[t].answer
            BY <1>2 DEF Pages
        <3>3. tab' = [tab EXCEPT ![t] = p]
            BY <2>1 DEF Select
        <3>4. QED
            BY <3>2, <3>3
    <2>2. ASSUME SelectAll(t) \/ MarkFails(t) \/ MarkRead(t)
          PROVE  \E p : /\ tab' = [tab EXCEPT ![t] = p]
               /\ p.phase = tab[t].phase /\ p.gap = tab[t].gap
               /\ p.list = tab[t].list
               /\ p.fetch = tab[t].fetch /\ p.answer = tab[t].answer
        <3>1. CASE SelectAll(t)
            <4>1. DEFINE p == [tab[t] EXCEPT !.mark = "all"]
            <4>2. p.phase = tab[t].phase /\ p.gap = tab[t].gap /\ p.list = tab[t].list
                  /\ p.fetch = tab[t].fetch /\ p.answer = tab[t].answer
                BY <1>2 DEF Pages
            <4>3. tab' = [tab EXCEPT ![t] = p]
                BY <3>1 DEF SelectAll
            <4>4. QED
                BY <4>2, <4>3
        <3>2. CASE MarkFails(t)
            <4>1. DEFINE p == [tab[t] EXCEPT !.mark = "no", !.target = {}]
            <4>2. p.phase = tab[t].phase /\ p.gap = tab[t].gap /\ p.list = tab[t].list
                  /\ p.fetch = tab[t].fetch /\ p.answer = tab[t].answer
                BY <1>2 DEF Pages
            <4>3. tab' = [tab EXCEPT ![t] = p]
                BY <3>2 DEF MarkFails
            <4>4. QED
                BY <4>2, <4>3
        <3>3. CASE MarkRead(t)
            <4>1. DEFINE mark == IF tab[t].mark = "patch" THEN "patched" ELSE "alldone"
                         p == [tab[t] EXCEPT !.mark = mark]
            <4>2. p.phase = tab[t].phase /\ p.gap = tab[t].gap /\ p.list = tab[t].list
                  /\ p.fetch = tab[t].fetch /\ p.answer = tab[t].answer
                BY <1>2 DEF Pages
            <4>3. tab' = [tab EXCEPT ![t] = p]
                BY <3>3 DEF MarkRead
            <4>4. QED
                BY <4>2, <4>3
        <3>4. QED
            BY <2>2, <3>1, <3>2, <3>3
    <2>3. ASSUME MarkShown(t)
          PROVE  \E p : /\ tab' = [tab EXCEPT ![t] = p]
               /\ p.phase = tab[t].phase /\ p.gap = tab[t].gap
               /\ p.list = Marked(tab[t].list, tab[t].target)
               /\ \/ p.fetch = tab[t].fetch /\ p.answer = tab[t].answer
                  \/ p.fetch = "sent"
        <3>1. DEFINE done == [tab[t] EXCEPT !.mark = "no", !.target = {},
                                            !.list = Marked(tab[t].list, ShownRead(t))]
                     again == [done EXCEPT !.fetch = "sent", !.answer = NoRows]
        <3>2. Marked(tab[t].list, tab[t].target) \in Lists
            BY <1>2, MarkedTyped DEF Pages
        <3>3. /\ done.phase = tab[t].phase /\ done.gap = tab[t].gap
              /\ done.list = Marked(tab[t].list, tab[t].target)
              /\ done.fetch = tab[t].fetch /\ done.answer = tab[t].answer
              /\ done \in Pages
            BY <1>2, <3>2 DEF Pages, ShownRead
        <3>4. /\ again.phase = tab[t].phase /\ again.gap = tab[t].gap
              /\ again.list = Marked(tab[t].list, tab[t].target) /\ again.fetch = "sent"
            <4> HIDE DEF done
            <4>1. QED
                BY <3>3 DEF Pages
        <3>5. tab' = [tab EXCEPT ![t] = IF tab[t].mark = "patched" THEN done ELSE again]
            BY <2>3 DEF MarkShown
        <3> HIDE DEF done, again
        <3>6. CASE tab[t].mark = "patched"
            BY <3>3, <3>5, <3>6
        <3>7. CASE tab[t].mark # "patched"
            BY <3>4, <3>5, <3>7
        <3>8. QED
            BY <3>6, <3>7
    <2>4. \A r \in Rows : Marked(tab[t].list, tab[t].target)[r] = "none" <=> tab[t].list[r] = "none"
        BY <1>2, MarkedTyped DEF Pages
    <2>5. QED
        BY <2>1, <2>2, <2>3, <2>4
<1>4. FreshAt(p, row, unsaid, queue)
    <2>1. CASE p.fetch = "sent"
        BY <2>1 DEF FreshAt, Reaches
    <2>2. CASE p.fetch # "sent"
        BY <1>3, <2>2, AsFresh DEF Attentive
    <2>3. QED
        BY <2>1, <2>2
<1>5. QED
    BY <1>1, <1>3, <1>4, OneFresh

(* What goes past every page is marked on each that waits for it.            *)
LEMMA GapFresh ==
    ASSUME InboxType, FreshInv, NEW t \in Tabs, NEW T, NEW rows, NEW new, NEW events,
           Attentive(tab[t]) => t \in T
    PROVE  FreshAt(WithGap(T)[t], rows, new, events)
<1>1. tab[t] \in Pages /\ WithGap(T)[t] \in {tab[t], Missed(tab[t])}
    BY GapTyped DEF InboxType
<1>2. Alike(WithGap(T)[t], tab[t])
    BY GapAlike
<1>3. t \in T => WithGap(T)[t].gap
    <2>1. t \in T => WithGap(T)[t] = Missed(tab[t])
        BY DEF WithGap, Missed
    <2>2. Missed(tab[t]).gap
        BY <1>1 DEF Missed, Pages
    <2>3. QED
        BY <2>1, <2>2
<1>4. Attentive(WithGap(T)[t]) => WithGap(T)[t].gap
    BY <1>2, <1>3 DEF Alike, Attentive
<1>5. FreshAt(tab[t], row, unsaid, queue)
    BY DEF FreshInv
<1>6. QED
    BY <1>2, <1>4, <1>5 DEF FreshAt, Alike

LEMMA AllWait == \A t \in Tabs : Attentive(tab[t]) => t \in In({"loading", "auth", "on"})
BY DEF Attentive, In

(* An event is in the queue, or every page that waits has missed it.         *)
LEMMA FreshBroker ==
    ASSUME InboxInv, FreshInv, Announce \/ Link \/ Unlink \/ \E r \in Rows : InsertRow(r)
    PROVE  FreshInv'
<1>1. InboxType
    BY DEF InboxInv, ReadInv
<1>2. queue \in Nat /\ \A t \in Tabs : FreshAt(tab[t], row, unsaid, queue)
    BY DEF FreshInv
<1>3. CASE Announce
    <2>1. CASE linked
        BY <1>2, <1>3, <2>1 DEF Announce, FreshInv, FreshAt
    <2>2. CASE ~linked
        <3>1. tab' = WithGap(In({"loading", "auth", "on"})) /\ queue' = queue
            BY <1>3, <2>2 DEF Announce
        <3>2. QED
            BY <1>1, <1>2, <3>1, GapFresh, AllWait DEF FreshInv
    <2>3. QED
        BY <2>1, <2>2
<1>4. CASE Link
    BY <1>2, <1>4 DEF Link, FreshInv
<1>5. CASE Unlink
    <2>1. CASE queue > 0
        <3>1. tab' = WithGap(In({"loading", "auth", "on"})) /\ queue' = 0
            BY <1>5, <2>1 DEF Unlink
        <3>2. QED
            BY <1>1, <3>1, GapFresh, AllWait DEF FreshInv
    <2>2. CASE ~(queue > 0)
        BY <1>2, <1>5, <2>2 DEF Unlink, FreshInv, FreshAt
    <2>3. QED
        BY <2>1, <2>2
<1>6. ASSUME NEW r \in Rows, InsertRow(r)
      PROVE  FreshInv'
    <2>1. \A q \in Rows \ unsaid' : q \notin unsaid /\ row'[q] = row[q]
        BY <1>1, <1>6 DEF InsertRow, InboxType, Lists
    <2>2. UNCHANGED <<tab, queue>>
        BY <1>6 DEF InsertRow
    <2>3. QED
        BY <1>2, <2>1, <2>2 DEF FreshInv, FreshAt
<1>7. QED
    BY <1>3, <1>4, <1>5, <1>6

(* A page that waits for events listens and is told, or is marked deaf.      *)
LEMMA FreshDeliver ==
    ASSUME InboxInv, FreshInv, Deliver
    PROVE  FreshInv'
<1>1. InboxType /\ Listening = In({"on", "ghost"})
    BY ListeningIsStreaming DEF InboxInv, ReadInv, BusHoldsOpenStreams
<1>2. ASSUME NEW t \in Tabs
      PROVE  FreshAt(tab'[t], row', unsaid', queue')
    <2>1. tab[t] \in Pages /\ UNCHANGED <<row, unsaid>>
        BY <1>1 DEF InboxType, Deliver
    <2>2. CASE t \in Listening /\ tab[t].phase = "on"
        <3>1. DEFINE p == [tab[t] EXCEPT !.fetch = "sent", !.answer = NoRows]
        <3>2. tab'[t] = p
            BY <2>2 DEF Deliver, Told
        <3>3. p.fetch = "sent"
            BY <2>1 DEF Pages
        <3> HIDE DEF p
        <3>4. QED
            BY <3>2, <3>3 DEF FreshAt, Reaches
    <2>3. CASE ~(t \in Listening /\ tab[t].phase = "on")
        <3>1. tab'[t] = WithGap(Deaf)[t]
            BY <2>3 DEF Deliver, Told
        <3>2. Attentive(tab[t]) => t \in Deaf
            BY <1>1, <2>3 DEF Attentive, Deaf, In
        <3>3. QED
            BY <1>1, <3>1, <3>2, GapFresh
    <2>4. QED
        BY <2>2, <2>3
<1>3. queue' \in Nat
    <2>1. queue \in Nat /\ queue > 0 /\ queue' = queue - 1
        BY DEF Deliver, FreshInv
    <2>2. QED
        BY <2>1
<1>4. QED
    BY <1>2, <1>3 DEF FreshInv

LEMMA FreshStreams ==
    ASSUME InboxInv, FreshInv, NEW t \in Tabs, Subscribe(t) \/ ClosePage(t)
    PROVE  FreshInv'
<1>1. UNCHANGED <<row, queue, unsaid>>
    BY DEF Subscribe, ClosePage
<1>2. tab[t] \in Pages
    BY DEF InboxInv, ReadInv, InboxType
<1>3. CASE Subscribe(t)
    <2>1. PICK i : tab' = [tab EXCEPT ![t].set = i,
                             ![t].phase = IF tab[t].phase = "auth" THEN "on" ELSE "ghost"]
        BY <1>3 DEF Subscribe
    <2>2. DEFINE next == IF tab[t].phase = "auth" THEN "on" ELSE "ghost"
                 p == [tab[t] EXCEPT !.set = i, !.phase = next]
    <2>3. /\ p.phase = next /\ p.gap = tab[t].gap /\ p.list = tab[t].list
          /\ p.fetch = tab[t].fetch /\ p.answer = tab[t].answer
        BY <1>2 DEF Pages
    <2>4. tab' = [tab EXCEPT ![t] = p]
        BY <2>1
    <2>5. FreshAt(p, row, unsaid, queue)
        <3> HIDE DEF p
        <3>1. Attentive(p) => Attentive(tab[t])
            BY <2>3 DEF Attentive
        <3>2. QED
            BY <2>3, <3>1, AsFresh
    <2>6. QED
        BY <1>1, <2>4, <2>5, OneFresh
<1>4. CASE ClosePage(t)
    <2>1. DEFINE q == [Closed EXCEPT !.phase = "left"]
                 p == IF tab[t].phase = "auth" THEN q ELSE Closed
    <2>2. q.phase = "left" /\ q.fetch = "no" /\ Closed.phase = "closed" /\ Closed.fetch = "no"
        BY ClosedTyped DEF Closed, Pages
    <2>3. tab' = [tab EXCEPT ![t] = p]
        BY <1>4 DEF ClosePage
    <2>4. FreshAt(p, row, unsaid, queue)
        <3> HIDE DEF q
        <3>1. QED
            BY <2>2 DEF FreshAt, Attentive
    <2>5. QED
        BY <1>1, <2>3, <2>4, OneFresh
<1>5. QED
    BY <1>3, <1>4

(* What was in the queue at a restart is lost to every page that waits.      *)
LEMMA FreshRestart ==
    ASSUME InboxInv, FreshInv, Restart
    PROVE  FreshInv'
<1>1. InboxType /\ queue' = 0 /\ UNCHANGED <<row, unsaid>>
    BY DEF InboxInv, ReadInv, Restart
<1>2. DEFINE all == In({"loading", "auth", "on"})
             seen == IF queue > 0 THEN WithGap(all) ELSE tab
<1>3. \A t \in Tabs : /\ FreshAt(seen[t], row, unsaid, 0)
                      /\ Alike(seen[t], tab[t]) /\ seen[t] \in Pages
    <2>1. CASE queue > 0
        <3>1. seen = WithGap(all)
            BY <2>1
        <3> HIDE DEF seen
        <3>2. QED
            BY <1>1, <3>1, GapFresh, GapAlike, AllWait
    <2>2. CASE ~(queue > 0)
        <3>1. seen = tab
            BY <2>2
        <3> HIDE DEF seen
        <3>2. \A t \in Tabs : FreshAt(tab[t], row, unsaid, 0)
            BY <2>2 DEF FreshInv, FreshAt
        <3>3. QED
            BY <1>1, <3>1, <3>2, TabsAlike DEF InboxType
    <2>3. QED
        BY <2>1, <2>2
<1>4. tab' = [t \in Tabs |->
               CASE tab[t].phase = "on" -> [seen[t] EXCEPT !.phase = "auth", !.set = 0]
                 [] tab[t].phase \in {"left", "ghost"} -> Closed
                 [] OTHER -> seen[t]]
    BY DEF Restart
<1> HIDE DEF seen
<1>5. ASSUME NEW t \in Tabs
      PROVE  FreshAt(tab'[t], row, unsaid, 0)
    <2>1. CASE tab[t].phase = "on"
        <3>1. DEFINE p == [seen[t] EXCEPT !.phase = "auth", !.set = 0]
        <3>2. tab'[t] = p
            BY <1>4, <2>1
        <3>3. /\ p.phase = "auth" /\ p.gap = seen[t].gap /\ p.list = seen[t].list
              /\ p.fetch = seen[t].fetch /\ p.answer = seen[t].answer /\ seen[t].phase = "on"
            BY <1>3, <2>1 DEF Pages, Alike
        <3> HIDE DEF p
        <3>4. QED
            BY <1>3, <3>2, <3>3 DEF FreshAt, Reaches, Attentive
    <2>2. CASE tab[t].phase \in {"left", "ghost"}
        <3>1. tab'[t] = Closed
            BY <1>4, <2>2
        <3>2. QED
            BY <3>1 DEF Closed, FreshAt, Attentive
    <2>3. CASE tab[t].phase \notin {"on", "left", "ghost"}
        BY <1>3, <1>4, <2>3
    <2>4. QED
        BY <2>1, <2>2, <2>3
<1>6. QED
    BY <1>1, <1>5 DEF FreshInv

LEMMA FreshStep == InboxInv /\ FreshInv /\ [InboxNext]_inboxVars => FreshInv'
<1> SUFFICES ASSUME InboxInv, FreshInv, [InboxNext]_inboxVars PROVE FreshInv'
    OBVIOUS
<1>1. CASE UNCHANGED inboxVars
    BY <1>1 DEF inboxVars, FreshInv
<1>2. QED
    BY <1>1, FreshBroker, FreshDeliver, FreshRestart, FreshReading, FreshStreams, FreshMarking
       DEF InboxNext

(* A page at rest with nothing in the queue shows every row that was         *)
(* announced, or is full with Limit rows that are as new, unless an event    *)
(* went past it unheard: a read dropped for a newer one, a mark, a closed    *)
(* page or a restart never costs it a row.                                   *)
THEOREM ListStaysFresh == InboxSpec => []ListIsFresh
<1>1. InboxInv /\ FreshInv => ListIsFresh
    <2>1. SUFFICES ASSUME FreshInv, NEW t \in In({"on"}),
                          tab[t].fetch = "no", ~tab[t].gap, queue = 0,
                          NEW r \in Rows \ unsaid, row[r] # "none"
                   PROVE  AccountsFor(tab[t].list, r)
        BY DEF ListIsFresh
    <2>2. t \in Tabs /\ Attentive(tab[t])
        BY DEF In, Attentive
    <2>3. QED
        BY <2>1, <2>2 DEF FreshInv, FreshAt, Reaches
<1>2. QED
    BY <1>1, FreshStart, FreshStep, InboxInvariant, PTL DEF InboxSpec
=============================================================================
