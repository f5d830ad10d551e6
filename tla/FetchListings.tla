--------------------------- MODULE FetchListings ---------------------------
(***************************************************************************)
(* How a bot service reads one category of a portal: page after page from   *)
(* a list that grows at its head and loses ads anywhere while it is read,   *)
(* with retries, refusals and ads that cannot be parsed.  The three         *)
(* services differ in what they do about each.  Beside bot-sreality someone *)
(* may run its backfill script, which reads the list to its end into the    *)
(* same collection.                                                         *)
(***************************************************************************)
EXTENDS Naturals, Sequences, FiniteSets, SequencesExt

CONSTANTS Ads, Odd,    \* the ads; those a parser drops
          Unplaced,    \* ads without coordinates
          Size, Pages, \* ads on a page, pages read
          PerPage,     \* ads on a page of the backfill
          RetryLimit,  \* its RETRY_LIMIT
          Backoff,     \* ticks of backoff_minutes_on_block
          Faults       \* bound on refusals and failing requests

ASSUME FetchAssumption ==
    /\ Odd \cap Unplaced = {}
    /\ {Size, Pages, PerPage} \subseteq Nat \ {0}

VARIABLES
    reader,    \* which service
    board,     \* the portal's list, newest first
    gone,      \* ads withdrawn
    phase, page, tries,
    got,       \* the ads the cycle has collected
    window,    \* history: the first pages when the cycle began
    shrunk,    \* history: whether an ad went, or a 404 came, while reading
    stored,    \* the listings collection
    blocked,   \* ticks left until _blocked_until
    failures,  \* cycles failed in a row
    script,    \* the backfill; bound: it runs once
    faults

fetchVars == <<reader, board, gone, phase, page, tries, got, window, shrunk,
               stored, blocked, failures, script, faults>>

cycleVars == <<phase, page, tries, got, window, shrunk, blocked, failures>>

Readers == {"bazos", "bezrealitky", "sreality"}
PagesOf(b) == IF b = "sreality" THEN 1 ELSE Pages
Upto(n) == IF n < Len(board) THEN n ELSE Len(board)
FirstPages == SubSeq(board, 1, Upto(Size * PagesOf(reader)))

\* owed, history: what the script must have stored at its end; nothing once
\* an ad is withdrawn.
NoScript == [step |-> "idle", page |-> 0, tries |-> 0, owed |-> {}]

FetchInit ==
    /\ reader \in Readers
    /\ board = <<>> /\ gone = {} /\ phase = "idle" /\ page = 0 /\ tries = 0
    /\ got = {} /\ window = {} /\ shrunk = FALSE /\ stored = {}
    /\ blocked = 0 /\ failures = 0 /\ faults = 0
    /\ script = NoScript

-----------------------------------------------------------------------------
Post(a) ==
    /\ a \notin ToSet(board) \cup gone
    /\ board' = <<a>> \o board
    /\ UNCHANGED <<reader, gone, phase, page, tries, got, window, shrunk, stored,
                   blocked, failures, faults, script>>

Withdraw(a) ==
    /\ \E i \in DOMAIN board : board[i] = a /\ board' = RemoveAt(board, i)
    /\ gone' = gone \cup {a} /\ shrunk' = TRUE
    /\ script' = [script EXCEPT !.owed = {}]
    /\ UNCHANGED <<reader, phase, page, tries, got, window, stored, blocked,
                   failures, faults>>

Tick ==
    /\ blocked > 0 /\ blocked' = blocked - 1
    /\ UNCHANGED <<reader, board, gone, phase, page, tries, got, window, shrunk,
                   stored, failures, faults, script>>

-----------------------------------------------------------------------------
\* run_cycle; inside the back-off window it returns at once.
StartCycle ==
    /\ phase = "idle" /\ blocked = 0
    /\ phase' = "list" /\ page' = 0 /\ tries' = 0 /\ got' = {}
    /\ window' = ToSet(FirstPages) /\ shrunk' = FALSE
    /\ UNCHANGED <<reader, board, gone, stored, blocked, failures, faults, script>>

\* Mutant: the pages are counted from one.
NextOffset(p) == (p + 1) * Size

Offset(p) == p * Size

Items == SubSeq(board, Offset(page) + 1, Upto(Offset(page) + Size))

\* Mutant: every service gives the page up.
ThrowAlways == ToSet(Items) \cap Unplaced # {}

\* _parse_listing, _summary_to_listing, parseEstate: an ad that makes no sense
\* is left out; parseEstate throws for one without coordinates.
Sound == ToSet(Items) \ Odd
Throws == reader = "sreality" /\ ToSet(Items) \cap Unplaced # {}

Failed ==
    /\ phase' = "idle"
    /\ failures' = (failures + 1) % 3     \* the third one restarts the process
    /\ blocked' = IF failures = 2 THEN 0 ELSE blocked

FetchPage ==
    /\ phase = "list" /\ ~Throws
    /\ got' = got \cup Sound
    /\ tries' = 0
    /\ IF Items = <<>> \/ page + 1 = PagesOf(reader)
       THEN phase' = "fetched" /\ UNCHANGED page
       ELSE page' = page + 1 /\ UNCHANGED phase
    /\ UNCHANGED <<reader, board, gone, window, shrunk, stored, blocked, failures, faults, script>>

PageThrows ==
    /\ phase = "list" /\ Throws
    /\ Failed
    /\ UNCHANGED <<reader, board, gone, page, tries, got, window, shrunk, stored, faults, script>>

Fault == faults < Faults /\ faults' = faults + 1

\* bot-bazos takes a 404 for the end of the category.
NotFound ==
    /\ phase = "list" /\ reader = "bazos" /\ Fault
    /\ phase' = "fetched" /\ shrunk' = TRUE
    /\ UNCHANGED <<reader, board, gone, page, tries, got, window, stored, blocked, failures, script>>

\* bot-bezrealitky tries three times when the transport or the server fails.
RequestFails ==
    /\ phase = "list" /\ Fault
    /\ \/ /\ reader = "bezrealitky" /\ tries < 2 /\ tries' = tries + 1
          /\ UNCHANGED <<phase, failures, blocked>>
       \/ Failed /\ UNCHANGED tries
    /\ UNCHANGED <<reader, board, gone, page, got, window, shrunk, stored, script>>

StopOnRefusal ==
    /\ phase' = "idle" /\ blocked' = Backoff
    /\ UNCHANGED <<tries, failures>>

\* 403 and 429 put bot-bezrealitky off; for the others they are failures.
Refused ==
    /\ phase = "list" /\ Fault
    /\ IF reader = "bezrealitky" THEN StopOnRefusal
       ELSE Failed /\ UNCHANGED tries
    /\ UNCHANGED <<reader, board, gone, page, got, window, shrunk, stored, script>>

New == got \ stored

Upsert ==
    /\ phase = "fetched"
    /\ stored' = stored \cup got
    /\ phase' = IF reader = "bezrealitky" /\ New # {} THEN "detail" ELSE "stored"
    /\ UNCHANGED <<reader, board, gone, page, tries, got, window, shrunk, blocked, failures, faults, script>>

\* enrich_with_detail: the budget is spent, or the portal refuses, which ends
\* the phase without a back-off.
Enrich ==
    /\ phase = "detail"
    /\ phase' = "stored"
    /\ UNCHANGED <<reader, board, gone, page, tries, got, window, shrunk, stored, blocked, failures, faults, script>>

\* Any other error of a detail request fails the cycle after the upsert.
EnrichFails ==
    /\ phase = "detail" /\ Fault
    /\ Failed
    /\ UNCHANGED <<reader, board, gone, page, tries, got, window, shrunk, stored, script>>

\* Matching and publishing are the subject of NotifyPipeline.
EndCycle ==
    /\ phase = "stored"
    /\ phase' = "idle" /\ failures' = 0
    /\ got' = {} /\ window' = {} /\ page' = 0 /\ shrunk' = FALSE
    /\ UNCHANGED <<reader, board, gone, tries, stored, blocked, faults, script>>

\* The process is replaced: it forgets the back-off.
Restart ==
    /\ Fault
    /\ phase' = "idle" /\ failures' = 0 /\ blocked' = 0
    /\ UNCHANGED <<reader, board, gone, page, tries, got, window, shrunk, stored, script>>

-----------------------------------------------------------------------------
\* scripts/backfill-listings.ts, run by hand beside bot-sreality.
StartBackfill ==
    /\ reader = "sreality" /\ script.step = "idle"
    /\ script' = [NoScript EXCEPT
         !.step = "page", !.owed = ToSet(board) \ (Odd \cup Unplaced)]
    /\ UNCHANGED <<reader, board, gone, stored, faults, cycleVars>>

ScriptItems == SubSeq(board, script.page * PerPage + 1,
                      Upto((script.page + 1) * PerPage))

\* An ad that cannot be parsed is skipped, one without coordinates too.
Flushed == stored \cup (ToSet(ScriptItems) \ (Odd \cup Unplaced))

\* A page that is not full is the last one.
BackfillPage ==
    /\ script.step = "page"
    /\ stored' = Flushed
    /\ script' = IF Len(ScriptItems) < PerPage
                 THEN [NoScript EXCEPT !.step = "complete", !.owed = script.owed]
                 ELSE [script EXCEPT !.tries = 0, !.page = @ + 1]
    /\ UNCHANGED <<reader, board, gone, faults, cycleVars>>

GaveUp == [NoScript EXCEPT !.step = "gave up"]

BackfillRequestFails ==
    /\ script.step = "page" /\ Fault
    /\ script' = IF script.tries < RetryLimit
                 THEN [script EXCEPT !.tries = @ + 1]
                 ELSE GaveUp
    /\ UNCHANGED <<reader, board, gone, stored, cycleVars>>

\* The write of a page fails, part of it done, or the script is stopped.
BackfillDies ==
    /\ script.step = "page" /\ Fault
    /\ \E part \in SUBSET Flushed : stored' = stored \cup part
    /\ script' = GaveUp
    /\ UNCHANGED <<reader, board, gone, cycleVars>>

Cycle == StartCycle \/ FetchPage \/ PageThrows \/ Upsert \/ Enrich \/ EndCycle

FetchNext ==
    \/ Cycle \/ Tick
    \/ \E a \in Ads : Post(a) \/ Withdraw(a)
    \/ NotFound \/ RequestFails \/ Refused \/ EnrichFails \/ Restart
    \/ StartBackfill \/ BackfillPage \/ BackfillRequestFails \/ BackfillDies

FetchSpec == FetchInit /\ [][FetchNext]_fetchVars

-----------------------------------------------------------------------------
\* Ads posted while the pages are read push the others towards later pages,
\* never to an earlier one: a cycle that saw no ad withdrawn has every ad of the
\* first pages that has not been pushed past them, and a backfill that came to
\* its end has stored every ad that was there when it began.
PostsHideNothing ==
    /\ phase \in {"fetched", "detail", "stored"} /\ ~shrunk
        => (window \cap ToSet(FirstPages)) \ Odd \subseteq got
    /\ script.step = "complete" => script.owed \subseteq stored

\* An ad that stays on the first pages is stored in the end, whatever failed;
\* only an ad without coordinates keeps bot-sreality from its neighbours.
ShownIsStored ==
    \A a \in Ads \ (Odd \cup Unplaced) :
        a \in ToSet(board) ~> \/ a \in stored
                              \/ a \notin ToSet(FirstPages)
                              \/ reader = "sreality" /\ ToSet(FirstPages) \cap Unplaced # {}
=============================================================================
