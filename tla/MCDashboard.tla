---------------------------- MODULE MCDashboard ----------------------------
(* Three parts of the dashboard that share no state, side by side: a         *)
(* behaviour is one of a single part, while the others stay as they are.     *)
EXTENDS InboxStream, HeatmapCache, UnsubscribePage, TLC

VARIABLE part

D(p) == [price |-> p, located |-> TRUE]
Nowhere(p) == [price |-> p, located |-> FALSE]

\* Nothing, three listings, then seven of which one is not on the map.
CrawledListings ==
    << <<>>, <<D(3), D(1), D(2)>>,
       <<D(5), D(2), Nowhere(9), D(2), D(4), D(7), D(3)>> >>

NoUnsubscribe ==
    Init /\ status = [b \in Bot |-> "stopped"] /\ emails = {}

DashboardInit ==
    /\ part \in {"inbox", "heatmap", "unsubscribe"}
    /\ InboxInit /\ HeatInit /\ Init
    /\ part # "unsubscribe" => NoUnsubscribe

DashboardNext ==
    /\ UNCHANGED part
    /\ \/ part = "inbox" /\ InboxNext /\ UNCHANGED <<heatVars, vars>>
       \/ part = "heatmap" /\ HeatNext /\ UNCHANGED <<inboxVars, vars>>
       \/ part = "unsubscribe" /\ Next /\ UNCHANGED <<inboxVars, heatVars>>

DashboardSpec == DashboardInit /\ [][DashboardNext]_<<part, inboxVars, heatVars, vars>>

CreatedInTurn == [r \in Rows |-> r]

Symm == Permutations(Tabs)
=============================================================================
