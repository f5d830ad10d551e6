-------------------------- MODULE MCNotifyPipeline --------------------------
(* Small instances of NotifyPipeline: two users, the first with two configs *)
(* whose matches overlap.                                                   *)
EXTENDS NotifyPipeline

CONSTANTS u1, u2, c1, c2, c3, l1, l2

Owners == [c \in Config |-> IF c = c3 THEN u2 ELSE u1]

(* c1 and c3 match every listing, c2 only the first. *)
Matches == [c \in Config |-> IF c = c2 THEN {l1} ELSE Listing]
=============================================================================
