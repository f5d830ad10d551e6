--------------------------- MODULE MCBotLifecycle ---------------------------
(* Small instances of BotLifecycle; requests, janitors and configs are      *)
(* interchangeable.                                                         *)
EXTENDS BotLifecycle, TLC

Symmetry ==
    Permutations(Config) \cup Permutations(Request) \cup Permutations(Janitor)

(* The age of an entry or a document that is not there decides nothing: the *)
(* guards ask for it only with the record, and a new record starts at 0.    *)
AgesOfRecords ==
    <<account, row, emails, doc, saved, req, pass, faults, crossed,
      [c \in Config |-> IF row[c] \in Minted THEN rowAge[c] ELSE 0],
      [c \in Config |-> IF doc[c] # "none" THEN docAge[c] ELSE 0]>>
=============================================================================
