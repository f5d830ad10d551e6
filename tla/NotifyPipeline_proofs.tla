------------------------ MODULE NotifyPipeline_proofs -----------------------
(***************************************************************************)
(* Proofs about NotifyPipeline, for any users, configs, listings and        *)
(* bounds.                                                                  *)
(***************************************************************************)
EXTENDS NotifyPipeline, SequenceTheorems, TLAPS

(* The functions upserts and mails are updated with have the right type.    *)
LEMMA UpsertedType ==
    ASSUME rowCfgs \in [Key -> SUBSET Config], NEW S
    PROVE  Upserted(S) \in [Key -> SUBSET Config]
BY DEF Upserted

LEMMA MailedType ==
    ASSUME mails \in [Key -> Nat], NEW S
    PROVE  Mailed(S) \in [Key -> Nat]
BY DEF Mailed

(* The consumer's head of the queue is a user, and what follows it is a     *)
(* queue.                                                                   *)
LEMMA HeadType ==
    ASSUME queue \in Seq(User), queue # << >>
    PROVE  Head(queue) \in User /\ Tail(queue) \in Seq(User)
OBVIOUS

LEMMA AppendHeld ==
    ASSUME queue \in Seq(User), NEW u \in User
    PROVE  /\ Append(queue, u) \in Seq(User)
           /\ Append(queue, u) # << >>
           /\ queue # << >> => Head(Append(queue, u)) = Head(queue)
<1>1. /\ Append(queue, u) \in Seq(User)
      /\ Append(queue, u) # << >>
      /\ \A i \in 1 .. Len(queue) : Append(queue, u)[i] = queue[i]
    BY AppendProperties
<1>2. ASSUME queue # << >>
      PROVE  Head(Append(queue, u)) = Head(queue)
    BY <1>1, <1>2
<1>3. QED
    BY <1>1, <1>2

(* No step empties the queue under the consumer's hand.                     *)
LEMMA HeldStep == TypeOK /\ HeadHeld /\ [Next]_vars => HeadHeld'
<1> SUFFICES ASSUME TypeOK, HeadHeld, [Next]_vars
             PROVE  HeadHeld'
    OBVIOUS
<1> USE DEF HeadHeld, Waiting
<1>0. queue \in Seq(User)
    BY DEF TypeOK
<1>1. ASSUME UNCHANGED <<queue, flush>>
      PROVE  HeadHeld'
    BY <1>1
<1>2. ASSUME NEW S \in SUBSET Listing, FetchListings(S) \/ UpsertFails(S)
      PROVE  HeadHeld'
    BY <1>2, <1>1 DEF FetchListings, UpsertFails
<1>3. ASSUME NEW u \in User, InsertNotifications(u) \/ InsertFails(u)
      PROVE  HeadHeld'
    BY <1>3, <1>1 DEF InsertNotifications, InsertFails
<1>4. ASSUME NEW u \in User,
             PublishBotProcessed(u) \/ PublishFails(u) \/ PublishLost(u)
      PROVE  HeadHeld'
    BY <1>4, <1>0, <1>1, AppendHeld
    DEF PublishBotProcessed, PublishFails, PublishLost
<1>5. CASE UpsertListings \/ MatchConfigs
    BY <1>5, <1>1 DEF UpsertListings, MatchConfigs
<1>6. CASE ConsumeStep
    BY <1>6 DEF ConsumeStep, FetchUser, SkipEvent, FetchUnsent, SendDigest,
                SendRefused, MarkSent, Ack
<1>7. ASSUME NEW S \in SUBSET Listing, MarkFails(S)
      PROVE  HeadHeld'
    BY <1>7 DEF MarkFails
<1>8. CASE FetchFails \/ MatchFails \/ ScraperCrash
    BY <1>8, <1>1 DEF FetchFails, MatchFails, ScraperCrash
<1>9. CASE SendFails \/ ConsumerCrash
    BY <1>9 DEF SendFails, ConsumerCrash
<1>10. CASE Environment
    BY <1>10, <1>1 DEF Environment, SetActive, SetOptedIn, DeleteAccount,
                       Migrate
<1>11. CASE UNCHANGED vars
    BY <1>11, <1>1 DEF vars
<1>12. QED
    BY <1>2, <1>3, <1>4, <1>5, <1>6, <1>7, <1>8, <1>9, <1>10, <1>11
       DEF Next, ScrapeStep, Failure

(* The type invariant of the pipeline is preserved by each of its steps.    *)
LEMMA TypeStep == TypeOK /\ HeadHeld /\ [Next]_vars => TypeOK'
<1> SUFFICES ASSUME TypeOK, HeadHeld, [Next]_vars
             PROVE  TypeOK'
    OBVIOUS
<1>a. flush.step # "idle" =>
          Head(queue) \in User /\ Tail(queue) \in Seq(User)
    BY HeadType DEF TypeOK, HeadHeld
<1> USE OwnerAssumption, MatchAssumption, SubsetAssumption, BoundAssumption
        DEF TypeOK, dbVars, histVars, Idle, Waiting
<1>1. ASSUME NEW S \in SUBSET Listing, FetchListings(S)
      PROVE  TypeOK'
    BY <1>1 DEF FetchListings
<1>2. CASE UpsertListings
    BY <1>2 DEF UpsertListings, EndCycle
<1>3. CASE MatchConfigs
    <2>1. Found \subseteq Config \X Listing
        BY DEF Found
    <2>2. QED
        BY <1>3, <2>1 DEF MatchConfigs, EndCycle
<1>4. ASSUME NEW u \in User, InsertNotifications(u)
      PROVE  TypeOK'
    BY <1>4, UpsertedType DEF InsertNotifications, RowsOf, EndCycle
<1>5. ASSUME NEW u \in User, PublishBotProcessed(u)
      PROVE  TypeOK'
    BY <1>5 DEF PublishBotProcessed, NextUser, EndCycle
<1>6. CASE FetchUser
    BY <1>6 DEF FetchUser
<1>7. CASE SkipEvent
    BY <1>7 DEF SkipEvent
<1>8. CASE FetchUnsent
    <2>1. UnsentOf(Head(queue)) \in SUBSET Listing
        BY DEF UnsentOf
    <2>2. flush' \in [step : {"idle", "rows", "send", "mark", "ack"},
                      digest : SUBSET Listing]
        BY <1>8, <2>1 DEF FetchUnsent
    <2>3. QED
        BY <1>8, <2>2 DEF FetchUnsent
<1>9. CASE SendDigest
    BY <1>9, MailedType DEF SendDigest
<1>10. CASE SendRefused
    BY <1>10 DEF SendRefused
<1>11. CASE MarkSent
    <2>1. InHand \subseteq Key
        BY <1>11, <1>a DEF MarkSent, InHand, Key
    <2>2. QED
        BY <1>11, <2>1 DEF MarkSent
<1>12. CASE Ack
    BY <1>12, <1>a DEF Ack
<1>13. CASE FetchFails
    BY <1>13 DEF FetchFails, FailCycle, Fault
<1>14. ASSUME NEW S \in SUBSET Listing, UpsertFails(S)
       PROVE  TypeOK'
    BY <1>14 DEF UpsertFails, FailCycle, Fault
<1>15. ASSUME NEW S \in SUBSET Listing, MarkFails(S)
       PROVE  TypeOK'
    <2>1. {Head(queue)} \X S \subseteq Key
        BY <1>15, <1>a DEF MarkFails, Key
    <2>2. QED
        BY <1>15, <2>1 DEF MarkFails, Fault
<1>16. CASE MatchFails
    BY <1>16 DEF MatchFails, FailCycle, Fault
<1>17. ASSUME NEW u \in User, InsertFails(u)
       PROVE  TypeOK'
    BY <1>17, UpsertedType DEF InsertFails, FailCycle, Fault
<1>18. ASSUME NEW u \in User, PublishFails(u)
       PROVE  TypeOK'
    <2>1. queue' \in Seq(User)
        BY <1>18, AppendHeld DEF PublishFails
    <2>2. QED
        BY <1>18, <2>1 DEF PublishFails, FailCycle, Fault
<1>18a. ASSUME NEW u \in User, PublishLost(u)
        PROVE  TypeOK'
    BY <1>18a DEF PublishLost, NextUser, EndCycle, Fault
<1>19. CASE ScraperCrash
    BY <1>19 DEF ScraperCrash, Fault
<1>20. CASE SendFails
    BY <1>20, MailedType DEF SendFails, Fault
<1>21. CASE ConsumerCrash
    BY <1>21 DEF ConsumerCrash, Fault
<1>22. CASE Environment
    BY <1>22 DEF Environment, SetActive, SetOptedIn, DeleteAccount, Migrate,
                 Change, Flip
<1>23. CASE UNCHANGED vars
    BY <1>23 DEF vars
<1>24. QED
    BY <1>1, <1>2, <1>3, <1>4, <1>5, <1>6, <1>7, <1>8, <1>9, <1>10, <1>11,
       <1>12, <1>13, <1>14, <1>15, <1>16, <1>17, <1>18, <1>18a, <1>19,
       <1>20, <1>21, <1>22, <1>23 DEF Next, ScrapeStep, ConsumeStep, Failure

(* Every variable of the pipeline keeps its type.                           *)
THEOREM TypeCorrect == Spec => []TypeOK
<1>1. Init => TypeOK
    BY OwnerAssumption, MatchAssumption, SubsetAssumption, BoundAssumption
       DEF Init, TypeOK, Idle, Waiting
<1>2. Init => HeadHeld
    BY DEF Init, HeadHeld, Waiting
<1>3. QED
    BY <1>1, <1>2, TypeStep, HeldStep, PTL DEF Spec

-----------------------------------------------------------------------------
(* Upserting only adds config ids, and only to rows of their owner.         *)
LEMMA UpsertedGrows ==
    ASSUME rowCfgs \in [Key -> SUBSET Config], NEW S, rowCfgs' = Upserted(S)
    PROVE  /\ Rows \subseteq Rows'
           /\ \A k \in Key : \A c \in rowCfgs'[k] :
                 \/ c \in rowCfgs[k]
                 \/ c \in Config /\ Owner[c] = k[1] /\ <<c, k[2]>> \in S
<1>1. \A k \in Key : rowCfgs'[k] = rowCfgs[k] \cup
          {c \in Config : Owner[c] = k[1] /\ <<c, k[2]>> \in S}
    BY DEF Upserted
<1>2. Rows \subseteq Rows'
    BY <1>1 DEF Rows
<1>3. QED
    BY <1>1, <1>2

(* An upsert of matches keeps the rows about matches.                       *)
LEMMA UpsertedMatches ==
    ASSUME TypeOK, MatchInv, NEW S \in SUBSET cycle.found,
           rowCfgs' = Upserted(S)
    PROVE  RowsAreOwnMatches'
<1>1. \A k \in Key : \A c \in rowCfgs'[k] :
          \/ c \in rowCfgs[k]
          \/ c \in Config /\ Owner[c] = k[1] /\ <<c, k[2]>> \in S
    BY UpsertedGrows DEF TypeOK
<1>2. \A c, l : <<c, l>> \in S => l \in Match[c]
    BY DEF MatchInv
<1>3. QED
    BY <1>1, <1>2 DEF RowsAreOwnMatches, MatchInv

(* No step makes a row that is not about a match of its user's own config.  *)
LEMMA MatchStep == TypeOK /\ MatchInv /\ [Next]_vars => MatchInv'
<1> SUFFICES ASSUME TypeOK, MatchInv, [Next]_vars
             PROVE  MatchInv'
    OBVIOUS
<1> USE DEF dbVars, Idle
<1>1. ASSUME rowCfgs' = rowCfgs, cycle'.found \subseteq cycle.found
      PROVE  MatchInv'
    BY <1>1 DEF MatchInv, RowsAreOwnMatches
<1>2. ASSUME NEW S \in SUBSET Listing, FetchListings(S)
      PROVE  MatchInv'
    BY <1>2, <1>1 DEF FetchListings
<1>3. CASE UpsertListings
    BY <1>3, <1>1 DEF UpsertListings, EndCycle
<1>4. CASE MatchConfigs
    <2>1. \A m \in Found : m[2] \in Match[m[1]]
        BY DEF Found
    <2>2. \A m \in cycle'.found : m[2] \in Match[m[1]]
        BY <1>4, <2>1 DEF MatchConfigs, EndCycle
    <2>3. RowsAreOwnMatches'
        BY <1>4 DEF MatchConfigs, MatchInv, RowsAreOwnMatches
    <2>4. QED
        BY <2>2, <2>3 DEF MatchInv
<1>5. ASSUME NEW u \in User, InsertNotifications(u)
      PROVE  MatchInv'
    <2>1. RowsAreOwnMatches'
        BY <1>5, UpsertedMatches DEF InsertNotifications, RowsOf
    <2>2. cycle'.found \subseteq cycle.found
        BY <1>5 DEF InsertNotifications, EndCycle
    <2>3. QED
        BY <2>1, <2>2 DEF MatchInv
<1>6. ASSUME NEW u \in User, InsertFails(u)
      PROVE  MatchInv'
    <2>1. RowsAreOwnMatches'
        BY <1>6, UpsertedMatches DEF InsertFails, RowsOf
    <2>2. cycle'.found \subseteq cycle.found
        BY <1>6 DEF InsertFails, FailCycle
    <2>3. QED
        BY <2>1, <2>2 DEF MatchInv
<1>7. ASSUME NEW u \in User,
             PublishBotProcessed(u) \/ PublishFails(u) \/ PublishLost(u)
      PROVE  MatchInv'
    BY <1>7, <1>1 DEF PublishBotProcessed, PublishFails, PublishLost, NextUser,
                      EndCycle, FailCycle
<1>8. CASE ConsumeStep
    BY <1>8, <1>1 DEF ConsumeStep, FetchUser, SkipEvent, FetchUnsent,
                      SendDigest, SendRefused, MarkSent, Ack
<1>9. CASE FetchFails \/ MatchFails \/ ScraperCrash
    BY <1>9, <1>1 DEF FetchFails, MatchFails, ScraperCrash, FailCycle
<1>10. ASSUME NEW S \in SUBSET Listing, UpsertFails(S) \/ MarkFails(S)
       PROVE  MatchInv'
    BY <1>10, <1>1 DEF UpsertFails, MarkFails, FailCycle
<1>11. CASE SendFails \/ ConsumerCrash
    BY <1>11, <1>1 DEF SendFails, ConsumerCrash
<1>12. CASE Environment
    BY <1>12, <1>1 DEF Environment, SetActive, SetOptedIn, DeleteAccount,
                       Migrate
<1>13. CASE UNCHANGED vars
    BY <1>13, <1>1 DEF vars
<1>14. QED
    BY <1>2, <1>3, <1>4, <1>5, <1>6, <1>7, <1>8, <1>9, <1>10, <1>11, <1>12,
       <1>13 DEF Next, ScrapeStep, Failure

(* Whatever crashes and interleaves, a notification row of a user is about  *)
(* a listing that a config of that same user matches.                       *)
THEOREM RowsCorrect == Spec => []RowsAreOwnMatches
<1>1. Init => MatchInv
    BY DEF Init, MatchInv, RowsAreOwnMatches, Idle
<1>2. MatchInv => RowsAreOwnMatches
    BY DEF MatchInv
<1>3. QED
    BY TypeCorrect, <1>1, <1>2, MatchStep, PTL DEF Spec
-----------------------------------------------------------------------------
(* No lost wakeup.                                                          *)

Calm == faults = 0 /\ changes = 0

(* Somebody will look at an unsent row: its user's event is to come, is     *)
(* queued in time, or the row is in the digest in hand.                     *)
Served(k) ==
    \/ OptedInFor(k[1]) = {}
    \/ k[1] \in cycle.inserted
    \/ EventAhead(k[1])
    \/ flush.step \in {"send", "mark"} /\ k \in InHand

WakeInv ==
    Calm =>
        /\ accounts = User
        /\ cycle.step \notin {"insert", "publish"} => cycle.inserted = {}
        /\ \A k \in Unsent : Served(k)

(* While it is calm nothing fails and nobody interferes.                    *)
LEMMA CalmStep ==
    ASSUME TypeOK, Next, Calm'
    PROVE  Calm /\ (ScrapeStep \/ ConsumeStep \/ \E S \in SUBSET Listing : FetchListings(S))
<1> USE BoundAssumption DEF TypeOK, Calm
<1>1. faults \in Nat /\ changes \in Nat
    OBVIOUS
<1>2. ~Failure
    BY <1>1 DEF Failure, Fault, FailCycle, FetchFails, UpsertFails, MarkFails, MatchFails,
                InsertFails, PublishFails, PublishLost, ScraperCrash, SendFails, ConsumerCrash
<1>3. ~Environment
    BY <1>1 DEF Environment, Change, SetActive, SetOptedIn, DeleteAccount, Migrate
<1>4. ScrapeStep \/ ConsumeStep \/ \E S \in SUBSET Listing : FetchListings(S)
    BY <1>2, <1>3 DEF Next
<1>5. faults' = faults /\ changes' = changes
    BY <1>4 DEF ScrapeStep, ConsumeStep, FetchListings, UpsertListings, MatchConfigs,
                InsertNotifications, PublishBotProcessed, FetchUser, SkipEvent, FetchUnsent,
                SendDigest, SendRefused, MarkSent, Ack
<1>6. QED
    BY <1>4, <1>5

(* An event that is ahead stays ahead when another is published ...         *)
LEMMA AppendedAhead ==
    ASSUME TypeOK, HeadHeld, NEW u \in User, queue' = Append(queue, u), flush' = flush
    PROVE  EventAhead(u)' /\ \A v \in User : EventAhead(v) => EventAhead(v)'
<1>1. queue \in Seq(User)
    BY DEF TypeOK
<1>2. /\ queue' \in Seq(User) /\ Len(queue') = Len(queue) + 1 /\ queue'[Len(queue) + 1] = u
      /\ \A i \in 1 .. Len(queue) : queue'[i] = queue[i]
    BY <1>1, AppendProperties
<1>3. Len(queue) \in Nat /\ (Len(queue) = 0 => queue = << >>)
    BY <1>1
<1>4. Len(queue) + 1 = 1 => flush.step \in {"idle", "rows"}
    BY <1>3 DEF HeadHeld
<1>5. EventAhead(u)'
    <2>1. Len(queue) + 1 \in 1 .. Len(queue')
        BY <1>2, <1>3
    <2>2. QED
        BY <1>2, <1>4, <2>1 DEF EventAhead
<1>6. ASSUME NEW v \in User, EventAhead(v) PROVE EventAhead(v)'
    <2>1. PICK i \in 1 .. Len(queue) :
              queue[i] = v /\ (i = 1 => flush.step \in {"idle", "rows"})
        BY <1>6 DEF EventAhead
    <2>2. i \in 1 .. Len(queue')
        BY <1>2, <1>3
    <2>3. QED
        BY <1>2, <2>1, <2>2 DEF EventAhead
<1>7. QED
    BY <1>5, <1>6

(* ... and when the one in front of it is acknowledged.                     *)
LEMMA AckedAhead ==
    ASSUME TypeOK, HeadHeld, Ack, NEW v \in User, EventAhead(v)
    PROVE  EventAhead(v)'
<1>1. queue \in Seq(User) /\ queue # << >> /\ flush.step = "ack"
    BY DEF TypeOK, HeadHeld, Ack
<1>2. PICK i \in 1 .. Len(queue) : queue[i] = v /\ i # 1
    BY <1>1 DEF EventAhead
<1>3. /\ queue' = Tail(queue) /\ flush'.step = "idle"
      /\ Len(queue') = Len(queue) - 1
      /\ \A j \in 1 .. Len(queue') : queue'[j] = queue[j + 1]
    BY <1>1, HeadTailProperties DEF Ack, Waiting
<1>4. i - 1 \in 1 .. Len(queue') /\ queue'[i - 1] = v
    <2>1. Len(queue) \in Nat /\ i \in Nat
        BY <1>1
    <2>2. i - 1 \in 1 .. Len(queue') /\ (i - 1) + 1 = i
        BY <1>2, <1>3, <2>1
    <2>3. QED
        BY <1>2, <1>3, <2>2
<1>5. QED
    BY <1>3, <1>4 DEF EventAhead

LEMMA HeadIsFirst ==
    ASSUME TypeOK, HeadHeld, flush.step # "idle" \/ queue # << >>
    PROVE  1 \in 1 .. Len(queue) /\ queue[1] = Head(queue) /\ Head(queue) \in User
<1>1. queue \in Seq(User) /\ queue # << >>
    BY DEF TypeOK, HeadHeld
<1>2. Len(queue) \in Nat \ {0}
    BY <1>1
<1>3. QED
    BY <1>1, <1>2, HeadTailProperties

(* The user whose event the consumer has in hand is served by it until the  *)
(* digest is made up, and every unsent row of that user is in the digest.   *)
LEMMA ConsumerServes ==
    ASSUME TypeOK, HeadHeld, WakeInv, ConsumeStep, Calm, Calm', NEW k \in Unsent'
    PROVE  Served(k)'
<1>0. k \in Key /\ k[1] \in User /\ k = <<k[1], k[2]>> /\ k[2] \in Listing
    BY DEF Unsent, Rows, Key
<1>1. Served(k)
    BY DEF WakeInv, Unsent, Rows, ConsumeStep, FetchUser, SkipEvent, FetchUnsent, SendDigest,
           SendRefused, MarkSent, Ack, dbVars, TypeOK
<1>2. UNCHANGED <<optedIn, cycle, accounts, rowCfgs>>
    BY DEF ConsumeStep, FetchUser, SkipEvent, FetchUnsent, SendDigest, SendRefused, MarkSent,
           Ack, dbVars
<1>3. (OptedInFor(k[1]) = {} \/ k[1] \in cycle.inserted) => Served(k)'
    BY <1>2 DEF Served, OptedInFor
<1>4. CASE FetchUser
    <2>1. flush.step = "idle" /\ flush'.step = "rows" /\ queue' = queue
        BY <1>4 DEF FetchUser
    <2>2. EventAhead(k[1]) => EventAhead(k[1])'
        BY <2>1 DEF EventAhead
    <2>3. QED
        BY <1>1, <1>3, <2>1, <2>2 DEF Served
<1>5. CASE SkipEvent
    <2>1. /\ flush.step = "idle" /\ flush'.step = "ack" /\ queue' = queue /\ queue # << >>
          /\ OptedInFor(Head(queue)) = {}
        BY <1>5, HeadIsFirst DEF SkipEvent, WakeInv
    <2>2. ASSUME EventAhead(k[1]), OptedInFor(k[1]) # {} PROVE EventAhead(k[1])'
        <3>1. PICK i \in 1 .. Len(queue) : queue[i] = k[1]
            BY <2>2 DEF EventAhead
        <3>2. i # 1
            BY <2>1, <2>2, <3>1, HeadIsFirst
        <3>3. QED
            BY <2>1, <3>1, <3>2 DEF EventAhead
    <2>3. QED
        BY <1>1, <1>3, <2>1, <2>2 DEF Served
<1>6. CASE FetchUnsent
    <2>1. /\ flush.step = "rows" /\ queue' = queue /\ flush'.step \in {"send", "ack"}
          /\ flush'.step = "send" => flush'.digest = UnsentOf(Head(queue))
          /\ flush'.step = "ack" => UnsentOf(Head(queue)) = {}
        BY <1>6 DEF FetchUnsent
    <2>2. k \in Unsent
        BY <1>6 DEF FetchUnsent, dbVars, Unsent, Rows
    <2>3. CASE k[1] = Head(queue)
        <3>1. k[2] \in UnsentOf(Head(queue))
            BY <1>0, <2>2, <2>3 DEF UnsentOf
        <3>2. flush'.step = "send" /\ k \in InHand'
            BY <1>0, <2>1, <2>3, <3>1 DEF InHand
        <3>3. QED
            BY <3>2 DEF Served
    <2>4. ASSUME k[1] # Head(queue), EventAhead(k[1]) PROVE EventAhead(k[1])'
        <3>1. PICK i \in 1 .. Len(queue) : queue[i] = k[1]
            BY <2>4 DEF EventAhead
        <3>2. i # 1
            BY <2>1, <2>4, <3>1, HeadIsFirst
        <3>3. QED
            BY <2>1, <3>1, <3>2 DEF EventAhead
    <2>5. QED
        BY <1>1, <1>3, <2>1, <2>3, <2>4 DEF Served
<1>7. CASE SendDigest
    <2>1. flush.step = "send" /\ queue' = queue /\ flush'.step = "mark" /\ InHand' = InHand
        BY <1>7 DEF SendDigest, InHand
    <2>2. EventAhead(k[1]) => EventAhead(k[1])'
        BY <2>1 DEF EventAhead
    <2>3. QED
        BY <1>1, <1>3, <2>1, <2>2 DEF Served
<1>8. CASE SendRefused
    <2>1. flush.step = "send" /\ queue' = queue /\ flush'.step = "idle"
        BY <1>8 DEF SendRefused, Waiting
    <2>2. EventAhead(k[1]) => EventAhead(k[1])'
        BY <2>1 DEF EventAhead
    <2>3. k \in InHand => EventAhead(k[1])'
        BY <1>0, <2>1, HeadIsFirst DEF EventAhead, InHand
    <2>4. QED
        BY <1>1, <1>3, <2>2, <2>3 DEF Served
<1>9. CASE MarkSent
    <2>1. flush.step = "mark" /\ queue' = queue /\ flush'.step = "ack" /\ k \notin InHand
        BY <1>9 DEF MarkSent, Unsent
    <2>2. EventAhead(k[1]) => EventAhead(k[1])'
        BY <2>1 DEF EventAhead
    <2>3. QED
        BY <1>1, <1>3, <2>1, <2>2 DEF Served
<1>10. CASE Ack
    <2>1. flush.step = "ack"
        BY <1>10 DEF Ack
    <2>2. QED
        BY <1>0, <1>1, <1>3, <1>10, <2>1, AckedAhead DEF Served
<1>11. QED
    BY <1>4, <1>5, <1>6, <1>7, <1>8, <1>9, <1>10 DEF ConsumeStep

(* A cycle that makes a row new remembers its user until it has told.       *)
LEMMA CycleServes ==
    ASSUME TypeOK, HeadHeld, WakeInv, Calm, NEW k \in Unsent',
           ScrapeStep \/ \E S \in SUBSET Listing : FetchListings(S)
    PROVE  Served(k)'
<1>0. k \in Key /\ k[1] \in User /\ k = <<k[1], k[2]>> /\ k[2] \in Listing
    BY DEF Unsent, Rows, Key
<1>1. UNCHANGED <<optedIn, flush>>
    BY DEF ScrapeStep, FetchListings, UpsertListings, MatchConfigs, InsertNotifications,
           PublishBotProcessed, dbVars
<1>2. OptedInFor(k[1])' = OptedInFor(k[1])
    BY <1>1 DEF OptedInFor
<1>3. CASE UpsertListings \/ MatchConfigs \/ \E S \in SUBSET Listing : FetchListings(S)
    <2>1. UNCHANGED <<rowCfgs, sent, queue>> /\ cycle.step \in {"idle", "upsert", "match"}
        BY <1>3 DEF FetchListings, UpsertListings, MatchConfigs, dbVars
    <2>2. cycle.inserted = {}
        BY <2>1 DEF WakeInv
    <2>3. k \in Unsent
        BY <2>1 DEF Unsent, Rows
    <2>4. EventAhead(k[1])' = EventAhead(k[1]) /\ InHand' = InHand
        BY <1>1, <2>1 DEF EventAhead, InHand
    <2>5. QED
        BY <1>1, <1>2, <2>2, <2>3, <2>4 DEF Served, WakeInv
<1>4. ASSUME NEW u \in User, InsertNotifications(u) PROVE Served(k)'
    <2>1. /\ rowCfgs' = Upserted(RowsOf(u)) /\ UNCHANGED <<sent, queue>>
          /\ cycle.inserted \subseteq cycle'.inserted
          /\ (\E m \in RowsOf(u) : <<u, m[2]>> \notin Rows) => u \in cycle'.inserted
        BY <1>4 DEF InsertNotifications, EndCycle, Idle
    <2>2. EventAhead(k[1])' = EventAhead(k[1]) /\ InHand' = InHand
        BY <1>1, <2>1 DEF EventAhead, InHand
    <2>3. CASE k \in Rows
        <3>1. k \in Unsent
            BY <2>1, <2>3 DEF Unsent
        <3>2. QED
            BY <1>1, <1>2, <2>1, <2>2, <3>1 DEF Served, WakeInv
    <2>4. CASE k \notin Rows
        <3>1. rowCfgs[k] = {} /\ rowCfgs'[k] # {}
            BY <1>0, <2>4 DEF Rows, Unsent
        <3>2. PICK c \in Config : Owner[c] = k[1] /\ <<c, k[2]>> \in RowsOf(u)
            BY <1>0, <2>1, <3>1 DEF Upserted
        <3>3. k[1] = u
            BY <3>2 DEF RowsOf
        <3>4. <<u, k[2]>> \notin Rows
            BY <1>0, <2>4, <3>3
        <3>5. u \in cycle'.inserted
            BY <2>1, <3>2, <3>4
        <3>6. QED
            BY <3>3, <3>5 DEF Served
    <2>5. QED
        BY <2>3, <2>4
<1>5. ASSUME NEW u \in User, PublishBotProcessed(u) PROVE Served(k)'
    <2>1. queue' = Append(queue, u) /\ UNCHANGED <<rowCfgs, sent>>
        BY <1>5 DEF PublishBotProcessed, dbVars
    <2>2. k \in Unsent
        BY <2>1 DEF Unsent, Rows
    <2>3. EventAhead(u)' /\ (EventAhead(k[1]) => EventAhead(k[1])')
        BY <1>0, <1>1, <2>1, AppendedAhead
    <2>4. cycle.inserted \ {u} \subseteq cycle'.inserted
        BY <1>5 DEF PublishBotProcessed, NextUser, EndCycle
    <2>5. flush.step \in {"send", "mark"} => InHand' = InHand
        <3>1. ASSUME flush.step \in {"send", "mark"} PROVE InHand' = InHand
            <4>1. queue # << >>
                BY <3>1 DEF HeadHeld
            <4>2. Head(queue') = Head(queue)
                BY <2>1, <4>1, AppendHeld DEF TypeOK
            <4>3. QED
                BY <1>1, <4>2 DEF InHand
        <3>2. QED
            BY <3>1
    <2>6. Served(k)
        BY <2>2 DEF WakeInv
    <2>7. QED
        BY <1>1, <1>2, <2>3, <2>4, <2>5, <2>6 DEF Served
<1>6. QED
    BY <1>3, <1>4, <1>5 DEF ScrapeStep

LEMMA WakeStep == TypeOK /\ HeadHeld /\ WakeInv /\ [Next]_vars => WakeInv'
<1> SUFFICES ASSUME TypeOK, HeadHeld, WakeInv, [Next]_vars, Calm'
             PROVE  /\ accounts' = User
                    /\ cycle'.step \notin {"insert", "publish"} => cycle'.inserted = {}
                    /\ \A k \in Unsent' : Served(k)'
    BY DEF WakeInv
<1>1. CASE UNCHANGED vars
    BY <1>1 DEF vars, WakeInv, Calm, Unsent, Rows, Served, OptedInFor, EventAhead, InHand
<1>2. CASE Next
    <2>1. Calm /\ (ScrapeStep \/ ConsumeStep \/ \E S \in SUBSET Listing : FetchListings(S))
        BY <1>2, CalmStep
    <2>2. accounts' = User
        BY <2>1 DEF WakeInv, ScrapeStep, ConsumeStep, FetchListings, UpsertListings,
                    MatchConfigs, InsertNotifications, PublishBotProcessed, FetchUser,
                    SkipEvent, FetchUnsent, SendDigest, SendRefused, MarkSent, Ack, dbVars
    <2>3. cycle'.step \notin {"insert", "publish"} => cycle'.inserted = {}
        <3>1. CASE ConsumeStep
            BY <2>1, <3>1 DEF WakeInv, ConsumeStep, FetchUser, SkipEvent, FetchUnsent,
                              SendDigest, SendRefused, MarkSent, Ack
        <3>2. CASE ~ConsumeStep
            BY <2>1, <3>2 DEF WakeInv, ScrapeStep, FetchListings, UpsertListings,
                    MatchConfigs, InsertNotifications, PublishBotProcessed, NextUser,
                    EndCycle, Idle
        <3>3. QED
            BY <3>1, <3>2
    <2>4. \A k \in Unsent' : Served(k)'
        BY <2>1, ConsumerServes, CycleServes
    <2>5. QED
        BY <2>2, <2>3, <2>4
<1>3. QED
    BY <1>1, <1>2

(* As long as no call fails and no user changes anything, every unsent row   *)
(* of a user who takes mail is in the digest in hand or has an event that    *)
(* will find it: rows that arrive between the fetch and the mark, and events *)
(* that are acknowledged without a digest, wake somebody all the same.       *)
THEOREM NobodyIsForgotten == Spec => []NoLostWakeup
<1>1. Init => TypeOK /\ HeadHeld /\ WakeInv
    <2>1. Init => WakeInv
        BY DEF Init, WakeInv, Unsent, Rows, Idle
    <2>2. Init => TypeOK /\ HeadHeld
        BY OwnerAssumption, MatchAssumption, SubsetAssumption, BoundAssumption
           DEF Init, TypeOK, HeadHeld, Idle, Waiting
    <2>3. QED
        BY <2>1, <2>2
<1>2. TypeOK /\ HeadHeld /\ WakeInv /\ [Next]_vars => TypeOK' /\ HeadHeld' /\ WakeInv'
    BY TypeStep, HeldStep, WakeStep
<1>3. WakeInv => NoLostWakeup
    BY DEF WakeInv, NoLostWakeup, Calm, Served
<1>4. QED
    BY <1>1, <1>2, <1>3, PTL DEF Spec

-----------------------------------------------------------------------------
(***************************************************************************)
(* What the pipeline delivers: the inductive invariant DeliveryInv, the     *)
(* bound on duplicates, and the refinement of DigestDelivery.               *)
(***************************************************************************)

LEMMA MailedAt ==
    ASSUME mails \in [Key -> Nat], NEW S, mails' = Mailed(S), NEW k \in Key
    PROVE  /\ k \in S => mails'[k] = mails[k] + 1
           /\ k \notin S => mails'[k] = mails[k]
BY DEF Mailed

(* A step that keeps what the consumer knows keeps the invariant: every     *)
(* step of the scraper, of the users and of a migration.                    *)
LEMMA QuietStep ==
    ASSUME TypeOK, DeliveryInv, HeadHeld',
           UNCHANGED <<mails, lostMarks, sent, flush>>,
           Rows \subseteq Rows',
           flush.step # "idle" => Head(queue') = Head(queue)
    PROVE  DeliveryInv'
<1> USE DEF DeliveryInv
<1>1. flush.step # "idle" => InHand' = InHand
    BY DEF InHand
<1>2. Unsent \subseteq Unsent'
    BY DEF Unsent
<1>3. HandInv'
    BY <1>1, <1>2 DEF HandInv
<1>4. MailBound'
    BY <1>1 DEF MailBound
<1>5. (sent \subseteq Rows)' /\ SentWasMailed'
    BY DEF SentWasMailed
<1>6. QED
    BY <1>3, <1>4, <1>5

(* The queue grows at its end.                                              *)
LEMMA QueueGrows ==
    ASSUME TypeOK, HeadHeld, NEW u \in User,
           queue' \in {queue, Append(queue, u)}
    PROVE  flush.step # "idle" => Head(queue') = Head(queue)
BY AppendHeld DEF TypeOK, HeadHeld

(* Upserts keep every row.                                                  *)
LEMMA UpsertKeeps ==
    ASSUME TypeOK, NEW S, rowCfgs' = Upserted(S)
    PROVE  Rows \subseteq Rows'
BY UpsertedGrows DEF TypeOK

LEMMA ScraperKeeps ==
    ASSUME TypeOK, DeliveryInv, HeadHeld',
           \/ \E S \in SUBSET Listing : FetchListings(S) \/ UpsertFails(S)
           \/ ScrapeStep
           \/ FetchFails \/ MatchFails \/ ScraperCrash
           \/ \E u \in User :
                 InsertFails(u) \/ PublishFails(u) \/ PublishLost(u)
           \/ Environment
           \/ UNCHANGED vars
    PROVE  DeliveryInv'
<1> USE DEF dbVars, histVars
<1>0. HeadHeld
    BY DEF DeliveryInv
<1>1. ASSUME UNCHANGED <<mails, lostMarks, sent, flush, queue, rowCfgs>>
      PROVE  DeliveryInv'
    <2>1. Rows \subseteq Rows'
        BY <1>1 DEF Rows
    <2>2. QED
        BY <1>1, <2>1, QuietStep
<1>2. ASSUME NEW S \in SUBSET Listing, FetchListings(S) \/ UpsertFails(S)
      PROVE  DeliveryInv'
    BY <1>2, <1>1 DEF FetchListings, UpsertFails
<1>3. CASE UpsertListings \/ MatchConfigs
    BY <1>3, <1>1 DEF UpsertListings, MatchConfigs
<1>4. ASSUME NEW u \in User, InsertNotifications(u) \/ InsertFails(u)
      PROVE  DeliveryInv'
    <2>1. Rows \subseteq Rows'
        BY <1>4, UpsertKeeps DEF InsertNotifications, InsertFails
    <2>2. UNCHANGED <<mails, lostMarks, sent, flush, queue>>
        BY <1>4 DEF InsertNotifications, InsertFails
    <2>3. QED
        BY <2>1, <2>2, QuietStep
<1>5. ASSUME NEW u \in User,
             PublishBotProcessed(u) \/ PublishFails(u) \/ PublishLost(u)
      PROVE  DeliveryInv'
    <2>1. flush.step # "idle" => Head(queue') = Head(queue)
        BY <1>0, <1>5, QueueGrows
        DEF PublishBotProcessed, PublishFails, PublishLost
    <2>2. UNCHANGED <<mails, lostMarks, sent, flush, rowCfgs>>
        BY <1>5 DEF PublishBotProcessed, PublishFails, PublishLost
    <2>3. Rows \subseteq Rows'
        BY <2>2 DEF Rows
    <2>4. QED
        BY <2>1, <2>2, <2>3, QuietStep
<1>6. CASE FetchFails \/ MatchFails \/ ScraperCrash
    BY <1>6, <1>1 DEF FetchFails, MatchFails, ScraperCrash
<1>7. CASE Environment
    BY <1>7, <1>1 DEF Environment, SetActive, SetOptedIn, DeleteAccount,
                      Migrate
<1>8. CASE UNCHANGED vars
    BY <1>8, <1>1 DEF vars
<1>9. QED
    BY <1>2, <1>3, <1>4, <1>5, <1>6, <1>7, <1>8 DEF ScrapeStep

(* A step that leaves the rows and mails alone and takes the digest out of  *)
(* the consumer's hand, unless the digest was mailed but not marked.        *)
LEMMA LetGo ==
    ASSUME TypeOK, DeliveryInv, HeadHeld', flush.step # "mark",
           flush'.step \in {"idle", "rows", "ack"},
           UNCHANGED <<mails, lostMarks, sent, rowCfgs>>
    PROVE  DeliveryInv'
BY DEF DeliveryInv, HandInv, MailBound, Rows, SentWasMailed

(* The consumer's own steps, and their failures, keep the invariant.        *)
LEMMA ConsumerKeeps ==
    ASSUME TypeOK, TypeOK', DeliveryInv, HeadHeld',
           \/ ConsumeStep
           \/ \E S \in SUBSET Listing : MarkFails(S)
           \/ SendFails
           \/ ConsumerCrash
    PROVE  DeliveryInv'
<1> USE DEF dbVars, histVars, Waiting
<1>h. flush.step # "idle" => Head(queue) \in User
    BY HeadType DEF TypeOK, DeliveryInv, HeadHeld
<1>t. mails \in [Key -> Nat] /\ lostMarks \in Nat
    BY DEF TypeOK
<1>u. Unsent \subseteq Key /\ Unsent \cap sent = {} /\ sent \subseteq Key
    BY DEF Unsent, Rows, TypeOK
<1>1. CASE FetchUser \/ SkipEvent \/ SendRefused \/ Ack
    <2>1. /\ flush.step # "mark"
          /\ flush'.step \in {"idle", "rows", "ack"}
          /\ UNCHANGED <<mails, lostMarks, sent, rowCfgs>>
        BY <1>1 DEF FetchUser, SkipEvent, SendRefused, Ack
    <2>2. QED
        BY <2>1, LetGo
<1>2. CASE FetchUnsent
    <2>1. UNCHANGED <<mails, lostMarks, sent, rowCfgs, queue>>
        BY <1>2 DEF FetchUnsent
    <2>2. CASE flush' = [step |-> "ack", digest |-> {}]
        BY <1>2, <2>1, <2>2, LetGo DEF FetchUnsent
    <2>3. CASE flush' = [step |-> "send", digest |-> UnsentOf(Head(queue))]
        <3>1. InHand' \subseteq Unsent'
            BY <2>1, <2>3 DEF InHand, UnsentOf, Unsent, Rows
        <3>2. HandInv'
            BY <2>3, <3>1 DEF HandInv
        <3>3. MailBound'
            BY <1>2, <2>1, <2>3 DEF FetchUnsent, DeliveryInv, MailBound
        <3>4. (sent \subseteq Rows)' /\ SentWasMailed'
            BY <2>1 DEF DeliveryInv, Rows, SentWasMailed
        <3>5. QED
            BY <3>2, <3>3, <3>4 DEF DeliveryInv
    <2>4. QED
        BY <1>2, <2>2, <2>3 DEF FetchUnsent
<1>3. CASE SendDigest
    <2>1. /\ UNCHANGED <<lostMarks, sent, rowCfgs, queue>>
          /\ flush.step = "send"
          /\ flush'.step = "mark" /\ flush'.digest = flush.digest
          /\ mails' = IF SmtpServer THEN Mailed(InHand) ELSE mails
        BY <1>3 DEF SendDigest
    <2>2. InHand' = InHand /\ InHand \subseteq Unsent /\ Unsent' = Unsent
        BY <2>1 DEF InHand, DeliveryInv, HandInv, Unsent, Rows
    <2>3. \A k \in Key :
              /\ SmtpServer /\ k \in InHand => mails'[k] = mails[k] + 1
              /\ ~SmtpServer \/ k \notin InHand => mails'[k] = mails[k]
        BY <1>t, <2>1, MailedAt
    <2>4. \A k \in Key : mails[k] \in Nat
        BY <1>t
    <2>5. HandInv'
        BY <1>u, <2>1, <2>2, <2>3, <2>4 DEF HandInv
    <2>6. MailBound'
        BY <1>t, <1>u, <2>1, <2>2, <2>3, <2>4 DEF MailBound, DeliveryInv
    <2>7. (sent \subseteq Rows)' /\ SentWasMailed'
        BY <1>u, <2>1, <2>3, <2>4 DEF DeliveryInv, SentWasMailed, Rows
    <2>8. QED
        BY <2>5, <2>6, <2>7 DEF DeliveryInv
<1>4. CASE MarkSent
    <2>1. /\ UNCHANGED <<mails, lostMarks, rowCfgs, queue>>
          /\ flush.step = "mark" /\ flush'.step = "ack"
          /\ sent' = sent \cup InHand
        BY <1>4 DEF MarkSent
    <2>2. InHand \subseteq Unsent /\ (SmtpServer => \A k \in InHand : mails[k] > 0)
        BY <2>1 DEF DeliveryInv, HandInv
    <2>3. HandInv'
        BY <2>1 DEF HandInv
    <2>4. MailBound'
        BY <2>1 DEF DeliveryInv, MailBound
    <2>5. (sent \subseteq Rows)' /\ SentWasMailed'
        BY <2>1, <2>2 DEF DeliveryInv, SentWasMailed, Unsent, Rows
    <2>6. QED
        BY <2>3, <2>4, <2>5 DEF DeliveryInv
<1>5. ASSUME NEW S \in SUBSET Listing, MarkFails(S)
      PROVE  DeliveryInv'
    <2>1. /\ UNCHANGED <<mails, rowCfgs, queue>>
          /\ lostMarks' = lostMarks + 1
          /\ flush.step = "mark" /\ flush'.step = "idle"
          /\ \E T \in SUBSET InHand : sent' = sent \cup T
        BY <1>5 DEF MarkFails, InHand
    <2>2. InHand \subseteq Unsent /\ (SmtpServer => \A k \in InHand : mails[k] > 0)
        BY <2>1 DEF DeliveryInv, HandInv
    <2>3. HandInv'
        BY <2>1 DEF HandInv
    <2>4. \A k \in Key : mails[k] \in Nat /\ mails[k] <= 1 + lostMarks
        BY <1>t DEF DeliveryInv, MailBound
    <2>5. MailBound'
        BY <1>t, <2>1, <2>4 DEF MailBound
    <2>6. (sent \subseteq Rows)' /\ SentWasMailed'
        BY <2>1, <2>2 DEF DeliveryInv, SentWasMailed, Unsent, Rows
    <2>7. QED
        BY <2>3, <2>5, <2>6 DEF DeliveryInv
<1>6. CASE SendFails
    <2>1. /\ UNCHANGED <<sent, rowCfgs, queue>>
          /\ flush.step = "send" /\ flush'.step = "idle"
        BY <1>6 DEF SendFails
    <2>2. CASE UNCHANGED <<mails, lostMarks>>
        BY <2>1, <2>2, LetGo
    <2>3. CASE mails' = Mailed(InHand) /\ lostMarks' = lostMarks + 1
        <3>1. \A k \in Key :
                  /\ mails[k] \in Nat
                  /\ k \in InHand => mails'[k] = mails[k] + 1
                  /\ k \notin InHand => mails'[k] = mails[k]
            BY <1>t, <2>3, MailedAt
        <3>2. InHand \subseteq Unsent
            BY <2>1 DEF DeliveryInv, HandInv
        <3>3. \A k \in Key :
                  /\ mails[k] <= 1 + lostMarks
                  /\ k \notin sent => mails[k] <= lostMarks
            BY <2>1 DEF DeliveryInv, MailBound
        <3>4. MailBound'
            BY <1>t, <1>u, <2>1, <2>3, <3>1, <3>2, <3>3 DEF MailBound
        <3>5. HandInv'
            BY <2>1 DEF HandInv
        <3>6. (sent \subseteq Rows)' /\ SentWasMailed'
            BY <1>u, <2>1, <3>1 DEF DeliveryInv, SentWasMailed, Rows
        <3>7. QED
            BY <3>4, <3>5, <3>6 DEF DeliveryInv
    <2>4. QED
        BY <1>6, <2>2, <2>3 DEF SendFails
<1>7. CASE ConsumerCrash
    <2>1. /\ UNCHANGED <<mails, sent, rowCfgs, queue>>
          /\ flush'.step = "idle"
          /\ lostMarks' = IF flush.step = "mark" THEN lostMarks + 1
                          ELSE lostMarks
        BY <1>7 DEF ConsumerCrash
    <2>2. CASE flush.step # "mark"
        BY <2>1, <2>2, LetGo
    <2>3. CASE flush.step = "mark"
        <3>1. MailBound'
            BY <1>t, <2>1, <2>3 DEF DeliveryInv, MailBound
        <3>2. HandInv'
            BY <2>1 DEF HandInv
        <3>3. (sent \subseteq Rows)' /\ SentWasMailed'
            BY <2>1 DEF DeliveryInv, SentWasMailed, Rows
        <3>4. QED
            BY <3>1, <3>2, <3>3 DEF DeliveryInv
    <2>4. QED
        BY <2>2, <2>3
<1>8. QED
    BY <1>1, <1>2, <1>3, <1>4, <1>5, <1>6, <1>7 DEF ConsumeStep

(* DeliveryInv is inductive, relative to the types.                         *)
LEMMA DeliveryStep ==
    TypeOK /\ TypeOK' /\ DeliveryInv /\ [Next]_vars => DeliveryInv'
<1>1. TypeOK /\ DeliveryInv /\ [Next]_vars => HeadHeld'
    BY HeldStep DEF DeliveryInv
<1>2. QED
    BY <1>1, ScraperKeeps, ConsumerKeeps DEF Next, Failure

(* At every moment the rows in the consumer's hand are unsent, a sent row   *)
(* exists and was mailed, and only lost marks leave a mailed row unsent.    *)
THEOREM DeliveryCorrect == Spec => []DeliveryInv
<1>1. Init => DeliveryInv
    BY DEF Init, DeliveryInv, HeadHeld, HandInv, MailBound, SentWasMailed,
           Waiting
<1>2. QED
    BY <1>1, TypeCorrect, DeliveryStep, PTL DEF Spec

(* For any number of users, bots, listings, events, crashes and migrations, *)
(* a match is mailed at most once more than the marks that were lost.       *)
THEOREM DuplicatesBounded == Spec => []DuplicatesNeedLostMark
<1>1. DeliveryInv => DuplicatesNeedLostMark
    BY DEF DeliveryInv, MailBound, DuplicatesNeedLostMark
<1>2. QED
    BY <1>1, DeliveryCorrect, PTL
-----------------------------------------------------------------------------
(* Every step of the pipeline is a step of DigestDelivery or changes        *)
(* nothing that DigestDelivery speaks of.                                   *)

(* An upsert for one user makes matches of that user due, none of them      *)
(* reported before.                                                         *)
LEMMA UpsertReports ==
    ASSUME TypeOK, DeliveryInv, NEW u \in User, NEW S \in SUBSET RowsOf(u),
           rowCfgs' = Upserted(S), UNCHANGED <<sent, mails>>
    PROVE  Delivery!Next
<1> DEFINE R == {l \in Listing : <<u, l>> \in Rows' \ Rows}
<1>1. Rows \subseteq Rows'
    BY UpsertKeeps
<1>2. \A k \in Rows' \ Rows : k[1] = u
    <2>1. \A k \in Key : \A c \in rowCfgs'[k] :
              \/ c \in rowCfgs[k]
              \/ Owner[c] = k[1] /\ <<c, k[2]>> \in S
        BY UpsertedGrows DEF TypeOK
    <2>2. \A c, l : <<c, l>> \in S => Owner[c] = u
        BY DEF RowsOf
    <2>3. QED
        BY <2>1, <2>2 DEF Rows
<1>3. Rows' = Rows \cup ({u} \X R)
    BY <1>1, <1>2 DEF Rows, Key
<1>4. ({u} \X R) \cap Rows = {}
    OBVIOUS
<1>5. sent \subseteq Rows
    BY DEF DeliveryInv
<1>6. ({u} \X R) \cap (Unsent \cup sent) = {}
    BY <1>4, <1>5 DEF Unsent
<1>7. Unsent' = Unsent \cup ({u} \X R)
    BY <1>3, <1>4, <1>5 DEF Unsent
<1>8. Delivery!Report(u, R)
    BY <1>6, <1>7 DEF Delivery!Report
<1>9. R \in SUBSET Listing
    OBVIOUS
<1>10. QED
    BY <1>8, <1>9 DEF Delivery!Next

(* Handing the digest to SMTP mails matches that are still due.             *)
LEMMA HandingMails ==
    ASSUME TypeOK, DeliveryInv, flush.step = "send",
           mails' = Mailed(InHand), UNCHANGED <<sent, rowCfgs>>
    PROVE  Delivery!Next
<1>1. Head(queue) \in User
    BY HeadType DEF TypeOK, DeliveryInv, HeadHeld
<1>2. InHand \subseteq Unsent /\ InHand \subseteq Key
    BY DEF DeliveryInv, HandInv, Unsent, Rows
<1>3. \A k \in Key : mails[k] \in Nat
    BY DEF TypeOK
<1>4. \A k \in Key : /\ k \in InHand => mails'[k] = mails[k] + 1
                     /\ k \notin InHand => mails'[k] = mails[k]
    BY MailedAt DEF TypeOK
<1>5. {k \in Key : mails[k] > 0}' = {k \in Key : mails[k] > 0} \cup InHand
    BY <1>2, <1>3, <1>4
<1>6. Unsent' = Unsent
    BY DEF Unsent, Rows
<1>7. PICK u \in User, S \in SUBSET Listing : InHand = {u} \X S
    BY <1>1 DEF TypeOK, InHand
<1>8. Delivery!Mail(u, S)
    BY <1>2, <1>5, <1>6, <1>7 DEF Delivery!Mail
<1>9. QED
    BY <1>8 DEF Delivery!Next

(* Marking retires matches that were mailed.                                *)
LEMMA MarkingRetires ==
    ASSUME SmtpServer, TypeOK, DeliveryInv, flush.step = "mark",
           NEW S \in SUBSET flush.digest,
           sent' = sent \cup ({Head(queue)} \X S), UNCHANGED <<mails, rowCfgs>>
    PROVE  Delivery!Next
<1> DEFINE T == {Head(queue)} \X S
<1>1. Head(queue) \in User
    BY HeadType DEF TypeOK, DeliveryInv, HeadHeld
<1>2. T \subseteq InHand
    BY DEF InHand
<1>3. InHand \subseteq Unsent /\ (\A k \in InHand : mails[k] > 0)
    BY DEF DeliveryInv, HandInv
<1>4. T \subseteq Unsent \cap {k \in Key : mails[k] > 0}
    BY <1>2, <1>3 DEF Unsent, Rows
<1>5. Unsent' = Unsent \ T
    BY DEF Unsent, Rows
<1>6. Delivery!Retire(Head(queue), S)
    BY <1>4, <1>5 DEF Delivery!Retire
<1>7. flush.digest \in SUBSET Listing
    BY DEF TypeOK
<1>8. QED
    BY <1>1, <1>6, <1>7 DEF Delivery!Next

LEMMA RefinedStep ==
    ASSUME SmtpServer, TypeOK, DeliveryInv, [Next]_vars
    PROVE  [Delivery!Next]_Delivery!vars
<1> USE DEF dbVars, histVars
<1>1. ASSUME UNCHANGED <<rowCfgs, sent, mails>>
      PROVE  UNCHANGED Delivery!vars
    BY <1>1 DEF Delivery!vars, Unsent, Rows
<1>2. ASSUME NEW S \in SUBSET Listing, FetchListings(S) \/ UpsertFails(S)
      PROVE  UNCHANGED Delivery!vars
    BY <1>1, <1>2 DEF FetchListings, UpsertFails
<1>3. CASE UpsertListings \/ MatchConfigs
    BY <1>1, <1>3 DEF UpsertListings, MatchConfigs
<1>4. ASSUME NEW u \in User, InsertNotifications(u) \/ InsertFails(u)
      PROVE  Delivery!Next
    BY <1>4, UpsertReports DEF InsertNotifications, InsertFails
<1>5. ASSUME NEW u \in User,
             PublishBotProcessed(u) \/ PublishFails(u) \/ PublishLost(u)
      PROVE  UNCHANGED Delivery!vars
    BY <1>1, <1>5 DEF PublishBotProcessed, PublishFails, PublishLost
<1>6. CASE FetchUser \/ SkipEvent \/ FetchUnsent \/ SendRefused \/ Ack
    BY <1>1, <1>6 DEF FetchUser, SkipEvent, FetchUnsent, SendRefused, Ack
<1>7. CASE SendDigest
    BY <1>7, HandingMails DEF SendDigest
<1>8. CASE MarkSent
    BY <1>8, MarkingRetires DEF MarkSent, InHand
<1>9. ASSUME NEW S \in SUBSET Listing, MarkFails(S)
      PROVE  Delivery!Next
    BY <1>9, MarkingRetires DEF MarkFails
<1>10. CASE SendFails
    BY <1>1, <1>10, HandingMails DEF SendFails
<1>11. CASE FetchFails \/ MatchFails \/ ScraperCrash \/ ConsumerCrash
    BY <1>1, <1>11 DEF FetchFails, MatchFails, ScraperCrash, ConsumerCrash
<1>12. CASE Environment
    BY <1>1, <1>12 DEF Environment, SetActive, SetOptedIn, DeleteAccount,
                       Migrate
<1>13. CASE UNCHANGED vars
    BY <1>1, <1>13 DEF vars
<1>14. QED
    BY <1>2, <1>3, <1>4, <1>5, <1>6, <1>7, <1>8, <1>9, <1>10, <1>11, <1>12,
       <1>13 DEF Next, ScrapeStep, ConsumeStep, Failure

(* With an SMTP server configured, scraper, queue and consumer together     *)
(* implement at-least-once delivery: matches become due once, a digest      *)
(* carries only due matches, and only a mailed match is retired, for good.  *)
THEOREM Implements == ASSUME SmtpServer PROVE Spec => DeliverySpec
<1>1. Init => Delivery!Init
    BY DEF Init, Delivery!Init, Unsent, Rows
<1>2. TypeOK /\ DeliveryInv /\ [Next]_vars => [Delivery!Next]_Delivery!vars
    BY RefinedStep
<1>3. QED
    BY <1>1, <1>2, TypeCorrect, DeliveryCorrect, PTL
       DEF Spec, DeliverySpec, Delivery!Spec
=============================================================================
