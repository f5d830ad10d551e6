------------------------- MODULE BotLifecycle_proofs ------------------------
(***************************************************************************)
(* Proofs about BotLifecycle, for any configs, requests, janitors, TTLs and *)
(* bounds.                                                                  *)
(***************************************************************************)
EXTENDS BotLifecycle, TLAPS

(* A request that has not ended is about a config id.                       *)
LEMMA RequestConfig ==
    ASSUME TypeOK, NEW r \in Request, req[r].step # "none"
    PROVE  req[r].cfg \in Config
BY DEF TypeOK

LEMMA BeginType ==
    ASSUME TypeOK, NEW r \in Request, NEW c \in Config,
           NEW step \in {"save", "config", "row"},
           NEW to \in {"keep", "active", "stopped", "deleted", "gone"},
           NEW email \in {"keep", "on", "off"},
           Begin(r, step, c, to, email)
    PROVE  TypeOK'
BY DEF TypeOK, Begin, RequestType, recordVars

LEMMA EndType ==
    ASSUME TypeOK, NEW r \in Request, End(r)
    PROVE  /\ req' \in [Request -> RequestType]
           /\ \A s \in Request : req'[s].step # "none" => req'[s].cfg \in Config
BY DEF TypeOK, End, NoRequest, RequestType

LEMMA OlderType ==
    ASSUME NEW age \in [Config -> 0 .. OldAge]
    PROVE  Older(age) \in [Config -> 0 .. OldAge]
BY TTLAssumption DEF Older, OldAge

(* A request starts with a step to do.                                      *)
LEMMA StartType ==
    ASSUME TypeOK, NEW r \in Request, NEW c \in Config, StartRequest(r, c)
    PROVE  TypeOK'
<1>1. CASE StartSave(r, c)
    BY <1>1, BeginType DEF StartSave
<1>2. ASSUME NEW to \in {"active", "stopped"}, StartPatch(r, c, to)
      PROVE  TypeOK'
    BY <1>2, BeginType DEF StartPatch
<1>3. ASSUME NEW email \in {"on", "off"}, StartEmailPatch(r, c, email)
      PROVE  TypeOK'
    BY <1>3, BeginType DEF StartEmailPatch
<1>4. ASSUME NEW to \in {"keep", "stopped"}, NEW email \in {"keep", "on", "off"},
             StartUnsubscribe(r, c, to, email)
      PROVE  TypeOK'
    BY <1>4, BeginType DEF StartUnsubscribe
<1>5. CASE StartDelete(r, c)
    BY <1>5, BeginType DEF StartDelete
<1>6. QED
    BY <1>1, <1>2, <1>3, <1>4, <1>5 DEF StartRequest

(* A step of a request keeps every type.                                    *)
LEMMA RequestStepType ==
    ASSUME TypeOK, NEW r \in Request, RequestStep(r)
    PROVE  TypeOK'
<1>1. req[r].step # "none" => req[r].cfg \in Config
    BY RequestConfig
<1>2. CASE WriteConfig(r)
    BY <1>1, <1>2, EndType, TTLAssumption DEF WriteConfig, TypeOK, OldAge
<1>3. CASE UpdateConfig(r) \/ DeleteConfig(r)
    <2>1. req[r] \in RequestType /\ req[r].cfg \in Config
        BY <1>1, <1>3 DEF UpdateConfig, DeleteConfig, TypeOK
    <2>2. /\ req' \in [Request -> RequestType]
          /\ \A s \in Request : req'[s].step # "none" => req'[s].cfg \in Config
        BY <1>3, <2>1
           DEF UpdateConfig, DeleteConfig, GoOn, TypeOK, RequestType
    <2>3. doc' \in [Config -> {"none", "active", "inactive"}]
        BY <1>3, <2>1 DEF UpdateConfig, DeleteConfig, TypeOK
    <2>4. QED
        BY <1>3, <2>2, <2>3 DEF UpdateConfig, DeleteConfig, TypeOK
<1>4. CASE UpdateRow(r)
    <2>1. req[r] \in RequestType /\ req[r].cfg \in Config
        BY <1>1, <1>4 DEF UpdateRow, TypeOK
    <2>2. Switched(req[r].cfg, req[r].email) \subseteq Config
        BY <2>1 DEF Switched, TypeOK
    <2>3. row' \in [Config -> Status] /\ emails' \subseteq Config
        BY <1>4, <2>1, <2>2
           DEF UpdateRow, TypeOK, RequestType, Status, Live
    <2>4. QED
        BY <1>4, <2>3, EndType DEF UpdateRow, TypeOK
<1>5. CASE PullRow(r)
    BY <1>1, <1>5, EndType DEF PullRow, Pulled, TypeOK, Status
<1>6. QED
    BY <1>2, <1>3, <1>4, <1>5 DEF RequestStep

(* So does a step of a pass.                                                *)
LEMMA JanitorType ==
    ASSUME TypeOK, NEW j \in Janitor, JanitorStep(j)
    PROVE  TypeOK'
<1> USE TTLAssumption DEF TypeOK, recordVars
<1>0. pass[j] \in PassType
    OBVIOUS
<1>1. CASE StartPass(j)
    BY <1>1 DEF StartPass, PassType
<1>2. ASSUME NEW c \in Config, ReapConfig(j, c)
      PROVE  TypeOK'
    BY <1>0, <1>2 DEF ReapConfig, PassType
<1>3. CASE ReapRow(j)
    BY <1>0, <1>3 DEF ReapRow, Pulled, PassType, Status
<1>4. CASE ReadClaimed(j)
    BY <1>0, <1>4 DEF ReadClaimed, PassType
<1>5. CASE ReadOld(j)
    BY <1>0, <1>5 DEF ReadOld, OldDocs, PassType
<1>6. ASSUME NEW c \in Config, SweepOrphan(j, c)
      PROVE  TypeOK'
    BY <1>0, <1>6 DEF SweepOrphan, PassType
<1>7. CASE EndPass(j)
    BY <1>7 DEF EndPass, NoPass, PassType
<1>8. QED
    BY <1>1, <1>2, <1>3, <1>4, <1>5, <1>6, <1>7 DEF JanitorStep

(* So does time.                                                            *)
LEMMA TickType ==
    ASSUME TypeOK, Tick
    PROVE  TypeOK'
<1>1. rowAge' \in [Config -> 0 .. OldAge] /\ docAge' \in [Config -> 0 .. OldAge]
    BY OlderType DEF Tick, TypeOK
<1>2. pass' \in [Janitor -> PassType]
    BY TTLAssumption DEF Tick, TypeOK, PassType
<1>3. QED
    BY <1>1, <1>2 DEF Tick, TypeOK

LEMMA TypeStep == TypeOK /\ [Next]_vars => TypeOK'
<1> SUFFICES ASSUME TypeOK, [Next]_vars
             PROVE  TypeOK'
    OBVIOUS
<1>1. ASSUME NEW c \in Config, NEW email \in BOOLEAN, Create(c, email)
      PROVE  TypeOK'
    BY <1>1, TTLAssumption DEF Create, TypeOK, Status, OldAge
<1>2. ASSUME NEW r \in Request, RequestFails(r)
      PROVE  TypeOK'
    BY <1>2, EndType, TTLAssumption DEF RequestFails, Fault, TypeOK, recordVars
<1>3. CASE DeleteAccount
    BY <1>3 DEF DeleteAccount, TypeOK, Status
<1>4. ASSUME NEW j \in Janitor, PassFails(j)
      PROVE  TypeOK'
    BY <1>4, TTLAssumption
       DEF PassFails, Fault, TypeOK, NoPass, PassType, recordVars
<1>5. CASE UNCHANGED vars
    BY <1>5 DEF vars, TypeOK
<1>6. QED
    BY <1>1, <1>2, <1>3, <1>4, <1>5, StartType, RequestStepType, JanitorType,
       TickType DEF Next

(* Every variable of the life cycle keeps its type.                         *)
THEOREM TypeCorrect == Spec => []TypeOK
<1>1. Init => TypeOK
    BY TTLAssumption DEF Init, TypeOK, NoRequest, NoPass, RequestType,
                         PassType, Status, OldAge
<1>2. QED
    BY <1>1, TypeStep, PTL DEF Spec
-----------------------------------------------------------------------------
(* The orphan sweep.                                                        *)

(* A request only starts on a minted config, and nothing else changes; one  *)
(* that is to mark the entry deleted is to turn its mails off.              *)
StartsOn(r, c) ==
    /\ UNCHANGED <<recordVars, pass, faults>>
    /\ row[c] # "unminted"
    /\ \E step \in {"save", "config", "row"},
          to \in {"keep", "active", "stopped", "deleted", "gone"},
          email \in {"keep", "on", "off"} :
          /\ req' = [req EXCEPT ![r] = [step |-> step, cfg |-> c, to |-> to,
                                        email |-> email]]
          /\ to = "deleted" => email = "off"

LEMMA StartShape ==
    ASSUME NEW r \in Request, NEW c \in Config, StartRequest(r, c)
    PROVE  StartsOn(r, c)
<1> USE DEF Begin, Live, Minted, StartsOn
<1>1. CASE StartSave(r, c)
    BY <1>1 DEF StartSave
<1>2. ASSUME NEW to \in {"active", "stopped"}, StartPatch(r, c, to)
      PROVE  StartsOn(r, c)
    BY <1>2 DEF StartPatch
<1>3. ASSUME NEW email \in {"on", "off"}, StartEmailPatch(r, c, email)
      PROVE  StartsOn(r, c)
    BY <1>3 DEF StartEmailPatch
<1>4. ASSUME NEW to \in {"keep", "stopped"}, NEW email \in {"keep", "on", "off"},
             StartUnsubscribe(r, c, to, email)
      PROVE  StartsOn(r, c)
    BY <1>4 DEF StartUnsubscribe
<1>5. CASE StartDelete(r, c)
    BY <1>5 DEF StartDelete
<1>6. QED
    BY <1>1, <1>2, <1>3, <1>4, <1>5 DEF StartRequest

(* A step that mints nothing and keeps documents, ages and passes, and      *)
(* leaves requests where they are or ends them, keeps the invariant.        *)
LEMMA SweepQuiet ==
    ASSUME TypeOK, SweepInv,
           UNCHANGED <<rowAge, docAge, pass>>,
           \A c \in Config : doc'[c] # "none" => doc[c] # "none",
           \A c \in Config :
               /\ row'[c] = "unminted" => row[c] = "unminted"
               /\ row'[c] \in Minted => row[c] \in Minted
               /\ row[c] = "gone" => row'[c] = "gone",
           \A r \in Request : req'[r].cfg \in {req[r].cfg, NoConfig}
    PROVE  SweepInv'
<1>1. MintedFirst'
    BY NoConfigAssumption DEF SweepInv, MintedFirst, TypeOK
<1>2. QED
    BY <1>1 DEF SweepInv, SweepSparesBots, TypeOK, PassType

LEMMA SweepRequest ==
    ASSUME TypeOK, SweepInv, NEW r \in Request, RequestStep(r)
    PROVE  SweepInv'
<1>1. req[r].step # "none" => req[r].cfg \in Config
    BY RequestConfig
<1>2. CASE WriteConfig(r)
    <2>0. req[r].cfg \in Config /\ row[req[r].cfg] # "unminted"
        BY <1>1, <1>2 DEF WriteConfig, SweepInv, MintedFirst
    <2>1. /\ UNCHANGED <<row, rowAge, pass>>
          /\ \A c \in Config : c # req[r].cfg =>
                doc'[c] = doc[c] /\ docAge'[c] = docAge[c]
          /\ docAge'[req[r].cfg] =
                IF doc[req[r].cfg] = "none" THEN 0 ELSE docAge[req[r].cfg]
        BY <1>2, <2>0 DEF WriteConfig, TypeOK
    <2>2. \A s \in Request : req'[s].cfg \in {req[s].cfg, NoConfig}
        BY <1>2 DEF WriteConfig, End, NoRequest, TypeOK
    <2>3. MintedFirst'
        BY <2>0, <2>1, <2>2, NoConfigAssumption DEF SweepInv, MintedFirst
    <2>4. \A c \in Config : row'[c] \in Minted /\ doc'[c] # "none" =>
              docAge'[c] <= rowAge'[c]
        BY <2>0, <2>1 DEF SweepInv, TypeOK
    <2>5. QED
        BY <2>1, <2>3, <2>4 DEF SweepInv, SweepSparesBots
<1>3. CASE UpdateConfig(r) \/ DeleteConfig(r)
    <2>1. req[r].cfg \in Config
        BY <1>1, <1>3 DEF UpdateConfig, DeleteConfig
    <2>2. \A c \in Config : doc'[c] # "none" => doc[c] # "none"
        BY <1>3, <2>1 DEF UpdateConfig, DeleteConfig, TypeOK
    <2>3. \A s \in Request : req'[s].cfg = req[s].cfg
        BY <1>3 DEF UpdateConfig, DeleteConfig, GoOn, TypeOK
    <2>4. QED
        BY <1>3, <2>2, <2>3, SweepQuiet DEF UpdateConfig, DeleteConfig
<1>4. CASE UpdateRow(r)
    <2>1. \A c \in Config :
              /\ row'[c] = "unminted" => row[c] = "unminted"
              /\ row'[c] \in Minted => row[c] \in Minted
              /\ row[c] = "gone" => row'[c] = "gone"
        BY <1>1, <1>4 DEF UpdateRow, TypeOK, RequestType, Minted, Live
    <2>2. \A s \in Request : req'[s].cfg \in {req[s].cfg, NoConfig}
        BY <1>4 DEF UpdateRow, End, NoRequest, TypeOK
    <2>3. QED
        BY <1>4, <2>1, <2>2, SweepQuiet DEF UpdateRow
<1>5. CASE PullRow(r)
    <2>1. \A c \in Config :
              /\ row'[c] = "unminted" => row[c] = "unminted"
              /\ row'[c] \in Minted => row[c] \in Minted
              /\ row[c] = "gone" => row'[c] = "gone"
        BY <1>1, <1>5 DEF PullRow, Pulled, TypeOK, Minted, Live
    <2>2. \A s \in Request : req'[s].cfg \in {req[s].cfg, NoConfig}
        BY <1>5 DEF PullRow, End, NoRequest, TypeOK
    <2>3. QED
        BY <1>5, <2>1, <2>2, SweepQuiet DEF PullRow
<1>6. QED
    BY <1>2, <1>3, <1>4, <1>5 DEF RequestStep

LEMMA SweepJanitor ==
    ASSUME TypeOK, SweepInv, NEW j \in Janitor,
           JanitorStep(j) \/ PassFails(j)
    PROVE  SweepInv'
<1> USE DEF recordVars
<1>0. pass \in [Janitor -> PassType]
    BY DEF TypeOK
<1>1. ASSUME UNCHANGED <<rowAge, docAge, req>>,
             \A c \in Config : doc'[c] # "none" => doc[c] # "none",
             \A c \in Config :
                 /\ row'[c] = "unminted" => row[c] = "unminted"
                 /\ row'[c] \in Minted => row[c] \in Minted
                 /\ row[c] = "gone" => row'[c] = "gone",
             \A k \in Janitor :
                 pass'[k] # pass[k] =>
                     /\ pass'[k].step # "claimed"
                     /\ pass'[k].old \subseteq pass[k].old
      PROVE  SweepInv'
    <2>1. MintedFirst'
        BY <1>1 DEF SweepInv, MintedFirst
    <2>2. \A k \in Janitor : pass[k].old \subseteq Config
        BY <1>0 DEF PassType
    <2>3. SweepSparesBots'
        BY <1>1, <2>2 DEF SweepInv, SweepSparesBots
    <2>4. \A k \in Janitor : pass'[k].step = "claimed" =>
              \A c \in Config : row'[c] \in Minted /\ c \notin pass'[k].claimed
                  => rowAge'[c] <= pass'[k].elapsed
        BY <1>1 DEF SweepInv
    <2>5. \A c \in Config : row'[c] \in Minted /\ doc'[c] # "none" =>
              docAge'[c] <= rowAge'[c]
        BY <1>1 DEF SweepInv
    <2>6. QED
        BY <2>1, <2>3, <2>4, <2>5 DEF SweepInv
<1>2. CASE StartPass(j) \/ EndPass(j) \/ PassFails(j)
    <2>1. \A k \in Janitor :
              pass'[k] # pass[k] =>
                  /\ pass'[k].step # "claimed"
                  /\ pass'[k].old \subseteq pass[k].old
        BY <1>0, <1>2 DEF StartPass, EndPass, PassFails, NoPass
    <2>2. QED
        BY <1>1, <1>2, <2>1 DEF StartPass, EndPass, PassFails
<1>3. ASSUME NEW c \in Config, ReapConfig(j, c) \/ SweepOrphan(j, c)
      PROVE  SweepInv'
    <2>1. \A k \in Janitor :
              pass'[k] # pass[k] =>
                  /\ pass'[k].step # "claimed"
                  /\ pass'[k].old \subseteq pass[k].old
        BY <1>0, <1>3 DEF ReapConfig, SweepOrphan
    <2>2. \A d \in Config : doc'[d] # "none" => doc[d] # "none"
        BY <1>3 DEF ReapConfig, SweepOrphan, TypeOK
    <2>3. QED
        BY <1>1, <1>3, <2>1, <2>2 DEF ReapConfig, SweepOrphan
<1>4. CASE ReapRow(j)
    <2>1. \A k \in Janitor :
              pass'[k] # pass[k] =>
                  /\ pass'[k].step # "claimed"
                  /\ pass'[k].old \subseteq pass[k].old
        BY <1>0, <1>4 DEF ReapRow
    <2>2. \A c \in Config :
              /\ row'[c] = "unminted" => row[c] = "unminted"
              /\ row'[c] \in Minted => row[c] \in Minted
              /\ row[c] = "gone" => row'[c] = "gone"
        BY <1>0, <1>4 DEF ReapRow, Pulled, TypeOK, PassType, Minted, Live
    <2>3. QED
        BY <1>1, <1>4, <2>1, <2>2 DEF ReapRow
<1>5. CASE ReadClaimed(j)
    <2>1. /\ UNCHANGED <<row, rowAge, doc, docAge, req>>
          /\ \A k \in Janitor : k # j => pass'[k] = pass[k]
          /\ \A c \in Config : row[c] \in Minted => c \in pass'[j].claimed
          /\ pass'[j].old = {}
        BY <1>0, <1>5 DEF ReadClaimed
    <2>2. MintedFirst'
        BY <2>1 DEF SweepInv, MintedFirst
    <2>3. QED
        BY <2>1, <2>2 DEF SweepInv, SweepSparesBots
<1>6. CASE ReadOld(j)
    <2>1. /\ UNCHANGED <<row, rowAge, doc, docAge, req>>
          /\ \A k \in Janitor : k # j => pass'[k] = pass[k]
          /\ pass[j].step = "claimed" /\ pass'[j].step = "sweep"
          /\ pass'[j].old = OldDocs(j) \ pass[j].claimed
        BY <1>0, <1>6 DEF ReadOld
    <2>2. ASSUME NEW c \in OldDocs(j) \ pass[j].claimed
          PROVE  row[c] = "gone"
        <3>1. c \in Config /\ doc[c] # "none"
              /\ docAge[c] >= OrphanTTL + pass[j].elapsed
            BY <2>2 DEF OldDocs
        <3>2. row[c] # "unminted"
            BY <3>1 DEF SweepInv, MintedFirst
        <3>3. row[c] \in Minted =>
                  docAge[c] <= rowAge[c] /\ rowAge[c] <= pass[j].elapsed
            BY <2>1, <2>2, <3>1 DEF SweepInv
        <3>4. docAge[c] \in Nat /\ rowAge[c] \in Nat /\ pass[j].elapsed \in Nat
            BY <1>0, <3>1, TTLAssumption DEF TypeOK, PassType, OldAge
        <3>5. row[c] \notin Minted
            BY <3>1, <3>3, <3>4, TTLAssumption
        <3>6. QED
            BY <3>1, <3>2, <3>5 DEF TypeOK, Status, Minted, Live
    <2>3. MintedFirst'
        BY <2>1 DEF SweepInv, MintedFirst
    <2>4. QED
        BY <2>1, <2>2, <2>3 DEF SweepInv, SweepSparesBots
<1>7. QED
    BY <1>2, <1>3, <1>4, <1>5, <1>6 DEF JanitorStep

LEMMA SweepTick ==
    ASSUME TypeOK, SweepInv, Tick
    PROVE  SweepInv'
<1>1. UNCHANGED <<row, doc, req>>
    BY DEF Tick
<1>2. \A c \in Config :
          /\ rowAge[c] \in 0 .. OldAge /\ docAge[c] \in 0 .. OldAge
          /\ rowAge'[c] = IF rowAge[c] < OldAge THEN rowAge[c] + 1 ELSE OldAge
          /\ docAge'[c] = IF docAge[c] < OldAge THEN docAge[c] + 1 ELSE OldAge
    BY DEF Tick, Older, TypeOK
<1>3. \A j \in Janitor :
          /\ pass[j].elapsed \in 0 .. MaxPass
          /\ pass'[j].step = pass[j].step
          /\ pass'[j].claimed = pass[j].claimed
          /\ pass'[j].old = pass[j].old
          /\ pass[j].step # "idle" => pass'[j].elapsed = pass[j].elapsed + 1
    BY DEF Tick, TypeOK, PassType
<1>4. OldAge \in Nat
    BY TTLAssumption DEF OldAge
<1>5. MintedFirst'
    BY <1>1 DEF SweepInv, MintedFirst
<1>6. \A c \in Config : row[c] \in Minted /\ doc[c] # "none" =>
          docAge'[c] <= rowAge'[c]
    BY <1>2, <1>4 DEF SweepInv
<1>7. \A j \in Janitor : pass[j].step = "claimed" =>
          \A c \in Config : row[c] \in Minted /\ c \notin pass[j].claimed =>
              rowAge'[c] <= pass'[j].elapsed
    BY <1>2, <1>3, <1>4, TTLAssumption DEF SweepInv
<1>8. QED
    BY <1>1, <1>3, <1>5, <1>6, <1>7 DEF SweepInv, SweepSparesBots

LEMMA SweepStep == TypeOK /\ SweepInv /\ [Next]_vars => SweepInv'
<1> SUFFICES ASSUME TypeOK, SweepInv, [Next]_vars
             PROVE  SweepInv'
    OBVIOUS
<1> USE DEF recordVars
<1>1. ASSUME NEW c \in Config, NEW email \in BOOLEAN, Create(c, email)
      PROVE  SweepInv'
    <2>1. /\ UNCHANGED <<doc, docAge, req, pass>>
          /\ row[c] = "unminted" /\ doc[c] = "none"
          /\ row'[c] # "unminted" /\ rowAge'[c] = 0
          /\ \A d \in Config : d # c => row'[d] = row[d] /\ rowAge'[d] = rowAge[d]
        BY <1>1 DEF Create, TypeOK, SweepInv, MintedFirst
    <2>2. MintedFirst'
        BY <2>1 DEF SweepInv, MintedFirst
    <2>3. \A j \in Janitor : pass[j].elapsed \in Nat /\ pass[j].elapsed >= 0
        BY TTLAssumption DEF TypeOK, PassType
    <2>4. \A j \in Janitor : c \notin pass[j].old
        BY <2>1 DEF SweepInv, SweepSparesBots
    <2>5. \A j \in Janitor : pass[j].old \subseteq Config
        BY DEF TypeOK, PassType
    <2>6. QED
        BY <2>1, <2>2, <2>3, <2>4, <2>5 DEF SweepInv, SweepSparesBots
<1>2. ASSUME NEW r \in Request, NEW c \in Config, StartRequest(r, c)
      PROVE  SweepInv'
    <2>1. /\ UNCHANGED <<row, rowAge, doc, docAge, pass>>
          /\ row[c] # "unminted"
          /\ \A s \in Request : req'[s].cfg \in {req[s].cfg, c}
        BY <1>2, StartShape DEF StartsOn, TypeOK
    <2>2. MintedFirst'
        BY <2>1 DEF SweepInv, MintedFirst
    <2>3. QED
        BY <2>1, <2>2 DEF SweepInv, SweepSparesBots
<1>3. ASSUME NEW r \in Request, RequestFails(r)
      PROVE  SweepInv'
    <2>1. \A s \in Request : req'[s].cfg \in {req[s].cfg, NoConfig}
        BY <1>3 DEF RequestFails, End, NoRequest, TypeOK
    <2>2. QED
        BY <1>3, <2>1, SweepQuiet DEF RequestFails
<1>4. CASE DeleteAccount
    <2>1. \A c \in Config :
              /\ row'[c] = "unminted" => row[c] = "unminted"
              /\ row'[c] \in Minted => row[c] \in Minted
              /\ row[c] = "gone" => row'[c] = "gone"
        BY <1>4 DEF DeleteAccount, Minted, Live
    <2>2. QED
        BY <1>4, <2>1, SweepQuiet DEF DeleteAccount
<1>5. CASE UNCHANGED vars
    BY <1>5, SweepQuiet DEF vars
<1>6. QED
    BY <1>1, <1>2, <1>3, <1>4, <1>5, SweepRequest, SweepJanitor, SweepTick
       DEF Next

(* A document is no older than its entry, and an entry a pass does not know  *)
(* of was minted during the pass, for every number of requests and janitors. *)
THEOREM SweepInductive == Spec => []SweepInv
<1>1. Init => SweepInv
    BY NoConfigAssumption
       DEF Init, SweepInv, MintedFirst, SweepSparesBots, NoRequest, NoPass,
           Minted, Live
<1>2. QED
    BY <1>1, TypeCorrect, SweepStep, PTL DEF Spec

(* However many requests and janitors run, and however long a pass takes,   *)
(* the orphan sweep only deletes documents whose entry is gone for good.    *)
THEOREM SweepIsSafe == Spec => []SweepSparesBots
<1>1. SweepInv => SweepSparesBots
    BY DEF SweepInv
<1>2. QED
    BY <1>1, SweepInductive, PTL
-----------------------------------------------------------------------------
(* Deletion.                                                                *)

(* No step marks an entry deleted without turning its mails off, and none   *)
(* turns the mails of a deleted entry on.                                   *)
LEMMA SilentStep == TypeOK /\ DeletedSilent /\ [Next]_vars => DeletedSilent'
<1> SUFFICES ASSUME TypeOK, DeletedSilent, [Next]_vars
             PROVE  DeletedSilent'
    OBVIOUS
<1> USE DEF DeletedSilent, recordVars
<1>t. /\ row \in [Config -> Status] /\ emails \subseteq Config
      /\ req \in [Request -> RequestType]
    BY DEF TypeOK
<1>1. ASSUME NEW c \in Config, NEW email \in BOOLEAN, Create(c, email)
      PROVE  DeletedSilent'
    BY <1>t, <1>1 DEF Create
<1>2. ASSUME NEW r \in Request, NEW c \in Config, StartRequest(r, c)
      PROVE  DeletedSilent'
    BY <1>t, <1>2, StartShape DEF StartsOn
<1>3. ASSUME NEW r \in Request, RequestFails(r) \/ WriteConfig(r)
      PROVE  DeletedSilent'
    BY <1>t, <1>3 DEF RequestFails, WriteConfig, End, NoRequest
<1>4. ASSUME NEW r \in Request, UpdateConfig(r) \/ DeleteConfig(r)
      PROVE  DeletedSilent'
    BY <1>t, <1>4 DEF UpdateConfig, DeleteConfig, GoOn
<1>5. ASSUME NEW r \in Request, UpdateRow(r)
      PROVE  DeletedSilent'
    <2>1. req[r].cfg \in Config
        BY <1>5, RequestConfig DEF UpdateRow
    <2>2. \A s \in Request : req'[s].to = "deleted" => req'[s].email = "off"
        BY <1>t, <1>5 DEF UpdateRow, End, NoRequest
    <2>3. \A c \in Config : row'[c] = "deleted" => c \notin emails'
        BY <1>t, <1>5, <2>1 DEF UpdateRow, Switched, Live
    <2>4. QED
        BY <2>2, <2>3
<1>6. ASSUME NEW r \in Request, PullRow(r)
      PROVE  DeletedSilent'
    BY <1>t, <1>6 DEF PullRow, Pulled, End, NoRequest
<1>7. CASE DeleteAccount
    BY <1>7 DEF DeleteAccount
<1>8. ASSUME NEW j \in Janitor, JanitorStep(j) \/ PassFails(j)
      PROVE  DeletedSilent'
    BY <1>t, <1>8 DEF JanitorStep, PassFails, StartPass, ReapConfig, ReapRow,
                      ReadClaimed, ReadOld, SweepOrphan, EndPass, Pulled
<1>9. CASE Tick \/ UNCHANGED vars
    BY <1>9 DEF Tick, vars
<1>10. QED
    BY <1>1, <1>2, <1>3, <1>4, <1>5, <1>6, <1>7, <1>8, <1>9
       DEF Next, RequestStep

(* What one step may do to an entry that is gone or deleted.                *)
Final ==
    \A c \in Config :
        /\ row[c] = "gone" => row'[c] = "gone"
        /\ row[c] = "deleted" =>
              row'[c] \in {"deleted", "gone"} /\ c \notin emails'

LEMMA FinalStep == TypeOK /\ DeletedSilent /\ [Next]_vars => Final
<1> SUFFICES ASSUME TypeOK, DeletedSilent, [Next]_vars
             PROVE  Final
    OBVIOUS
<1> USE DEF Final, recordVars
<1>t. row \in [Config -> Status] /\ emails \subseteq Config
    BY DEF TypeOK
<1>1. ASSUME UNCHANGED <<row, emails>>
      PROVE  Final
    BY <1>1 DEF DeletedSilent
<1>2. ASSUME NEW c \in Config, NEW email \in BOOLEAN, Create(c, email)
      PROVE  Final
    BY <1>t, <1>2 DEF Create, DeletedSilent
<1>3. ASSUME NEW r \in Request, NEW c \in Config,
             StartRequest(r, c) \/ RequestFails(r)
      PROVE  Final
    BY <1>1, <1>3, StartShape DEF StartsOn, RequestFails
<1>4. ASSUME NEW r \in Request, WriteConfig(r) \/ UpdateConfig(r) \/ DeleteConfig(r)
      PROVE  Final
    BY <1>1, <1>4 DEF WriteConfig, UpdateConfig, DeleteConfig
<1>5. ASSUME NEW r \in Request, UpdateRow(r)
      PROVE  Final
    <2>1. req[r].cfg \in Config
        BY <1>5, RequestConfig DEF UpdateRow
    <2>2. QED
        BY <1>t, <1>5, <2>1 DEF UpdateRow, Switched, Live, DeletedSilent
<1>6. ASSUME NEW r \in Request, PullRow(r)
      PROVE  Final
    BY <1>t, <1>6 DEF PullRow, Pulled, DeletedSilent
<1>7. CASE DeleteAccount
    BY <1>7 DEF DeleteAccount
<1>8. ASSUME NEW j \in Janitor, JanitorStep(j) \/ PassFails(j)
      PROVE  Final
    <2>1. CASE ReapRow(j)
        BY <1>t, <2>1 DEF ReapRow, Pulled, DeletedSilent
    <2>2. QED
        BY <1>1, <1>8, <2>1
           DEF JanitorStep, PassFails, StartPass, ReapConfig, ReadClaimed,
               ReadOld, SweepOrphan, EndPass
<1>9. CASE Tick \/ UNCHANGED vars
    BY <1>1, <1>9 DEF Tick, vars
<1>10. QED
    BY <1>2, <1>3, <1>4, <1>5, <1>6, <1>7, <1>8, <1>9, StartShape, <1>1
       DEF Next, RequestStep, StartsOn

(* However many requests and passes are in flight, no write brings a        *)
(* deleted bot back, and none turns its mails on again.                     *)
THEOREM DeletionStays == Spec => DeletionIsFinal
<1>1. Init => DeletedSilent
    BY DEF Init, DeletedSilent, NoRequest
<1>2. TypeOK /\ DeletedSilent /\ [Next]_vars => [Final]_vars
    BY FinalStep
<1>3. QED
    BY <1>1, <1>2, TypeCorrect, SilentStep, PTL DEF Spec, DeletionIsFinal, Final
-----------------------------------------------------------------------------
(* The two records of a bot that no two requests are ever about at once.    *)
Alone(c) == \A r, s \in Request : req[r].cfg = c /\ req[s].cfg = c => r = s

Free(c) == \A j \in Janitor : c \notin pass[j].stale

Agree(c) ==
    /\ row[c] = "active" => doc[c] = "active"
    /\ row[c] = "stopped" => doc[c] = "inactive"
    /\ row[c] = "pending" => doc[c] # "inactive" /\ (c \in saved => doc[c] = "active")

(* A request between its two writes, and what it counts on there.           *)
Halfway(q) == q.step = "row" /\ q.to # "keep"

Promised(q, status, flag) ==
    status \in Live =>
        /\ q.to = "stopped" => status # "pending"
        /\ q.step = "config" /\ q.to = "active" => status # "pending"
        /\ q.step = "row" /\ q.to = "active" => flag = "active"
        /\ q.step = "row" /\ q.to = "stopped" => flag = "inactive"

AgreeAt(c) ==
    Free(c) /\ c \notin crossed =>
        /\ Agree(c) \/ \E r \in Request : req[r].cfg = c /\ Halfway(req[r])
        /\ \A r \in Request : req[r].cfg = c => Promised(req[r], row[c], doc[c])

AgreeInv ==
    faults = 0 =>
        /\ \A c \in Config : row[c] = "unminted" => c \notin saved
        /\ \A j \in Janitor : pass[j].step # "reap" => pass[j].stale = {}
        /\ \A c \in Config \ crossed : Alone(c)
        /\ \A c \in Config : AgreeAt(c)

(* Nobody has touched the records of c, nor a request about it.             *)
LEMMA Elsewhere ==
    ASSUME NEW c \in Config, AgreeAt(c),
           row'[c] = row[c], doc'[c] = doc[c], c \in saved' <=> c \in saved,
           Free(c)' => Free(c), c \in crossed => c \in crossed',
           \A s \in Request : req'[s].cfg = c \/ req[s].cfg = c => req'[s] = req[s]
    PROVE  AgreeAt(c)'
BY DEF AgreeAt, Agree, Halfway, Promised

(* An entry that is out of use binds nobody.                                *)
LEMMA OutOfUse ==
    ASSUME NEW c \in Config, row'[c] \notin Live
    PROVE  AgreeAt(c)'
BY DEF AgreeAt, Agree, Promised, Live

(* A step of a request that may only change the records of its own config.  *)
LEMMA OwnConfig ==
    ASSUME TypeOK, AgreeInv, faults = 0, NEW r \in Request, NEW c \in Config,
           c = req[r].cfg \/ req[r] = NoRequest,
           \A d \in Config \ {c} : d \in crossed' <=> d \in crossed,
           c \in crossed' \/ Alone(c)',
           \A s \in Request \ {r} : req'[s] = req[s],
           req'[r].cfg \in {c, NoConfig}, UNCHANGED pass,
           \A d \in Config \ {c} : /\ row'[d] = row[d] /\ doc'[d] = doc[d]
                                   /\ d \in saved' <=> d \in saved,
           row'[c] = "unminted" => c \notin saved',
           AgreeAt(c)'
    PROVE  AgreeInv'
<1>1. ASSUME NEW d \in Config \ {c}
      PROVE  AgreeAt(d)'
    <2>1. \A s \in Request : req'[s].cfg = d \/ req[s].cfg = d => req'[s] = req[s]
        BY NoConfigAssumption DEF NoRequest
    <2>2. AgreeAt(d) /\ (Free(d)' => Free(d))
        BY DEF AgreeInv, Free
    <2>3. QED
        BY <2>1, <2>2, Elsewhere
<1>2. \A d \in Config : row'[d] = "unminted" => d \notin saved'
    BY DEF AgreeInv
<1>3. ASSUME NEW d \in Config \ {c}, d \notin crossed'
      PROVE  Alone(d)'
    <2>1. \A s \in Request : req'[s].cfg = d => req[s].cfg = d
        BY NoConfigAssumption
    <2>2. Alone(d)
        BY <1>3 DEF AgreeInv
    <2>3. QED
        BY <2>1, <2>2 DEF Alone
<1>4. QED
    BY <1>1, <1>2, <1>3 DEF AgreeInv

(* A request that begins is alone, or crosses another for good.             *)
LEMMA BeginAgrees ==
    ASSUME TypeOK, AgreeInv, faults = 0, NEW r \in Request, NEW c \in Config,
           NEW step, NEW to, NEW email, Begin(r, step, c, to, email),
           Free(c) /\ Agree(c) =>
               Promised([step |-> step, cfg |-> c, to |-> to, email |-> email], row[c], doc[c])
    PROVE  AgreeInv'
<1>1. /\ UNCHANGED <<row, doc, saved, pass>> /\ req[r] = NoRequest
      /\ req'[r] = [step |-> step, cfg |-> c, to |-> to, email |-> email]
      /\ \A s \in Request \ {r} : req'[s] = req[s]
    BY DEF Begin, recordVars, TypeOK
<1>2. crossed' = crossed \cup {d \in {c} : \E s \in Request : req[s].cfg = d}
    BY DEF Begin
<1>3. c \notin crossed' => c \notin crossed /\ \A s \in Request : req[s].cfg # c
    BY <1>2
<1>4. Free(c) /\ c \notin crossed' => Agree(c)
    BY <1>3 DEF AgreeInv, AgreeAt
<1>5. AgreeAt(c)'
    <2>1. c \notin crossed' => \A s \in Request \ {r} : req'[s].cfg # c
        BY <1>1, <1>3
    <2>2. QED
        BY <1>1, <1>4, <2>1 DEF AgreeAt, Agree, Free
<1>6. c \in crossed' \/ Alone(c)'
    BY <1>1, <1>3 DEF Alone
<1>7. \A d \in Config \ {c} : d \in crossed' <=> d \in crossed
    BY <1>2
<1>8. \A d \in Config : row'[d] = "unminted" => d \notin saved'
    BY <1>1 DEF AgreeInv
<1>9. QED
    BY <1>1, <1>5, <1>6, <1>7, <1>8, OwnConfig

LEMMA AgreeStart ==
    ASSUME TypeOK, AgreeInv, faults = 0, NEW r \in Request, NEW c \in Config,
           StartRequest(r, c)
    PROVE  AgreeInv'
<1>1. CASE StartSave(r, c)
    BY <1>1, BeginAgrees DEF StartSave, Promised
<1>2. ASSUME NEW to \in {"active", "stopped"}, StartPatch(r, c, to)
      PROVE  AgreeInv'
    <2>1. CASE row[c] = "pending"
        BY <1>2, <2>1, BeginAgrees DEF StartPatch, Promised, Agree
    <2>2. CASE row[c] # "pending"
        BY <1>2, <2>2, BeginAgrees DEF StartPatch, Promised
    <2>3. QED
        BY <2>1, <2>2
<1>3. ASSUME NEW email \in {"on", "off"}, StartEmailPatch(r, c, email)
      PROVE  AgreeInv'
    BY <1>3, BeginAgrees DEF StartEmailPatch, Promised
<1>4. ASSUME NEW to \in {"keep", "stopped"}, NEW email \in {"keep", "on", "off"},
             StartUnsubscribe(r, c, to, email)
      PROVE  AgreeInv'
    <2>1. CASE to = "keep"
        BY <1>4, <2>1, BeginAgrees DEF StartUnsubscribe, Promised
    <2>2. CASE to = "stopped"
        BY <1>4, <2>2, BeginAgrees DEF StartUnsubscribe, Promised
    <2>3. QED
        BY <2>1, <2>2
<1>5. CASE StartDelete(r, c)
    <2>1. CASE row[c] = "pending"
        BY <1>5, <2>1, BeginAgrees DEF StartDelete, Promised
    <2>2. CASE row[c] # "pending"
        BY <1>5, <2>2, BeginAgrees DEF StartDelete, Promised
    <2>3. QED
        BY <2>1, <2>2
<1>6. QED
    BY <1>1, <1>2, <1>3, <1>4, <1>5 DEF StartRequest

LEMMA AgreeRequest ==
    ASSUME TypeOK, SweepInv, AgreeInv, faults = 0, NEW r \in Request, RequestStep(r)
    PROVE  AgreeInv'
<1>1. PICK c \in Config : req[r].cfg = c
    BY RequestConfig DEF RequestStep, WriteConfig, UpdateConfig, DeleteConfig, UpdateRow, PullRow
<1>2. c \notin crossed => \A s \in Request \ {r} : req[s].cfg # c
    BY <1>1 DEF AgreeInv, Alone
<1>3. AgreeAt(c) /\ (Free(c)' => Free(c)) /\ UNCHANGED <<pass, crossed>>
    BY DEF AgreeInv, Free, RequestStep, WriteConfig, UpdateConfig, DeleteConfig, UpdateRow, PullRow
<1>4. /\ \A s \in Request \ {r} : req'[s] = req[s]
      /\ req'[r].cfg \in {c, NoConfig}
      /\ ~(UpdateConfig(r) \/ DeleteConfig(r)) => req'[r] = NoRequest
      /\ UpdateConfig(r) \/ DeleteConfig(r) =>
             req'[r] = [step |-> "row", cfg |-> c, to |-> req[r].to, email |-> req[r].email]
    BY <1>1, <1>2 DEF TypeOK, RequestStep, WriteConfig, UpdateConfig, DeleteConfig, UpdateRow,
              PullRow, End, GoOn, NoRequest
<1>5. /\ \A d \in Config \ {c} : /\ row'[d] = row[d] /\ doc'[d] = doc[d]
                                 /\ d \in saved' <=> d \in saved
      /\ row[c] # "unminted" /\ row'[c] # "unminted"
    BY <1>1, NoConfigAssumption
       DEF TypeOK, RequestStep, WriteConfig, UpdateConfig, DeleteConfig, UpdateRow, PullRow,
           Pulled, SweepInv, MintedFirst, RequestType
<1>6. AgreeAt(c)'
    <2> SUFFICES ASSUME c \notin crossed PROVE AgreeAt(c)'
        BY <1>3 DEF AgreeAt
    <2>0. \A s \in Request : s # r => req[s].cfg # c /\ req'[s].cfg # c
        BY <1>2, <1>4
    <2>1. CASE WriteConfig(r)
        <3>1. /\ row' = row /\ req[r].step = "save" /\ req'[r].cfg = NoConfig
              /\ doc'[c] = IF doc[c] = "none" THEN "active" ELSE doc[c]
              /\ doc[c] \in {"none", "active", "inactive"}
            BY <1>1, <1>4, <2>1 DEF WriteConfig, NoRequest, UpdateConfig, DeleteConfig, TypeOK
        <3>2. QED
            BY <1>1, <2>0, <1>3, <3>1, NoConfigAssumption DEF AgreeAt, Agree, Halfway
    <2>2. CASE UpdateConfig(r)
        <3>1. /\ UNCHANGED <<row, saved>> /\ req[r].step = "config"
              /\ req[r].to \in {"active", "stopped"}
              /\ doc'[c] = IF doc[c] = "none" THEN "none"
                           ELSE IF req[r].to = "active" THEN "active" ELSE "inactive"
            BY <1>1, <2>2 DEF UpdateConfig, TypeOK
        <3>2. QED
            BY <1>1, <2>0, <1>3, <1>4, <2>2, <3>1
               DEF AgreeAt, Agree, Halfway, Promised, Live
    <2>3. CASE DeleteConfig(r)
        <3>1. req[r].step = "config" /\ req[r].to \in {"deleted", "gone"}
            BY <2>3 DEF DeleteConfig
        <3>2. QED
            BY <2>0, <1>1, <1>3, <1>4, <2>3, <3>1 DEF AgreeAt, Halfway, Promised
    <2>4. CASE UpdateRow(r)
        <3>1. /\ UNCHANGED <<doc, saved>> /\ req[r].step = "row" /\ req'[r].cfg = NoConfig
              /\ req[r].to # "gone"
              /\ \/ row[c] \in Live /\ row'[c] = IF req[r].to = "keep" THEN row[c] ELSE req[r].to
                 \/ row[c] \notin Live /\ row'[c] = row[c]
            BY <1>1, <1>4, <2>4 DEF UpdateRow, NoRequest, UpdateConfig, DeleteConfig, TypeOK
        <3>2. req[r].to \in {"keep", "active", "stopped", "deleted"}
            BY <3>1 DEF TypeOK, RequestType
        <3>3. CASE row[c] \notin Live
            BY <3>1, <3>3, OutOfUse
        <3>4. CASE row[c] \in Live
            BY <1>1, <2>0, <1>3, <3>1, <3>2, <3>4, NoConfigAssumption
               DEF AgreeAt, Agree, Halfway, Promised, Live
        <3>5. QED
            BY <3>3, <3>4
    <2>5. CASE PullRow(r)
        <3>1. row'[c] = "gone"
            BY <1>1, <2>5 DEF PullRow, Pulled, TypeOK
        <3>2. QED
            BY <3>1, OutOfUse DEF Live
    <2>6. QED
        BY <2>1, <2>2, <2>3, <2>4, <2>5 DEF RequestStep
<1>7. c \in crossed' \/ Alone(c)'
    BY <1>2, <1>3, <1>4 DEF Alone
<1>8. QED
    BY <1>1, <1>3, <1>4, <1>5, <1>6, <1>7, OwnConfig

(* A pass reaps what it holds as stale, and sweeps what no entry claims.    *)
LEMMA AgreeJanitor ==
    ASSUME TypeOK, SweepInv, AgreeInv, faults = 0, NEW j \in Janitor, JanitorStep(j)
    PROVE  AgreeInv'
<1>1. \A c \in Config : AgreeAt(c)
    BY DEF AgreeInv
<1>2. \A i \in Janitor : pass[i].step # "reap" => pass[i].stale = {}
    BY DEF AgreeInv
<1>3. UNCHANGED <<saved, req, faults, crossed>>
    BY DEF JanitorStep, StartPass, ReapConfig, ReapRow, ReadClaimed, ReadOld, SweepOrphan,
           EndPass, recordVars
<1>4. \A i \in Janitor : pass'[i].step # "reap" => pass'[i].stale = {}
    BY <1>2 DEF TypeOK, JanitorStep, StartPass, ReapConfig, ReapRow, ReadClaimed, ReadOld,
           SweepOrphan, EndPass, NoPass
<1>5. \A c \in Config : row'[c] = "unminted" => row[c] = "unminted"
    BY DEF TypeOK, JanitorStep, StartPass, ReapConfig, ReapRow, Pulled, ReadClaimed, ReadOld,
           SweepOrphan, EndPass, recordVars
<1>6. ASSUME NEW c \in Config
      PROVE  AgreeAt(c)'
    <2>1. CASE StartPass(j) \/ ReadClaimed(j) \/ ReadOld(j) \/ EndPass(j)
        <3>1. UNCHANGED <<row, doc>>
            BY <2>1 DEF StartPass, ReadClaimed, ReadOld, EndPass, recordVars
        <3>2. Free(c)' => Free(c)
            <4>1. c \notin pass[j].stale \/ StartPass(j)
                BY <1>2, <2>1 DEF ReadClaimed, ReadOld, EndPass
            <4>2. StartPass(j) => c \notin pass[j].stale
                BY <1>2 DEF StartPass
            <4>3. \A i \in Janitor \ {j} : pass'[i] = pass[i]
                BY <2>1 DEF TypeOK, StartPass, ReadClaimed, ReadOld, EndPass
            <4>4. QED
                BY <4>1, <4>2, <4>3 DEF Free
        <3>3. QED
            BY <1>1, <1>3, <3>1, <3>2, Elsewhere
    <2>2. ASSUME NEW d \in Config, ReapConfig(j, d)
          PROVE  AgreeAt(c)'
        <3>1. /\ row' = row /\ \A e \in Config \ {d} : doc'[e] = doc[e]
              /\ pass'[j].stale = pass[j].stale /\ d \in pass[j].stale
              /\ \A i \in Janitor \ {j} : pass'[i] = pass[i]
            BY <2>2 DEF ReapConfig, TypeOK
        <3>2. Free(c)' <=> Free(c)
            BY <3>1 DEF Free
        <3>3. CASE c = d
            BY <3>1, <3>2, <3>3 DEF Free, AgreeAt
        <3>4. CASE c # d
            BY <1>1, <1>3, <3>1, <3>2, <3>4, Elsewhere
        <3>5. QED
            BY <3>3, <3>4
    <2>3. CASE ReapRow(j)
        <3>1. PICK d \in Config : d = pass[j].half
            BY <2>3 DEF ReapRow, TypeOK, PassType
        <3>2. /\ row'[d] = "gone" /\ \A e \in Config \ {d} : row'[e] = row[e]
              /\ doc' = doc /\ pass'[j].stale = pass[j].stale \ {d}
              /\ \A i \in Janitor \ {j} : pass'[i] = pass[i]
            BY <2>3, <3>1 DEF ReapRow, Pulled, TypeOK
        <3>3. CASE c = d
            BY <3>2, <3>3, OutOfUse DEF Live
        <3>4. CASE c # d
            <4>1. Free(c)' => Free(c)
                BY <3>2, <3>4 DEF Free
            <4>2. QED
                BY <1>1, <1>3, <3>2, <3>4, <4>1, Elsewhere
        <3>5. QED
            BY <3>3, <3>4
    <2>4. ASSUME NEW d \in Config, SweepOrphan(j, d)
          PROVE  AgreeAt(c)'
        <3>1. /\ row' = row /\ \A e \in Config \ {d} : doc'[e] = doc[e]
              /\ row[d] = "gone" /\ pass[j].step = "sweep"
              /\ \A i \in Janitor \ {j} : pass'[i] = pass[i]
            BY <2>4 DEF SweepOrphan, TypeOK, SweepInv, SweepSparesBots
        <3>2. CASE c = d
            BY <3>1, <3>2, OutOfUse DEF Live
        <3>3. CASE c # d
            <4>1. Free(c)' => Free(c)
                BY <1>2, <3>1 DEF Free
            <4>2. QED
                BY <1>1, <1>3, <3>1, <3>3, <4>1, Elsewhere
        <3>4. QED
            BY <3>2, <3>3
    <2>5. QED
        BY <2>1, <2>2, <2>3, <2>4 DEF JanitorStep
<1>7. QED
    BY <1>3, <1>4, <1>5, <1>6 DEF AgreeInv, Alone

LEMMA AgreeStep == TypeOK /\ SweepInv /\ AgreeInv /\ [Next]_vars => AgreeInv'
<1> SUFFICES ASSUME TypeOK, SweepInv, AgreeInv, [Next]_vars
             PROVE  AgreeInv'
    OBVIOUS
<1>f. CASE faults' # 0
    BY <1>f DEF AgreeInv
<1>n. CASE faults' = 0
    <2>1. faults = 0
        <3>1. faults \in Nat /\ (faults' = faults \/ faults' = faults + 1)
            BY TTLAssumption
               DEF TypeOK, Next, vars, Create, StartRequest, StartSave, StartPatch, StartEmailPatch,
                   StartUnsubscribe, StartDelete, Begin, RequestStep, WriteConfig, UpdateConfig,
                   DeleteConfig, UpdateRow, PullRow, RequestFails, Fault, DeleteAccount, JanitorStep,
                   StartPass, ReapConfig, ReapRow, ReadClaimed, ReadOld, SweepOrphan, EndPass,
                   PassFails, Tick
        <3>2. QED
            BY <1>n, <3>1
    <2>2. ASSUME NEW c \in Config, NEW email \in BOOLEAN, Create(c, email)
          PROVE  AgreeInv'
        <3>1. /\ row'[c] \in {"pending", "gone"} /\ UNCHANGED <<doc, saved, req, pass, crossed>>
              /\ \A d \in Config \ {c} : row'[d] = row[d]
              /\ doc[c] = "none" /\ c \notin saved /\ \A r \in Request : req[r].cfg # c
            BY <2>1, <2>2 DEF Create, TypeOK, SweepInv, MintedFirst, AgreeInv
        <3>2. AgreeAt(c)'
            BY <3>1 DEF AgreeAt, Agree
        <3>3. \A d \in Config \ {c} : AgreeAt(d)'
            BY <2>1, <3>1, Elsewhere DEF AgreeInv, Free
        <3>4. QED
            BY <2>1, <3>1, <3>2, <3>3 DEF AgreeInv, Alone
    <2>3. CASE DeleteAccount
        <3>1. /\ \A c \in Config : row'[c] = IF row[c] = "unminted" THEN "unminted" ELSE "gone"
              /\ UNCHANGED <<saved, req, pass, crossed>>
            BY <2>3 DEF DeleteAccount
        <3>2. \A c \in Config : AgreeAt(c)'
            BY <3>1, OutOfUse DEF Live
        <3>3. QED
            BY <2>1, <3>1, <3>2 DEF AgreeInv, Alone
    <2>4. CASE Tick \/ UNCHANGED vars
        <3>1. /\ UNCHANGED <<row, doc, saved, req, crossed>>
              /\ \A j \in Janitor : pass'[j].step = pass[j].step /\ pass'[j].stale = pass[j].stale
            BY <2>4 DEF Tick, vars
        <3>2. \A c \in Config : AgreeAt(c)'
            BY <2>1, <3>1, Elsewhere DEF AgreeInv, Free
        <3>3. QED
            BY <2>1, <3>1, <3>2 DEF AgreeInv, Alone
    <2>5. ASSUME NEW r \in Request, RequestFails(r)
          PROVE  FALSE
        BY <1>n, <2>1, <2>5 DEF RequestFails, Fault
    <2>6. ASSUME NEW j \in Janitor, PassFails(j)
          PROVE  FALSE
        BY <1>n, <2>1, <2>6 DEF PassFails, Fault
    <2>7. QED
        BY <2>1, <2>2, <2>3, <2>4, <2>5, <2>6, AgreeStart, AgreeRequest, AgreeJanitor DEF Next
<1>q. QED
    BY <1>f, <1>n

(* However many requests are in flight and whatever the janitors do, the     *)
(* scrape cycle runs the bots whose entry is active and no paused one,       *)
(* whenever nobody works on them, unless two requests were once about the    *)
(* same bot at the same time.                                                *)
THEOREM RecordsStayInStep == Spec => []RecordsAgree
<1>1. Init => AgreeInv
    BY NoConfigAssumption
       DEF Init, AgreeInv, Alone, AgreeAt, Agree, Promised, Live, NoRequest, NoPass
<1>2. TypeOK /\ AgreeInv => RecordsAgree
    <2> SUFFICES ASSUME TypeOK, AgreeInv, NEW c \in Config, Settled(c)
                 PROVE  /\ row[c] = "active" => doc[c] = "active"
                        /\ row[c] = "stopped" => doc[c] = "inactive"
        BY DEF RecordsAgree
    <2>1. QED
        BY DEF Settled, AgreeInv, AgreeAt, Free, Agree
<1>3. TypeOK /\ SweepInv /\ AgreeInv /\ [Next]_vars => AgreeInv'
    BY AgreeStep
<1>4. QED
    BY <1>1, <1>2, <1>3, TypeCorrect, SweepInductive, PTL DEF Spec
=============================================================================
