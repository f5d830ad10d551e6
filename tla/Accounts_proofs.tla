--------------------------- MODULE Accounts_proofs ---------------------------
(***************************************************************************)
(* Proofs about Accounts, for any users, e-mails, browsers, requests and    *)
(* bounds.                                                                  *)
(***************************************************************************)
EXTENDS Accounts, TLAPS

(* A handler that has found its user acts for a user.                       *)
HasUser ==
    \A r \in Reqs : req[r] \in Handled =>
        /\ req[r].step \in {"touch", "user", "open"} => req[r].user \in Users
        /\ req[r].step \in {"act", "write"} /\ req[r].kind # "logout"
             => req[r].user \in Users

(* A cookie names a row that was inserted.                                  *)
Issued ==
    \A r \in Reqs : req[r] \in Replied /\ req[r].set.type = "both"
                      => req[r].set.sid < next

TypeInv == TypeOK /\ HasUser /\ Issued

LEMMA InHandler ==
    ASSUME TypeOK, NEW r \in Reqs, req[r].step \notin {"idle", "reply"}
    PROVE  req[r] \in Handled
BY DEF TypeOK, Idle, Replied

(* What a step makes of its own request; the others keep theirs.            *)
ReqsKept(r) ==
    /\ req' \in [Reqs -> {Idle} \cup Handled \cup Replied]
    /\ \A q \in Reqs \ {r} : req'[q] = req[q]

LEMMA AnswerKeeps ==
    ASSUME TypeOK, NEW r \in Reqs, req[r] \in Handled, NEW c \in Cookies,
           Answer(r, c)
    PROVE  ReqsKept(r) /\ req'[r] \in Replied /\ req'[r] \notin Handled
           /\ req'[r].step = "reply" /\ req'[r].set = c
           /\ req'[r].browser = req[r].browser
<1>1. req'[r] = [kind |-> "whoami", step |-> "reply",
                 browser |-> req[r].browser, set |-> c]
    BY DEF TypeOK, Answer
<1>2. req'[r] \in Replied /\ req[r].browser \in Browsers
    BY <1>1 DEF Replied, Handled
<1>3. req'[r] \notin Handled
    BY <1>1 DEF Handled
<1>4. QED
    BY <1>1, <1>2, <1>3 DEF Answer, TypeOK, ReqsKept

LEMMA MoveKeeps ==
    ASSUME TypeOK, NEW r \in Reqs, NEW h \in Handled,
           req' = [req EXCEPT ![r] = h]
    PROVE  ReqsKept(r) /\ req'[r] = h
BY DEF TypeOK, ReqsKept

LEMMA GotoMoves ==
    ASSUME TypeOK, NEW r \in Reqs, req[r] \in Handled,
           NEW s \in Steps \ {"idle", "reply"}, Goto(r, s)
    PROVE  /\ ReqsKept(r) /\ req'[r] \in Handled
           /\ req'[r] = [req[r] EXCEPT !.step = s]
<1>1. [req[r] EXCEPT !.step = s] \in Handled
    BY DEF Handled
<1>2. req' = [req EXCEPT ![r] = [req[r] EXCEPT !.step = s]]
    BY DEF Goto
<1>3. QED
    BY <1>1, <1>2, MoveKeeps

LEMMA WithoutRows ==
    ASSUME TypeOK, NEW S
    PROVE  /\ DOMAIN Without(S) = DOMAIN sessions \ S
           /\ \A s \in DOMAIN Without(S) : Without(S)[s] = sessions[s]
           /\ Without(S) \in [DOMAIN Without(S) -> Row]
BY DEF TypeOK, Without

RowsTyped ==
    /\ DOMAIN sessions \subseteq 1..(next - 1)
    /\ sessions \in [DOMAIN sessions -> Row]

LEMMA RowsDropped ==
    ASSUME TypeOK, NEW S, sessions' = Without(S), next' = next
    PROVE  RowsTyped'
<1>1. /\ DOMAIN sessions' = DOMAIN sessions \ S
      /\ sessions' \in [DOMAIN sessions' -> Row]
    BY WithoutRows
<1>2. QED
    BY <1>1 DEF TypeOK, RowsTyped

LEMMA RowsKept ==
    ASSUME TypeOK, sessions' = sessions, next' = next
    PROVE  RowsTyped'
BY DEF TypeOK, RowsTyped

LEMMA CookiesKnown ==
    /\ Keep \in Cookies /\ Clear \in Cookies
    /\ Keep.type # "both" /\ Clear.type # "both"
BY DEF Cookies, Keep, Clear

(* What keeps the part of TypeInv that is about requests.                   *)
LEMMA ReqsType ==
    ASSUME TypeInv, NEW r \in Reqs, ReqsKept(r), next' \in Nat, next' >= next,
           req'[r] \in Handled =>
               /\ req'[r].sid < next
               /\ req'[r].step \in {"touch", "user", "open"} => req'[r].user \in Users
               /\ req'[r].step \in {"act", "write"} /\ req'[r].kind # "logout"
                    => req'[r].user \in Users,
           req'[r] \in Handled \/ req'[r].set.type # "both" \/ req'[r].set.sid < next'
    PROVE  /\ req' \in [Reqs -> {Idle} \cup Handled \cup Replied]
           /\ \A q \in Reqs : req'[q] \in Handled => req'[q].sid < next'
           /\ HasUser' /\ Issued'
<1>1. \A q \in Reqs : req'[q] \in Handled => req'[q].sid \in Nat /\ req'[q].sid < next
    BY AccountsAssumption DEF TypeInv, TypeOK, ReqsKept, Handled
<1>2. next \in Nat
    BY AccountsAssumption DEF TypeInv, TypeOK
<1>3. \A q \in Reqs : req'[q] \in Handled => req'[q].sid < next'
    BY <1>1, <1>2
<1>4. HasUser'
    BY DEF TypeInv, HasUser, ReqsKept
<1>5. Issued'
    <2>1. ASSUME NEW q \in Reqs \ {r}, req'[q] \in Replied, req'[q].set.type = "both"
          PROVE  req'[q].set.sid < next'
        <3>1. req[q] \in Replied /\ req'[q] = req[q] /\ req[q].set.type = "both"
            BY <2>1 DEF ReqsKept
        <3>2. req[q].set.sid < next /\ req[q].set.sid \in Nat
            BY <3>1, AccountsAssumption DEF TypeInv, Issued, Replied, Cookies, Sids
        <3>3. QED
            BY <1>2, <3>1, <3>2
    <2>2. req'[r] \in Replied => req'[r] \notin Handled
        BY DEF Replied, Handled
    <2>3. QED
        BY <2>1, <2>2 DEF Issued
<1>6. QED
    BY <1>3, <1>4, <1>5 DEF ReqsKept

(* A step that leaves the collections alone and only moves its request.     *)
LEMMA MoveType ==
    ASSUME TypeInv, NEW r \in Reqs, req[r] \in Handled, NEW h \in Handled,
           req' = [req EXCEPT ![r] = h], h.sid = req[r].sid,
           h.step \in {"touch", "user", "open"} => h.user \in Users,
           h.step \in {"act", "write"} /\ h.kind # "logout" => h.user \in Users,
           UNCHANGED <<users, gone, indexed, next, jar, alone>>,
           RowsTyped'
    PROVE  TypeInv'
<1>1. ReqsKept(r) /\ req'[r] = h
    BY MoveKeeps DEF TypeInv
<1>2. next \in Nat /\ next >= next /\ h.sid < next
    BY AccountsAssumption DEF TypeInv, TypeOK
<1>3. /\ req' \in [Reqs -> {Idle} \cup Handled \cup Replied]
      /\ \A q \in Reqs : req'[q] \in Handled => req'[q].sid < next'
      /\ HasUser' /\ Issued'
    BY <1>1, <1>2, ReqsType
<1>4. QED
    BY <1>3 DEF TypeInv, TypeOK, RowsTyped

(* A step that answers its request.                                         *)
LEMMA AnswerType ==
    ASSUME TypeInv, NEW r \in Reqs, req[r] \in Handled, NEW c \in Cookies,
           Answer(r, c), c.type = "both" => c.sid < next',
           UNCHANGED <<indexed, jar, alone>>,
           users' \in [Users -> Emails \cup {None}], gone' \subseteq Users,
           next' \in 1..(MaxSessions + 1), next' >= next,
           RowsTyped'
    PROVE  TypeInv'
<1>1. ReqsKept(r) /\ req'[r] \notin Handled /\ req'[r].set = c
    BY AnswerKeeps DEF TypeInv
<1>2. /\ req' \in [Reqs -> {Idle} \cup Handled \cup Replied]
      /\ \A q \in Reqs : req'[q] \in Handled => req'[q].sid < next'
      /\ HasUser' /\ Issued'
    BY <1>1, ReqsType, AccountsAssumption
<1>3. \A b \in Browsers : jar'[b].sid < next'
    BY AccountsAssumption DEF TypeInv, TypeOK
<1>4. QED
    BY <1>2, <1>3 DEF TypeInv, TypeOK, RowsTyped

LEMMA AnswerTypeKept ==
    ASSUME TypeInv, NEW r \in Reqs, req[r] \in Handled, NEW c \in Cookies,
           Answer(r, c), c.type # "both",
           UNCHANGED <<users, gone, indexed, next, jar, alone>>, RowsTyped'
    PROVE  TypeInv'
BY AnswerType, AccountsAssumption DEF TypeInv, TypeOK

LEMMA SendType ==
    ASSUME TypeInv, NEW r \in Reqs, NEW b \in Browsers, NEW k \in Kinds,
           NEW e \in Emails \cup {None}, Send(r, b, k, e)
    PROVE  TypeInv'
<1> DEFINE c == IF k \in {"login", "register"} THEN Empty ELSE jar[b]
           h == [kind |-> k, browser |-> b, email |-> e, user |-> None,
                 sid |-> c.sid, token |-> c.token, checked |-> FALSE,
                 step |-> IF k \in Mutating THEN "csrf"
                          ELSE IF k = "whoami" THEN "load" ELSE "find"]
<1>0. next \in Nat /\ next >= 1
    BY AccountsAssumption DEF TypeInv, TypeOK
<1>1. c.sid \in 0..MaxSessions /\ c.sid < next /\ c.token \in Tokens
    BY <1>0, AccountsAssumption DEF TypeInv, TypeOK, Empty, NoToken, Tokens
<1>2. h \in Handled /\ h.step \in {"csrf", "load", "find"} /\ h.sid < next
    BY <1>1 DEF Handled, Steps
<1>3. req' = [req EXCEPT ![r] = h]
    BY DEF Send
<1> HIDE DEF h
<1>4. ReqsKept(r) /\ req'[r] = h
    BY <1>2, <1>3, MoveKeeps DEF TypeInv
<1>5. next' = next
    BY DEF Send
<1>6. /\ req' \in [Reqs -> {Idle} \cup Handled \cup Replied]
      /\ \A q \in Reqs : req'[q] \in Handled => req'[q].sid < next'
      /\ HasUser' /\ Issued'
    BY <1>0, <1>2, <1>4, <1>5, ReqsType
<1>7. QED
    BY <1>6 DEF Send, TypeInv, TypeOK

LEMMA PassMoves ==
    ASSUME TypeOK, NEW r \in Reqs, req[r] \in Handled,
           NEW s \in Steps \ {"idle", "reply"}, NEW ok \in BOOLEAN, Pass(r, s, ok)
    PROVE  \E h \in Handled :
             /\ req' = [req EXCEPT ![r] = h]
             /\ h.step = s /\ h.checked = ok /\ h.sid = req[r].sid
             /\ h.user = req[r].user /\ h.kind = req[r].kind
             /\ h.browser = req[r].browser
<1> DEFINE h == [req[r] EXCEPT !.step = s, !.checked = ok, !.token = NoToken]
<1>1. NoToken \in Tokens
    BY AccountsAssumption DEF NoToken, Tokens
<1>2. /\ h \in Handled /\ h.step = s /\ h.checked = ok /\ h.sid = req[r].sid
      /\ h.user = req[r].user /\ h.kind = req[r].kind /\ h.browser = req[r].browser
    BY <1>1 DEF Handled
<1>3. req' = [req EXCEPT ![r] = h]
    BY DEF TypeOK, Pass
<1>4. QED
    BY <1>2, <1>3

LEMMA CsrfType ==
    ASSUME TypeInv, NEW r \in Reqs, Csrf(r)
    PROVE  TypeInv'
<1> DEFINE go == IF req[r].kind = "logout" THEN "act" ELSE "load"
<1>1. req[r] \in Handled
    BY InHandler DEF Csrf, At, TypeInv
<1>2. RowsTyped'
    BY RowsDropped, RowsKept DEF Csrf, LoadFails, TypeInv
<1>3. ASSUME NEW ok \in BOOLEAN, Pass(r, go, ok)
      PROVE  TypeInv'
    <2>1. go \in Steps \ {"idle", "reply"}
        BY DEF Steps
    <2>2. PICK h \in Handled :
            /\ req' = [req EXCEPT ![r] = h]
            /\ h.step = go /\ h.sid = req[r].sid /\ h.kind = req[r].kind
        BY <1>1, <1>3, <2>1, PassMoves DEF TypeInv
    <2>3. h.step \in {"act", "load"} /\ (h.step = "act" => h.kind = "logout")
        BY <2>2
    <2>4. UNCHANGED <<users, gone, indexed, next, jar, alone>>
        BY DEF Csrf
    <2>5. QED
        BY <1>1, <1>2, <2>2, <2>3, <2>4, MoveType
<1>4. CASE Answer(r, Keep)
    <2>1. Keep \in Cookies /\ Keep.type # "both"
        BY CookiesKnown
    <2>2. UNCHANGED <<users, gone, indexed, next, jar, alone>>
        BY DEF Csrf
    <2>3. QED
        BY <1>1, <1>2, <1>4, <2>1, <2>2, AnswerTypeKept
<1>5. QED
    BY <1>3, <1>4 DEF Csrf

(* The end of the look-up of a session.                                     *)
LEMMA LoadType ==
    ASSUME TypeInv, NEW r \in Reqs, Load(r)
    PROVE  TypeInv'
<1>1. req[r] \in Handled
    BY InHandler DEF Load, At, TypeInv
<1>2. RowsTyped'
    BY RowsDropped, RowsKept DEF Load, LoadFails, TypeInv
<1>3. UNCHANGED <<users, gone, indexed, next, jar, alone>>
    BY DEF Load
<1>4. ASSUME NEW c \in {Keep, Clear}, Answer(r, c)
      PROVE  TypeInv'
    BY <1>1, <1>2, <1>3, <1>4, AnswerTypeKept, CookiesKnown
<1>5. ASSUME NEW step \in {"touch", "user"}, Usable(req[r].sid),
             req' = [req EXCEPT ![r].user = sessions[req[r].sid].user, ![r].step = step]
      PROVE  TypeInv'
    <2> DEFINE u == sessions[req[r].sid].user
               h == [req[r] EXCEPT !.user = u, !.step = step]
    <2>1. u \in Users
        BY <1>5 DEF Usable, TypeInv, TypeOK, Row
    <2>2. h \in Handled /\ h.sid = req[r].sid /\ h.step = step /\ h.user = u
        BY <1>1, <2>1 DEF Handled, Steps
    <2>3. req' = [req EXCEPT ![r] = h]
        BY <1>5 DEF TypeInv, TypeOK
    <2> HIDE DEF h, u
    <2>4. QED
        BY <1>1, <1>2, <1>3, <2>1, <2>2, <2>3, MoveType
<1>6. QED
    BY <1>4, <1>5 DEF Load

LEMMA GotoType ==
    ASSUME TypeInv, NEW r \in Reqs, req[r] \in Handled,
           NEW s \in {"user", "act", "write", "insert"}, Goto(r, s),
           s = "insert" \/ req[r].user \in Users,
           UNCHANGED <<indexed, next, jar, alone>>,
           users' \in [Users -> Emails \cup {None}], gone' \subseteq Users,
           RowsTyped'
    PROVE  TypeInv'
<1>1. s \in Steps \ {"idle", "reply"}
    BY DEF Steps
<1>2. ReqsKept(r) /\ req'[r] \in Handled /\ req'[r] = [req[r] EXCEPT !.step = s]
    BY <1>1, GotoMoves DEF TypeInv
<1>3. /\ req'[r].sid = req[r].sid /\ req'[r].user = req[r].user
      /\ req'[r].step = s /\ req'[r].sid < next
    BY <1>2 DEF Handled, TypeInv, TypeOK
<1>4. next \in Nat /\ next >= next /\ next' = next
    BY AccountsAssumption DEF TypeInv, TypeOK
<1>5. /\ req' \in [Reqs -> {Idle} \cup Handled \cup Replied]
      /\ \A q \in Reqs : req'[q] \in Handled => req'[q].sid < next'
      /\ HasUser' /\ Issued'
    BY <1>2, <1>3, <1>4, ReqsType
<1>6. QED
    BY <1>4, <1>5 DEF TypeInv, TypeOK, RowsTyped

(* The steps of a handler that run for a user that was found.               *)
LEMMA SessionStepType ==
    ASSUME TypeInv, NEW r \in Reqs,
           \/ Touch(r) \/ LoadUser(r) \/ Logout(r) \/ LogoutEverywhere(r)
           \/ ChangePassword(r) \/ CheckEmail(r) \/ DeleteUserSessions(r)
    PROVE  TypeInv'
<1>1. req[r] \in Handled
    BY InHandler DEF Touch, LoadUser, Logout, LogoutEverywhere, ChangePassword,
                     CheckEmail, DeleteUserSessions, At, TypeInv
<1>2. \A c \in {Keep, Clear} : c \in Cookies /\ c.type # "both"
    BY CookiesKnown
<1>3. UNCHANGED <<users, gone, indexed, next, jar, alone>>
    BY DEF Touch, LoadUser, Logout, LogoutEverywhere, ChangePassword,
           CheckEmail, DeleteUserSessions
<1>4. users' \in [Users -> Emails \cup {None}] /\ gone' \subseteq Users
    BY <1>3 DEF TypeInv, TypeOK
<1>5. RowsTyped'
    <2>1. CASE sessions' = sessions
        BY <1>3, <2>1, RowsKept DEF TypeInv
    <2>2. CASE \E S : sessions' = Without(S)
        BY <1>3, <2>2, RowsDropped DEF TypeInv
    <2>3. CASE sessions' = Touched(req[r].sid)
        BY <1>3, <2>3 DEF Touched, TypeInv, TypeOK, RowsTyped, Row
    <2>4. QED
        BY <2>1, <2>2, <2>3
           DEF Touch, LoadUser, Logout, LogoutEverywhere, ChangePassword,
               CheckEmail, DeleteUserSessions
<1>6. CASE \E c \in {Keep, Clear} : Answer(r, c)
    BY <1>1, <1>2, <1>3, <1>5, <1>6, AnswerTypeKept
<1>7. ASSUME NEW s \in {"user", "act", "write"}, Goto(r, s),
             req[r].user \in Users
      PROVE  TypeInv'
    BY <1>1, <1>3, <1>4, <1>5, <1>7, GotoType
<1>8. CASE Touch(r)
    BY <1>1, <1>7, <1>8 DEF Touch, At, TypeInv, HasUser
<1>9. CASE LoadUser(r)
    BY <1>1, <1>6, <1>7, <1>9 DEF LoadUser, At, TypeInv, HasUser
<1>10. CASE Logout(r) \/ LogoutEverywhere(r) \/ DeleteUserSessions(r)
    BY <1>6, <1>10 DEF Logout, LogoutEverywhere, DeleteUserSessions
<1>11. CASE ChangePassword(r) \/ CheckEmail(r)
    BY <1>1, <1>6, <1>7, <1>11
       DEF ChangePassword, CheckEmail, At, TypeInv, HasUser
<1>12. QED
    BY <1>8, <1>9, <1>10, <1>11

LEMMA RotateType ==
    ASSUME TypeInv, NEW r \in Reqs, RotateToken(r)
    PROVE  TypeInv'
<1> DEFINE s == req[r].sid
<1>1. req[r] \in Handled
    BY InHandler DEF RotateToken, At, TypeInv
<1>2. UNCHANGED <<users, gone, indexed, next, jar, alone>>
    BY DEF RotateToken
<1>3. CASE s \in DOMAIN sessions
    <2>1. /\ sessions[s] \in Row /\ sessions[s].k < MaxRotations
          /\ sessions' = [sessions EXCEPT ![s].k = @ + 1]
        BY <1>3 DEF RotateToken, TypeInv, TypeOK
    <2>2. sessions[s].k + 1 \in 0..MaxRotations /\ s \in 0..MaxSessions
        BY <1>1, <2>1, AccountsAssumption DEF Row, Handled
    <2>3. RowsTyped'
        BY <1>2, <1>3, <2>1, <2>2 DEF TypeInv, TypeOK, RowsTyped, Row
    <2>4. [type |-> "token", token |-> Token(s, sessions[s].k + 1)] \in Cookies
        BY <2>2 DEF Cookies, Token, Tokens
    <2>5. Answer(r, [type |-> "token", token |-> Token(s, sessions[s].k + 1)])
        BY <1>3 DEF RotateToken
    <2>6. QED
        BY <1>1, <1>2, <2>3, <2>4, <2>5, AnswerTypeKept
<1>4. CASE s \notin DOMAIN sessions
    <2>1. sessions' = sessions /\ Answer(r, Keep)
        BY <1>4 DEF RotateToken
    <2>2. RowsTyped'
        BY <1>2, <2>1, RowsKept DEF TypeInv
    <2>3. QED
        BY <1>1, <1>2, <2>1, <2>2, CookiesKnown, AnswerTypeKept
<1>5. QED
    BY <1>3, <1>4

LEMMA WriteEmailType ==
    ASSUME TypeInv, NEW r \in Reqs, WriteEmail(r)
    PROVE  TypeInv'
<1>1. req[r] \in Handled
    BY InHandler DEF WriteEmail, At, TypeInv
<1>2. users' \in [Users -> Emails \cup {None}] /\ gone' \subseteq Users
    BY <1>1 DEF WriteEmail, WithEmail, Handled, TypeInv, TypeOK
<1>3. RowsTyped' /\ next' \in 1..(MaxSessions + 1) /\ next' >= next
    BY RowsKept, AccountsAssumption DEF WriteEmail, TypeInv, TypeOK
<1>4. QED
    BY <1>1, <1>2, <1>3, CookiesKnown, AnswerType DEF WriteEmail

LEMMA DeleteUserType ==
    ASSUME TypeInv, NEW r \in Reqs, DeleteUser(r)
    PROVE  TypeInv'
<1>1. req[r] \in Handled
    BY InHandler DEF DeleteUser, At, TypeInv
<1>2. req[r].user \in Users
    BY <1>1 DEF DeleteUser, At, TypeInv, HasUser
<1>3. users' \in [Users -> Emails \cup {None}] /\ gone' \subseteq Users
    BY <1>2 DEF DeleteUser, TypeInv, TypeOK
<1>4. RowsTyped'
    BY RowsKept DEF DeleteUser, TypeInv
<1>5. QED
    BY <1>1, <1>2, <1>3, <1>4, GotoType DEF DeleteUser

(* A request that goes on to open a session for a user.                     *)
LEMMA OpensType ==
    ASSUME TypeInv, NEW r \in Reqs, req[r] \in Handled, NEW u \in Users,
           req' = [req EXCEPT ![r].user = u, ![r].step = "open"],
           UNCHANGED <<gone, indexed, sessions, next, jar, alone>>,
           users' \in [Users -> Emails \cup {None}]
    PROVE  TypeInv'
<1> DEFINE h == [req[r] EXCEPT !.user = u, !.step = "open"]
<1>1. h \in Handled /\ h.sid = req[r].sid /\ h.step = "open" /\ h.user = u
    BY DEF Handled, Steps
<1>2. req' = [req EXCEPT ![r] = h]
    BY DEF TypeInv, TypeOK
<1> HIDE DEF h
<1>3. ReqsKept(r) /\ req'[r] = h
    BY <1>1, <1>2, MoveKeeps DEF TypeInv
<1>4. next \in Nat /\ next >= next /\ next' = next /\ h.sid < next
    BY <1>1, AccountsAssumption DEF TypeInv, TypeOK
<1>5. /\ req' \in [Reqs -> {Idle} \cup Handled \cup Replied]
      /\ \A q \in Reqs : req'[q] \in Handled => req'[q].sid < next'
      /\ HasUser' /\ Issued'
    BY <1>1, <1>3, <1>4, ReqsType
<1>6. QED
    BY <1>4, <1>5 DEF TypeInv, TypeOK

LEMMA LoginType ==
    ASSUME TypeInv, NEW r \in Reqs, Login(r) \/ Register(r) \/ InsertUser(r)
    PROVE  TypeInv'
<1>1. req[r] \in Handled
    BY InHandler DEF Login, Register, InsertUser, At, TypeInv
<1>2. UNCHANGED <<gone, indexed, sessions, next, jar, alone>> /\ RowsTyped'
    BY RowsKept DEF Login, Register, InsertUser, TypeInv
<1>3. CASE Answer(r, Keep) /\ users' = users
    BY <1>1, <1>2, <1>3, CookiesKnown, AnswerTypeKept
<1>4. CASE Login(r)
    BY <1>1, <1>2, <1>3, <1>4, OpensType DEF Login, TypeInv, TypeOK
<1>5. CASE Register(r)
    <2>1. CASE Goto(r, "insert")
        BY <1>1, <1>2, <1>5, <2>1, GotoType DEF Register, TypeInv, TypeOK
    <2>2. QED
        BY <1>3, <1>5, <2>1 DEF Register
<1>6. CASE InsertUser(r)
    <2>1. PICK u \in Users \ gone :
            IF Refused(u, req[r].email)
            THEN UNCHANGED users /\ Answer(r, Keep)
            ELSE /\ users' = [users EXCEPT ![u] = req[r].email]
                 /\ req' = [req EXCEPT ![r].user = u, ![r].step = "open"]
        BY <1>6 DEF InsertUser
    <2>2. CASE ~Refused(u, req[r].email)
        <3>1. users' \in [Users -> Emails \cup {None}]
            BY <1>1, <2>1, <2>2 DEF Handled, TypeInv, TypeOK
        <3>2. QED
            BY <1>1, <1>2, <2>1, <2>2, <3>1, OpensType
    <2>3. QED
        BY <1>3, <2>1, <2>2
<1>7. QED
    BY <1>4, <1>5, <1>6

LEMMA OpenSessionType ==
    ASSUME TypeInv, NEW r \in Reqs, OpenSession(r)
    PROVE  TypeInv'
<1> DEFINE c == [type |-> "both", sid |-> next, token |-> Token(next, 0)]
<1>1. req[r] \in Handled /\ req[r].user \in Users
    BY InHandler DEF OpenSession, At, TypeInv, HasUser
<1>2. next \in 1..MaxSessions /\ next' = next + 1
    BY AccountsAssumption DEF OpenSession, TypeInv, TypeOK
<1>3. c \in Cookies /\ c.sid < next'
    BY <1>2, AccountsAssumption DEF Cookies, Sids, Token, Tokens
<1>4. NewRow(req[r].user) \in Row
    BY <1>1, AccountsAssumption DEF NewRow, Row
<1>5. RowsTyped'
    BY <1>2, <1>4 DEF OpenSession, TypeInv, TypeOK, RowsTyped
<1>6. /\ users' \in [Users -> Emails \cup {None}] /\ gone' \subseteq Users
      /\ next' \in 1..(MaxSessions + 1) /\ next' >= next
    BY <1>2, AccountsAssumption DEF OpenSession, TypeInv, TypeOK
<1>7. Answer(r, c) /\ UNCHANGED <<indexed, jar, alone>>
    BY DEF OpenSession
<1> HIDE DEF c
<1>8. QED
    BY <1>1, <1>3, <1>5, <1>6, <1>7, AnswerType

LEMMA IdleNotHandled == Idle \notin Handled
BY DEF Idle, Handled

LEMMA IdleNotReplied == Idle \notin Replied
BY DEF Idle, Replied

LEMMA ReplyType ==
    ASSUME TypeInv, NEW r \in Reqs, Reply(r) \/ LoseReply(r)
    PROVE  TypeInv'
<1>1. At(r, "reply")
    BY DEF Reply, LoseReply
<1>2. req[r] \in Replied
    BY <1>1 DEF At, Idle, Handled, TypeInv, TypeOK
<1>3. ReqsKept(r) /\ req'[r] = Idle /\ next' = next
    BY DEF Reply, LoseReply, ReqsKept, TypeInv, TypeOK
<1>4. /\ req' \in [Reqs -> {Idle} \cup Handled \cup Replied]
      /\ \A q \in Reqs : req'[q] \in Handled => req'[q].sid < next'
      /\ HasUser' /\ Issued'
    BY <1>3, IdleNotHandled, IdleNotReplied
       DEF ReqsKept, TypeInv, TypeOK, HasUser, Issued
<1>5. /\ req[r].browser \in Browsers /\ req[r].set \in Cookies
      /\ req[r].set.type = "both" => req[r].set.sid < next
    BY <1>2 DEF Replied, TypeInv, Issued
<1>6. CookiesAfter(jar[req[r].browser], req[r].set)
        \in [sid : 0..MaxSessions, token : Tokens]
    BY <1>5, AccountsAssumption
       DEF CookiesAfter, Cookies, Empty, NoToken, Tokens, Sids, TypeInv, TypeOK
<1>7. CookiesAfter(jar[req[r].browser], req[r].set).sid < next'
    <2>1. next \in Nat /\ next >= 1
        BY AccountsAssumption DEF TypeInv, TypeOK
    <2>2. QED
        BY <1>3, <1>5, <2>1 DEF CookiesAfter, Cookies, Empty, TypeInv, TypeOK
<1>8. QED
    BY <1>3, <1>4, <1>5, <1>6, <1>7 DEF Reply, LoseReply, TypeInv, TypeOK

(* What happens outside the requests.                                       *)
LEMMA AroundType ==
    ASSUME TypeInv, Crash \/ EnsureIndexes \/ \E s \in Sids : Expires(s) \/ TtlMonitor(s)
    PROVE  TypeInv'
<1>1. CASE Crash
    BY <1>1, IdleNotHandled, IdleNotReplied
       DEF Crash, TypeInv, TypeOK, HasUser, Issued
<1>2. CASE EnsureIndexes
    BY <1>2 DEF EnsureIndexes, TypeInv, TypeOK, HasUser, Issued
<1>3. ASSUME NEW s \in Sids, Expires(s) \/ TtlMonitor(s)
      PROVE  TypeInv'
    <2>1. UNCHANGED <<users, gone, indexed, next, jar, req, alone>>
        BY <1>3 DEF Expires, TtlMonitor
    <2>2. RowsTyped'
        <3>1. CASE Expires(s)
            BY <2>1, <3>1 DEF Expires, Usable, TypeInv, TypeOK, RowsTyped, Row
        <3>2. CASE TtlMonitor(s)
            BY <2>1, <3>2, RowsDropped DEF TtlMonitor, TypeInv
        <3>3. QED
            BY <1>3, <3>1, <3>2
    <2>3. QED
        BY <2>1, <2>2 DEF TypeInv, TypeOK, HasUser, Issued, RowsTyped
<1>4. QED
    BY <1>1, <1>2, <1>3

LEMMA HandlerType ==
    ASSUME TypeInv, NEW r \in Reqs, HandlerStep(r)
    PROVE  TypeInv'
BY CsrfType, LoadType, SessionStepType, RotateType, WriteEmailType,
   DeleteUserType, LoginType, OpenSessionType DEF HandlerStep

LEMMA NextType == TypeInv /\ [Next]_vars => TypeInv'
<1> SUFFICES ASSUME TypeInv, [Next]_vars PROVE TypeInv'
    OBVIOUS
<1>1. ASSUME NEW r \in Reqs, NEW b \in Browsers, NEW k \in Kinds,
             NEW e \in IF k \in {"login", "register", "email"} THEN Emails ELSE {None},
             Send(r, b, k, e)
      PROVE  TypeInv'
    BY <1>1, SendType
<1>2. ASSUME NEW r \in Reqs, HandlerStep(r) \/ Reply(r) \/ LoseReply(r)
      PROVE  TypeInv'
    BY <1>2, HandlerType, ReplyType
<1>3. CASE UNCHANGED vars
    BY <1>3 DEF vars, TypeInv, TypeOK, HasUser, Issued
<1>4. QED
    BY <1>1, <1>2, <1>3, AroundType DEF Next

LEMMA InitType == Init => TypeInv
<1> SUFFICES ASSUME Init PROVE TypeInv
    OBVIOUS
<1>1. /\ DOMAIN sessions \subseteq 1..(next - 1)
      /\ sessions \in [DOMAIN sessions -> Row]
      /\ next \in 1..(MaxSessions + 1)
    BY AccountsAssumption DEF Init
<1>2. /\ jar \in [Browsers -> [sid : 0..MaxSessions, token : Tokens]]
      /\ \A b \in Browsers : jar[b].sid < next
    BY AccountsAssumption DEF Init, Empty, NoToken, Tokens
<1>3. /\ req \in [Reqs -> {Idle} \cup Handled \cup Replied]
      /\ \A r \in Reqs : req[r] \notin Handled /\ req[r] \notin Replied
    BY IdleNotHandled, IdleNotReplied DEF Init
<1>4. QED
    BY <1>1, <1>2, <1>3 DEF Init, TypeInv, TypeOK, HasUser, Issued

(* Every document, row, cookie and request keeps its type: a session row    *)
(* names a user (setUserSession), and no cookie names a row that was never  *)
(* inserted.                                                                *)
THEOREM TypeCorrect == Spec => []TypeOK
<1>1. Spec => []TypeInv
    BY InitType, NextType, PTL DEF Spec
<1>2. TypeInv => TypeOK
    BY DEF TypeInv
<1>3. QED
    BY <1>1, <1>2, PTL

-----------------------------------------------------------------------------
(* What a step may do to the documents and to the index.                    *)
LEMMA UsersStep ==
    ASSUME TypeInv, [Next]_vars
    PROVE  \/ UNCHANGED <<users, gone>> /\ (indexed' = indexed \/ EnsureIndexes)
           \/ \E u \in Users : /\ users' = [users EXCEPT ![u] = None]
                               /\ gone' = gone \cup {u} /\ indexed' = indexed
           \/ \E u \in Users, e \in Emails \cup {None} :
                /\ ~Refused(u, e) /\ (u \notin gone \/ users[u] # None)
                /\ users' = [users EXCEPT ![u] = e]
                /\ gone' = gone /\ indexed' = indexed
<1> DEFINE Still == UNCHANGED <<users, gone, indexed>>
<1>1. ASSUME NEW r \in Reqs,
             \/ Csrf(r) \/ Load(r) \/ Touch(r) \/ LoadUser(r) \/ Logout(r)
             \/ LogoutEverywhere(r) \/ ChangePassword(r) \/ RotateToken(r)
             \/ CheckEmail(r) \/ DeleteUserSessions(r) \/ Login(r)
             \/ Register(r) \/ OpenSession(r) \/ Reply(r) \/ LoseReply(r)
      PROVE  Still
    BY <1>1 DEF Csrf, Load, Touch, LoadUser, Logout, LogoutEverywhere,
                ChangePassword, RotateToken, CheckEmail, DeleteUserSessions,
                Login, Register, OpenSession, Reply, LoseReply
<1>2. ASSUME NEW r \in Reqs, WriteEmail(r)
      PROVE  \/ Still
             \/ \E u \in Users, e \in Emails \cup {None} :
                  /\ ~Refused(u, e) /\ users[u] # None
                  /\ users' = [users EXCEPT ![u] = e]
                  /\ gone' = gone /\ indexed' = indexed
    <2>1. req[r] \in Handled
        BY <1>2, InHandler DEF WriteEmail, At, TypeInv
    <2>2. req[r].user \in Users /\ req[r].email \in Emails \cup {None}
        BY <1>2, <2>1 DEF WriteEmail, At, TypeInv, HasUser, Handled
    <2>3. QED
        BY <1>2, <2>2 DEF WriteEmail, WithEmail
<1>3. ASSUME NEW r \in Reqs, DeleteUser(r)
      PROVE  \E u \in Users : /\ users' = [users EXCEPT ![u] = None]
                              /\ gone' = gone \cup {u} /\ indexed' = indexed
    <2>1. req[r].user \in Users
        BY <1>3, InHandler DEF DeleteUser, At, TypeInv, HasUser
    <2>2. QED
        BY <1>3, <2>1 DEF DeleteUser
<1>4. ASSUME NEW r \in Reqs, InsertUser(r)
      PROVE  \/ Still
             \/ \E u \in Users, e \in Emails \cup {None} :
                  /\ ~Refused(u, e) /\ u \notin gone
                  /\ users' = [users EXCEPT ![u] = e]
                  /\ gone' = gone /\ indexed' = indexed
    <2>1. req[r].email \in Emails \cup {None}
        BY <1>4, InHandler DEF InsertUser, At, TypeInv, Handled
    <2>2. QED
        BY <1>4, <2>1 DEF InsertUser
<1>5. CASE Crash \/ UNCHANGED vars \/ \E s \in Sids : Expires(s) \/ TtlMonitor(s)
    BY <1>5 DEF Crash, vars, Expires, TtlMonitor
<1>6. CASE EnsureIndexes
    BY <1>6 DEF EnsureIndexes
<1>7. CASE \E r \in Reqs, b \in Browsers, k \in Kinds :
             \E e \in IF k \in {"login", "register", "email"} THEN Emails ELSE {None} :
                Send(r, b, k, e)
    BY <1>7 DEF Send
<1>8. QED
    BY <1>1, <1>2, <1>3, <1>4, <1>5, <1>6, <1>7 DEF Next, HandlerStep

(* The unique index keeps what the look-ups of register.post and user.patch *)
(* cannot, for any number of requests in flight.                            *)
THEOREM UniqueEmails == Spec => []EmailsUnique
<1>1. Init => EmailsUnique
    BY DEF Init, EmailsUnique
<1>2. TypeInv /\ EmailsUnique /\ [Next]_vars => EmailsUnique'
    <2> SUFFICES ASSUME TypeInv, EmailsUnique, [Next]_vars PROVE EmailsUnique'
        OBVIOUS
    <2>1. CASE UNCHANGED <<users, gone>> /\ (indexed' = indexed \/ EnsureIndexes)
        BY <2>1 DEF EnsureIndexes, EmailsUnique
    <2>2. ASSUME NEW u \in Users, users' = [users EXCEPT ![u] = None],
                 indexed' = indexed
          PROVE  EmailsUnique'
        BY <2>2 DEF EmailsUnique, TypeInv, TypeOK
    <2>3. ASSUME NEW u \in Users, NEW e \in Emails \cup {None}, ~Refused(u, e),
                 users' = [users EXCEPT ![u] = e], indexed' = indexed
          PROVE  EmailsUnique'
        BY <2>3 DEF Refused, EmailsUnique, TypeInv, TypeOK
    <2>4. QED
        BY <2>1, <2>2, <2>3, UsersStep
<1>3. QED
    BY <1>1, <1>2, InitType, NextType, PTL DEF Spec

GoneInv == \A u \in gone : users[u] = None

(* user.delete is final for the document: a request that had read it before *)
(* does not write it back.                                                  *)
THEOREM GoneForGood == Spec => GoneUsersStayGone
<1> DEFINE Step == \A u \in gone : u \in gone' /\ users'[u] = None
<1>1. Init => GoneInv
    BY DEF Init, GoneInv
<1>2. TypeInv /\ GoneInv /\ [Next]_vars => GoneInv' /\ Step
    <2> SUFFICES ASSUME TypeInv, GoneInv, [Next]_vars PROVE GoneInv' /\ Step
        OBVIOUS
    <2>1. CASE UNCHANGED <<users, gone>>
        BY <2>1 DEF GoneInv
    <2>2. ASSUME NEW u \in Users, users' = [users EXCEPT ![u] = None],
                 gone' = gone \cup {u}
          PROVE  GoneInv' /\ Step
        BY <2>2 DEF GoneInv, TypeInv, TypeOK
    <2>3. ASSUME NEW u \in Users, NEW e \in Emails \cup {None},
                 u \notin gone \/ users[u] # None,
                 users' = [users EXCEPT ![u] = e], gone' = gone
          PROVE  GoneInv' /\ Step
        BY <2>3 DEF GoneInv, TypeInv, TypeOK
    <2>4. QED
        BY <2>1, <2>2, <2>3, UsersStep
<1>3. QED
    BY <1>1, <1>2, InitType, NextType, PTL DEF Spec, GoneUsersStayGone

-----------------------------------------------------------------------------
(* Rows go, and come with a new id only.                                    *)
LEMMA RowsStep ==
    ASSUME TypeInv, [Next]_vars
    PROVE  \/ next' = next /\ DOMAIN sessions' \subseteq DOMAIN sessions
           \/ next' = next + 1 /\ DOMAIN sessions' = DOMAIN sessions \cup {next}
<1> DEFINE Fewer == next' = next /\ DOMAIN sessions' \subseteq DOMAIN sessions
<1>1. ASSUME NEW r \in Reqs,
             \/ Csrf(r) \/ Load(r) \/ LoadUser(r) \/ Logout(r)
             \/ LogoutEverywhere(r) \/ DeleteUserSessions(r)
      PROVE  Fewer
    BY <1>1 DEF Csrf, Load, LoadUser, Logout, LogoutEverywhere,
                DeleteUserSessions, LoadFails, Without
<1>2. ASSUME NEW r \in Reqs,
             \/ ChangePassword(r) \/ CheckEmail(r) \/ WriteEmail(r) \/ DeleteUser(r)
             \/ Login(r) \/ Register(r) \/ InsertUser(r) \/ Reply(r) \/ LoseReply(r)
      PROVE  Fewer
    BY <1>2 DEF ChangePassword, CheckEmail, WriteEmail, DeleteUser, Login,
                Register, InsertUser, Reply, LoseReply
<1>3. ASSUME NEW r \in Reqs, Touch(r) \/ RotateToken(r)
      PROVE  Fewer
    BY <1>3 DEF Touch, Touched, RotateToken, TypeInv, TypeOK
<1>4. ASSUME NEW r \in Reqs, OpenSession(r)
      PROVE  next' = next + 1 /\ DOMAIN sessions' = DOMAIN sessions \cup {next}
    BY <1>4 DEF OpenSession
<1>5. CASE Crash \/ EnsureIndexes \/ UNCHANGED vars
    BY <1>5 DEF Crash, EnsureIndexes, vars
<1>6. ASSUME NEW s \in Sids, Expires(s) \/ TtlMonitor(s)
      PROVE  Fewer
    BY <1>6 DEF Expires, TtlMonitor, Without, TypeInv, TypeOK
<1>7. ASSUME NEW r \in Reqs, NEW b \in Browsers, NEW k \in Kinds,
             NEW e \in IF k \in {"login", "register", "email"} THEN Emails ELSE {None},
             Send(r, b, k, e)
      PROVE  Fewer
    BY <1>7 DEF Send
<1>8. QED
    BY <1>1, <1>2, <1>3, <1>4, <1>5, <1>6, <1>7 DEF Next, HandlerStep

LEMMA GoneRows ==
    ASSUME TypeInv, [Next]_vars, NEW s \in Nat, s < next, s \notin DOMAIN sessions
    PROVE  s \notin DOMAIN sessions'
<1>1. next \in Nat
    BY AccountsAssumption DEF TypeInv, TypeOK
<1>2. QED
    BY <1>1, RowsStep

(* No step brings a session row back: touchSession and rotateCsrfToken      *)
(* update by id.                                                            *)
THEOREM RevokedForGood == Spec => RevokedStaysRevoked
<1>1. ASSUME TypeInv, [Next]_vars, NEW s \in 1..(next - 1), s \notin DOMAIN sessions
      PROVE  s \notin DOMAIN sessions'
    <2>1. next \in Nat /\ s \in Nat /\ s < next
        BY <1>1, AccountsAssumption DEF TypeInv, TypeOK
    <2>2. QED
        BY <1>1, <2>1, GoneRows
<1>2. TypeInv /\ [Next]_vars =>
        [\A s \in 1..(next - 1) :
           s \notin DOMAIN sessions => s \notin DOMAIN sessions']_vars
    BY <1>1
<1>3. QED
    BY <1>2, InitType, NextType, PTL DEF Spec, RevokedStaysRevoked

-----------------------------------------------------------------------------
(* A request the middleware did not check has no row, and its id is spent:  *)
(* getUserSession will not find one.  What is past it was checked.          *)
TokenInv ==
    \A r \in Reqs : req[r] \in Handled /\ req[r].kind \in Mutating \ {"logout"} =>
        /\ req[r].step = "load" /\ ~req[r].checked => req[r].sid \notin DOMAIN sessions
        /\ req[r].step \in {"touch", "user", "act", "write"} => req[r].checked

LEMMA TokenKept ==
    ASSUME TypeInv, TokenInv, [Next]_vars, NEW r \in Reqs, ReqsKept(r),
           req'[r] \in Handled /\ req'[r].kind \in Mutating \ {"logout"} =>
             /\ req'[r].step = "load" /\ ~req'[r].checked
                  => req'[r].sid \notin DOMAIN sessions'
             /\ req'[r].step \in {"touch", "user", "act", "write"} => req'[r].checked
    PROVE  TokenInv'
<1>1. ASSUME NEW q \in Reqs \ {r}, req'[q] \in Handled,
             req'[q].kind \in Mutating \ {"logout"}
      PROVE  /\ req'[q].step = "load" /\ ~req'[q].checked
                  => req'[q].sid \notin DOMAIN sessions'
             /\ req'[q].step \in {"touch", "user", "act", "write"} => req'[q].checked
    <2>1. req'[q] = req[q]
        BY DEF ReqsKept
    <2>2. req[q].sid \in Nat /\ req[q].sid < next
        BY <1>1, <2>1, AccountsAssumption DEF Handled, TypeInv, TypeOK
    <2>3. req[q].sid \notin DOMAIN sessions => req[q].sid \notin DOMAIN sessions'
        BY <2>2, GoneRows
    <2>4. QED
        BY <1>1, <2>1, <2>3 DEF TokenInv
<1>2. QED
    BY <1>1 DEF TokenInv

LEMMA TokenAnswer ==
    ASSUME TypeInv, TokenInv, [Next]_vars, NEW r \in Reqs, req[r] \in Handled,
           NEW c \in Cookies, Answer(r, c)
    PROVE  TokenInv'
BY AnswerKeeps, TokenKept DEF TypeInv

LEMMA TokenGoto ==
    ASSUME TypeInv, TokenInv, [Next]_vars, NEW r \in Reqs, req[r] \in Handled,
           NEW s \in Steps \ {"idle", "reply", "load"}, Goto(r, s),
           req[r].step \in {"touch", "user", "act", "write"}
             \/ req[r].kind \notin Mutating
    PROVE  TokenInv'
<1>1. ReqsKept(r) /\ req'[r] = [req[r] EXCEPT !.step = s]
    BY GotoMoves DEF TypeInv
<1>2. /\ req'[r].kind = req[r].kind /\ req'[r].checked = req[r].checked
      /\ req'[r].step = s
    BY <1>1 DEF Handled
<1>3. req[r].kind \in Mutating \ {"logout"} => req[r].checked
    BY DEF TokenInv
<1>4. QED
    BY <1>1, <1>2, <1>3, TokenKept

(* getUserSession refuses what the middleware let through unchecked.        *)
LEMMA TokenLoad ==
    ASSUME TypeInv, TokenInv, [Next]_vars, NEW r \in Reqs, Load(r)
    PROVE  TokenInv'
<1>1. req[r] \in Handled
    BY InHandler DEF Load, At, TypeInv
<1>2. ASSUME NEW step \in {"touch", "user"}, Usable(req[r].sid),
             req' = [req EXCEPT ![r].user = sessions[req[r].sid].user, ![r].step = step]
      PROVE  TokenInv'
    <2> DEFINE h == [req[r] EXCEPT !.user = sessions[req[r].sid].user, !.step = step]
    <2>1. sessions[req[r].sid].user \in Users
        BY <1>2 DEF Usable, TypeInv, TypeOK, Row
    <2>2. h \in Handled /\ h.kind = req[r].kind /\ h.checked = req[r].checked
          /\ h.step \in {"touch", "user"}
        BY <1>1, <2>1 DEF Handled, Steps
    <2>3. req' = [req EXCEPT ![r] = h]
        BY <1>2 DEF TypeInv, TypeOK
    <2> HIDE DEF h
    <2>4. ReqsKept(r) /\ req'[r] = h
        BY <2>2, <2>3, MoveKeeps DEF TypeInv
    <2>5. req[r].kind \in Mutating \ {"logout"} => req[r].checked
        BY <1>1, <1>2, <2>2 DEF TokenInv, Load, At, Usable, Handled
    <2>6. QED
        BY <2>2, <2>4, <2>5, TokenKept
<1>3. QED
    BY <1>1, <1>2, CookiesKnown, TokenAnswer DEF Load

LEMMA TokenCsrf ==
    ASSUME TypeInv, TokenInv, [Next]_vars, NEW r \in Reqs, Csrf(r)
    PROVE  TokenInv'
<1> DEFINE go == IF req[r].kind = "logout" THEN "act" ELSE "load"
<1>1. req[r] \in Handled
    BY InHandler DEF Csrf, At, TypeInv
<1>2. ASSUME NEW ok \in BOOLEAN, Pass(r, go, ok),
             ok \/ req[r].sid \notin DOMAIN sessions'
      PROVE  TokenInv'
    <2>1. go \in Steps \ {"idle", "reply"}
        BY DEF Steps
    <2>2. PICK h \in Handled :
            /\ req' = [req EXCEPT ![r] = h]
            /\ h.step = go /\ h.sid = req[r].sid /\ h.kind = req[r].kind
            /\ h.checked = ok
        BY <1>1, <1>2, <2>1, PassMoves DEF TypeInv
    <2>3. ReqsKept(r) /\ req'[r] = h
        BY <2>2, MoveKeeps DEF TypeInv
    <2>4. QED
        BY <1>2, <2>2, <2>3, TokenKept
<1>3. LoadFails(req[r].sid) => req[r].sid \notin DOMAIN sessions'
    BY DEF LoadFails, Without
<1>4. QED
    BY <1>1, <1>2, <1>3, CookiesKnown, TokenAnswer DEF Csrf

LEMMA TokenSend ==
    ASSUME TypeInv, TokenInv, [Next]_vars, NEW r \in Reqs, NEW b \in Browsers,
           NEW k \in Kinds, NEW e \in Emails \cup {None}, Send(r, b, k, e)
    PROVE  TokenInv'
<1>1. ReqsKept(r)
    <2>1. TypeOK'
        BY SendType DEF TypeInv
    <2>2. QED
        BY <2>1 DEF Send, TypeInv, TypeOK, ReqsKept
<1>2. /\ req'[r].kind = k
      /\ req'[r].step = IF k \in Mutating THEN "csrf"
                        ELSE IF k = "whoami" THEN "load" ELSE "find"
    BY DEF Send, TypeInv, TypeOK
<1>3. QED
    BY <1>1, <1>2, TokenKept

LEMMA TokenHandler ==
    ASSUME TypeInv, TokenInv, [Next]_vars, NEW r \in Reqs, HandlerStep(r)
    PROVE  TokenInv'
<1>1. CASE Csrf(r) \/ Load(r)
    BY <1>1, TokenCsrf, TokenLoad
<1>2. CASE Touch(r) \/ LoadUser(r) \/ ChangePassword(r) \/ CheckEmail(r)
           \/ DeleteUser(r)
    <2>1. req[r] \in Handled /\ req[r].step \in {"touch", "user", "act", "write"}
        BY <1>2, InHandler
           DEF Touch, LoadUser, ChangePassword, CheckEmail, DeleteUser, At, TypeInv
    <2>2. {"user", "act", "write"} \subseteq Steps \ {"idle", "reply", "load"}
        BY DEF Steps
    <2>3. \/ \E s \in {"user", "act", "write"} : Goto(r, s)
          \/ \E c \in {Keep, Clear} : Answer(r, c)
        BY <1>2 DEF Touch, LoadUser, ChangePassword, CheckEmail, DeleteUser
    <2>4. QED
        BY <2>1, <2>2, <2>3, TokenGoto, TokenAnswer, CookiesKnown
<1>3. CASE Logout(r) \/ LogoutEverywhere(r) \/ WriteEmail(r) \/ DeleteUserSessions(r)
    <2>1. req[r] \in Handled
        BY <1>3, InHandler
           DEF Logout, LogoutEverywhere, WriteEmail, DeleteUserSessions, At, TypeInv
    <2>2. QED
        BY <1>3, <2>1, TokenAnswer, CookiesKnown
           DEF Logout, LogoutEverywhere, WriteEmail, DeleteUserSessions
<1>4. CASE Login(r) \/ Register(r) \/ InsertUser(r)
    <2>1. ReqsKept(r) /\ req'[r].step \in {"open", "insert", "reply"}
        <3>1. /\ req' \in [Reqs -> {Idle} \cup Handled \cup Replied]
              /\ \A q \in Reqs \ {r} : req'[q] = req[q]
            BY <1>4, LoginType
               DEF Login, Register, InsertUser, Answer, Goto, TypeInv, TypeOK
        <3>2. req[r] \in Handled
            BY <1>4, InHandler DEF Login, Register, InsertUser, At, TypeInv
        <3>3. ASSUME NEW u \in Users,
                     req' = [req EXCEPT ![r].user = u, ![r].step = "open"]
              PROVE  req'[r].step = "open"
            <4>1. [req[r] EXCEPT !.user = u, !.step = "open"].step = "open"
                BY <3>2 DEF Handled
            <4>2. req'[r] = [req[r] EXCEPT !.user = u, !.step = "open"]
                BY <3>3 DEF TypeInv, TypeOK
            <4>3. QED
                BY <4>1, <4>2
        <3>4. ASSUME Goto(r, "insert") PROVE req'[r].step = "insert"
            <4>1. "insert" \in Steps \ {"idle", "reply"}
                BY DEF Steps
            <4>2. req'[r] = [req[r] EXCEPT !.step = "insert"]
                BY <3>2, <3>4, <4>1, GotoMoves DEF TypeInv
            <4>3. QED
                BY <3>2, <4>2 DEF Handled
        <3>5. ASSUME Answer(r, Keep) PROVE req'[r].step = "reply"
            BY <3>5 DEF Answer, TypeInv, TypeOK
        <3>6. QED
            BY <1>4, <3>1, <3>3, <3>4, <3>5
               DEF Login, Register, InsertUser, ReqsKept
    <2>2. QED
        BY <2>1, TokenKept
<1>5. CASE RotateToken(r) \/ OpenSession(r)
    <2>1. /\ ReqsKept(r)
          /\ req'[r].step = "reply"
        <3>1. TypeInv'
            BY <1>5, RotateType, OpenSessionType
        <3>2. /\ \A q \in Reqs \ {r} : req'[q] = req[q]
              /\ req'[r].step = "reply"
            BY <1>5 DEF RotateToken, OpenSession, Answer, TypeInv, TypeOK
        <3>3. QED
            BY <3>1, <3>2 DEF TypeInv, TypeOK, ReqsKept
    <2>2. QED
        BY <2>1, TokenKept
<1>6. QED
    BY <1>1, <1>2, <1>3, <1>4, <1>5 DEF HandlerStep

(* Whatever expires, or is revoked, between the middleware and the handler, *)
(* what changes an account or its sessions was checked: a row that was not  *)
(* usable then is gone for good.                                            *)
THEOREM CheckedBeforeActing == Spec => []ActsWithToken
<1>1. Init => TokenInv
    BY IdleNotHandled DEF Init, TokenInv
<1>2. TypeInv /\ TokenInv /\ [Next]_vars => TokenInv'
    <2> SUFFICES ASSUME TypeInv, TokenInv, [Next]_vars PROVE TokenInv'
        OBVIOUS
    <2>1. ASSUME NEW r \in Reqs, NEW b \in Browsers, NEW k \in Kinds,
                 NEW e \in IF k \in {"login", "register", "email"} THEN Emails ELSE {None},
                 Send(r, b, k, e)
          PROVE  TokenInv'
        BY <2>1, TokenSend
    <2>2. ASSUME NEW r \in Reqs, HandlerStep(r)
          PROVE  TokenInv'
        BY <2>2, TokenHandler
    <2>3. ASSUME NEW r \in Reqs, Reply(r) \/ LoseReply(r)
          PROVE  TokenInv'
        <3>1. ReqsKept(r) /\ req'[r] = Idle
            BY <2>3 DEF Reply, LoseReply, ReqsKept, TypeInv, TypeOK
        <3>2. QED
            BY <3>1, IdleNotHandled, TokenKept
    <2>4. CASE Crash
        BY <2>4, IdleNotHandled DEF Crash, TokenInv
    <2>5. CASE EnsureIndexes \/ UNCHANGED vars
        BY <2>5 DEF EnsureIndexes, vars, TokenInv
    <2>6. ASSUME NEW s \in Sids, Expires(s) \/ TtlMonitor(s)
          PROVE  TokenInv'
        BY <2>6 DEF Expires, TtlMonitor, Without, TokenInv, TypeInv, TypeOK
    <2>7. QED
        BY <2>1, <2>2, <2>3, <2>4, <2>5, <2>6 DEF Next
<1>3. TypeInv /\ TokenInv => ActsWithToken
    BY InHandler DEF TypeInv, TokenInv, ActsWithToken
<1>4. QED
    BY <1>1, <1>2, <1>3, InitType, NextType, PTL DEF Spec
-----------------------------------------------------------------------------
(* A browser and its cookies.  A request is at work in its handler, or its  *)
(* response is on the way.                                                  *)
AtWork(r) == req[r].step \notin {"idle", "reply"}
Sets(r) == req[r].step = "reply" /\ req[r].set.type = "both"

(* The token belongs to the row, if there still is one.                     *)
Pair(c) ==
    c.sid \in DOMAIN sessions => c.token = Token(c.sid, sessions[c.sid].k)

(* Nobody knows a session before the response with its cookie arrives, so   *)
(* nobody has rotated its token.                                            *)
FreshAt(r) ==
    Sets(r) =>
        /\ req[r].set.token = Token(req[r].set.sid, 0)
        /\ req[r].set.sid \in DOMAIN sessions => sessions[req[r].set.sid].k = 0
        /\ \A b \in Browsers : jar[b].sid # req[r].set.sid
        /\ \A q \in Reqs : AtWork(q) => req[q].sid # req[r].set.sid
        /\ \A q \in Reqs \ {r} : Sets(q) => req[q].set.sid # req[r].set.sid

(* A session is known to one browser only.                                  *)
ApartAt(b) ==
    jar[b].sid # 0 =>
        /\ \A c \in Browsers \ {b} : jar[c].sid # jar[b].sid
        /\ \A q \in Reqs : AtWork(q) /\ req[q].browser # b => req[q].sid # jar[b].sid

(* One request at a time: until its response arrives the pair is whole, and *)
(* then what the response makes of it is.                                   *)
OrderlyAt(b) ==
    alone[b] =>
        /\ \A q, r \in InFlight(b) : q = r
        /\ InFlight(b) = {} => Pair(jar[b])
        /\ \A r \in InFlight(b) :
             /\ AtWork(r) => Pair(jar[b]) /\ req[r].sid \in {0, jar[b].sid}
             /\ ~AtWork(r) => Pair(CookiesAfter(jar[b], req[r].set))

CookieInv ==
    /\ \A r \in Reqs : FreshAt(r)
    /\ \A b \in Browsers : ApartAt(b) /\ OrderlyAt(b)

-----------------------------------------------------------------------------
(* What a step of a handler makes of the rows and of its own request.       *)
RowsStay ==
    /\ next' = next /\ DOMAIN sessions' \subseteq DOMAIN sessions
    /\ \A s \in DOMAIN sessions' : sessions'[s].k = sessions[s].k

OnlyOwn(r) ==
    /\ UNCHANGED <<jar, alone>> /\ AtWork(r)
    /\ \A q \in Reqs \ {r} : req'[q] = req[q]
    /\ req'[r].browser = req[r].browser

Quiet(r) ==
    /\ RowsStay
    /\ \/ AtWork(r)' /\ req'[r].sid = req[r].sid
       \/ req'[r].step = "reply" /\ req'[r].set \in {Keep, Clear}

Opened(r) ==
    /\ next' = next + 1 /\ DOMAIN sessions' = DOMAIN sessions \cup {next}
    /\ \A s \in DOMAIN sessions : sessions'[s].k = sessions[s].k
    /\ sessions'[next].k = 0
    /\ req'[r].step = "reply"
    /\ req'[r].set = [type |-> "both", sid |-> next, token |-> Token(next, 0)]

Rotated(r) ==
    /\ next' = next /\ req[r].sid \in DOMAIN sessions
    /\ DOMAIN sessions' = DOMAIN sessions
    /\ \A s \in DOMAIN sessions \ {req[r].sid} : sessions'[s].k = sessions[s].k
    /\ req'[r].step = "reply"
    /\ req'[r].set = [type |-> "token",
                      token |-> Token(req[r].sid, sessions'[req[r].sid].k)]

LEMMA AnswerOwn ==
    ASSUME TypeInv, NEW r \in Reqs, req[r] \in Handled, NEW c \in Cookies,
           Answer(r, c), UNCHANGED <<jar, alone>>
    PROVE  OnlyOwn(r) /\ req'[r].step = "reply" /\ req'[r].set = c
<1>1. AtWork(r)
    BY DEF AtWork, Handled
<1>2. QED
    BY <1>1, AnswerKeeps DEF OnlyOwn, ReqsKept, TypeInv

LEMMA MoveOwn ==
    ASSUME TypeInv, NEW r \in Reqs, req[r] \in Handled, NEW h \in Handled,
           req' = [req EXCEPT ![r] = h], h.sid = req[r].sid,
           h.browser = req[r].browser, UNCHANGED <<jar, alone>>
    PROVE  OnlyOwn(r) /\ AtWork(r)' /\ req'[r].sid = req[r].sid
<1>1. ReqsKept(r) /\ req'[r] = h
    BY MoveKeeps DEF TypeInv
<1>2. AtWork(r) /\ h.step \notin {"idle", "reply"}
    BY DEF AtWork, Handled
<1>3. QED
    BY <1>1, <1>2 DEF OnlyOwn, ReqsKept, AtWork

LEMMA GotoOwn ==
    ASSUME TypeInv, NEW r \in Reqs, req[r] \in Handled,
           NEW s \in Steps \ {"idle", "reply"}, Goto(r, s), UNCHANGED <<jar, alone>>
    PROVE  OnlyOwn(r) /\ AtWork(r)' /\ req'[r].sid = req[r].sid
<1> DEFINE h == [req[r] EXCEPT !.step = s]
<1>1. h \in Handled /\ h.sid = req[r].sid /\ h.browser = req[r].browser
    BY DEF Handled
<1>2. req' = [req EXCEPT ![r] = h]
    BY DEF Goto
<1> HIDE DEF h
<1>3. QED
    BY <1>1, <1>2, MoveOwn

LEMMA FoundOwn ==
    ASSUME TypeInv, NEW r \in Reqs, req[r] \in Handled, NEW u \in Users,
           NEW s \in Steps \ {"idle", "reply"},
           req' = [req EXCEPT ![r].user = u, ![r].step = s], UNCHANGED <<jar, alone>>
    PROVE  OnlyOwn(r) /\ AtWork(r)' /\ req'[r].sid = req[r].sid
<1> DEFINE h == [req[r] EXCEPT !.user = u, !.step = s]
<1>1. h \in Handled /\ h.sid = req[r].sid /\ h.browser = req[r].browser
    BY DEF Handled
<1>2. req' = [req EXCEPT ![r] = h]
    BY DEF TypeInv, TypeOK
<1> HIDE DEF h
<1>3. QED
    BY <1>1, <1>2, MoveOwn

LEMMA RowsThatStay ==
    ASSUME TypeInv, next' = next,
           \/ sessions' = sessions
           \/ \E S : sessions' = Without(S)
           \/ \E s : sessions' = Touched(s)
           \/ \E s \in DOMAIN sessions : sessions' = [sessions EXCEPT ![s].expired = TRUE]
    PROVE  RowsStay
<1>1. ASSUME NEW S, sessions' = Without(S)
      PROVE  RowsStay
    BY <1>1 DEF Without, RowsStay
<1>2. ASSUME NEW s \in DOMAIN sessions, NEW v \in BOOLEAN,
             sessions' = [sessions EXCEPT ![s].expired = v]
      PROVE  RowsStay
    BY <1>2 DEF RowsStay, TypeInv, TypeOK, Row
<1>3. QED
    BY <1>1, <1>2 DEF Touched, RowsStay

LEMMA QuietHandler ==
    ASSUME TypeInv, NEW r \in Reqs,
           \/ Csrf(r) \/ Load(r) \/ Touch(r) \/ LoadUser(r) \/ Logout(r)
           \/ LogoutEverywhere(r) \/ ChangePassword(r) \/ CheckEmail(r)
           \/ WriteEmail(r) \/ DeleteUser(r) \/ DeleteUserSessions(r)
           \/ Login(r) \/ Register(r) \/ InsertUser(r)
    PROVE  OnlyOwn(r) /\ Quiet(r)
<1>1. req[r] \in Handled
    BY InHandler
       DEF Csrf, Load, Touch, LoadUser, Logout, LogoutEverywhere, ChangePassword,
           CheckEmail, WriteEmail, DeleteUser, DeleteUserSessions, Login, Register,
           InsertUser, At, TypeInv
<1>2. UNCHANGED <<next, jar, alone>>
    BY DEF Csrf, Load, Touch, LoadUser, Logout, LogoutEverywhere, ChangePassword,
           CheckEmail, WriteEmail, DeleteUser, DeleteUserSessions, Login, Register,
           InsertUser
<1>3. RowsStay
    <2>1. \/ sessions' = sessions \/ \E S : sessions' = Without(S)
          \/ \E s : sessions' = Touched(s)
        BY DEF Csrf, Load, Touch, LoadUser, Logout, LogoutEverywhere, ChangePassword,
               CheckEmail, WriteEmail, DeleteUser, DeleteUserSessions, Login,
               Register, InsertUser, LoadFails
    <2>2. QED
        BY <1>2, <2>1, RowsThatStay
<1>4. ASSUME NEW c \in {Keep, Clear}, Answer(r, c)
      PROVE  OnlyOwn(r) /\ Quiet(r)
    BY <1>1, <1>2, <1>3, <1>4, CookiesKnown, AnswerOwn DEF Quiet
<1>5. ASSUME NEW s \in {"user", "act", "write", "insert"}, Goto(r, s)
      PROVE  OnlyOwn(r) /\ Quiet(r)
    <2>1. s \in Steps \ {"idle", "reply"}
        BY DEF Steps
    <2>2. QED
        BY <1>1, <1>2, <1>3, <1>5, <2>1, GotoOwn DEF Quiet
<1>6. CASE Csrf(r)
    <2>1. ASSUME NEW s \in {"act", "load"}, NEW ok \in BOOLEAN, Pass(r, s, ok)
          PROVE  OnlyOwn(r) /\ Quiet(r)
        <3>1. s \in Steps \ {"idle", "reply"}
            BY DEF Steps
        <3>2. PICK h \in Handled :
                /\ req' = [req EXCEPT ![r] = h]
                /\ h.sid = req[r].sid /\ h.browser = req[r].browser
            BY <1>1, <2>1, <3>1, PassMoves DEF TypeInv
        <3>3. QED
            BY <1>1, <1>2, <1>3, <3>2, MoveOwn DEF Quiet
    <2>2. QED
        BY <1>4, <1>6, <2>1 DEF Csrf
<1>7. CASE Load(r)
    <2>1. ASSUME NEW s \in {"touch", "user"}, Usable(req[r].sid),
                 req' = [req EXCEPT ![r].user = sessions[req[r].sid].user, ![r].step = s]
          PROVE  OnlyOwn(r) /\ Quiet(r)
        <3>1. s \in Steps \ {"idle", "reply"}
            BY DEF Steps
        <3>2. sessions[req[r].sid].user \in Users
            BY <2>1 DEF Usable, TypeInv, TypeOK, Row
        <3>3. QED
            BY <1>1, <1>2, <1>3, <2>1, <3>1, <3>2, FoundOwn DEF Quiet
    <2>2. QED
        BY <1>4, <1>7, <2>1 DEF Load
<1>8. CASE Login(r) \/ InsertUser(r)
    <2>1. ASSUME NEW u \in Users, req' = [req EXCEPT ![r].user = u, ![r].step = "open"]
          PROVE  OnlyOwn(r) /\ Quiet(r)
        <3>1. "open" \in Steps \ {"idle", "reply"}
            BY DEF Steps
        <3>2. QED
            BY <1>1, <1>2, <1>3, <2>1, <3>1, FoundOwn DEF Quiet
    <2>2. QED
        BY <1>4, <1>8, <2>1 DEF Login, InsertUser
<1>9. CASE Touch(r) \/ LoadUser(r) \/ ChangePassword(r) \/ CheckEmail(r) \/ DeleteUser(r)
           \/ Register(r)
    BY <1>4, <1>5, <1>9 DEF Touch, LoadUser, ChangePassword, CheckEmail, DeleteUser, Register
<1>10. CASE Logout(r) \/ LogoutEverywhere(r) \/ WriteEmail(r) \/ DeleteUserSessions(r)
    BY <1>4, <1>10 DEF Logout, LogoutEverywhere, WriteEmail, DeleteUserSessions
<1>11. QED
    BY <1>6, <1>7, <1>8, <1>9, <1>10

LEMMA HandlerEffect ==
    ASSUME TypeInv, NEW r \in Reqs, HandlerStep(r)
    PROVE  OnlyOwn(r) /\ (Quiet(r) \/ Opened(r) \/ Rotated(r))
<1>1. CASE OpenSession(r)
    <2> DEFINE c == [type |-> "both", sid |-> next, token |-> Token(next, 0)]
    <2>1. req[r] \in Handled
        BY <1>1, InHandler DEF OpenSession, At, TypeInv
    <2>2. c \in Cookies
        BY <1>1, AccountsAssumption
           DEF OpenSession, TypeInv, TypeOK, Cookies, Sids, Token, Tokens
    <2>3. Answer(r, c) /\ UNCHANGED <<jar, alone>>
        BY <1>1 DEF OpenSession
    <2>4. /\ next' = next + 1 /\ DOMAIN sessions' = DOMAIN sessions \cup {next}
          /\ next \notin DOMAIN sessions
          /\ \A s \in DOMAIN sessions : sessions'[s].k = sessions[s].k
          /\ sessions'[next].k = 0
        BY <1>1, AccountsAssumption DEF OpenSession, NewRow, TypeInv, TypeOK
    <2> HIDE DEF c
    <2>5. OnlyOwn(r) /\ req'[r].step = "reply" /\ req'[r].set = c
        BY <2>1, <2>2, <2>3, AnswerOwn
    <2>6. QED
        BY <2>4, <2>5 DEF Opened, c
<1>2. CASE RotateToken(r)
    <2> DEFINE s == req[r].sid
               c == [type |-> "token", token |-> Token(s, sessions[s].k + 1)]
    <2>1. req[r] \in Handled /\ UNCHANGED <<next, jar, alone>>
        BY <1>2, InHandler DEF RotateToken, At, TypeInv
    <2>2. CASE s \in DOMAIN sessions
        <3>1. /\ sessions[s] \in Row /\ sessions[s].k < MaxRotations
              /\ sessions' = [sessions EXCEPT ![s].k = @ + 1]
            BY <1>2, <2>2 DEF RotateToken, TypeInv, TypeOK
        <3>2. sessions[s].k + 1 \in 0..MaxRotations /\ s \in 0..MaxSessions
            BY <2>1, <3>1, AccountsAssumption DEF Row, Handled
        <3>3. c \in Cookies
            BY <3>2 DEF Cookies, Token, Tokens
        <3>4. Answer(r, c)
            BY <1>2, <2>2 DEF RotateToken
        <3>5. /\ DOMAIN sessions' = DOMAIN sessions
              /\ \A x \in DOMAIN sessions \ {s} : sessions'[x].k = sessions[x].k
              /\ sessions'[s].k = sessions[s].k + 1
            BY <2>2, <3>1 DEF Row
        <3>6. c = [type |-> "token", token |-> Token(s, sessions'[s].k)]
            BY <3>5
        <3> HIDE DEF c
        <3>7. OnlyOwn(r) /\ req'[r].step = "reply" /\ req'[r].set = c
            BY <2>1, <3>3, <3>4, AnswerOwn
        <3>8. QED
            BY <2>1, <2>2, <3>5, <3>6, <3>7 DEF Rotated
    <2>3. CASE s \notin DOMAIN sessions
        <3>1. sessions' = sessions /\ Answer(r, Keep)
            BY <1>2, <2>3 DEF RotateToken
        <3>2. QED
            BY <2>1, <3>1, CookiesKnown, AnswerOwn DEF Quiet, RowsStay
    <2>4. QED
        BY <2>2, <2>3
<1>3. QED
    BY <1>1, <1>2, QuietHandler DEF HandlerStep

(* Ids that are in use were handed out.                                     *)
LEMMA Ids ==
    ASSUME TypeInv
    PROVE  /\ next \in Nat /\ 0 \notin DOMAIN sessions
           /\ \A s \in DOMAIN sessions : s \in Nat /\ s < next
           /\ \A b \in Browsers : jar[b].sid \in Nat /\ jar[b].sid < next
           /\ \A r \in Reqs : AtWork(r) => req[r].sid \in Nat /\ req[r].sid < next
           /\ \A r \in Reqs : Sets(r) =>
                req[r].set.sid \in Nat /\ req[r].set.sid < next /\ req[r].set.sid # 0
<1>1. next \in Nat /\ \A s \in DOMAIN sessions : s \in Nat /\ s < next /\ s # 0
    BY AccountsAssumption DEF TypeInv, TypeOK
<1>2. \A b \in Browsers : jar[b].sid \in Nat /\ jar[b].sid < next
    BY AccountsAssumption DEF TypeInv, TypeOK
<1>3. ASSUME NEW r \in Reqs, AtWork(r)
      PROVE  req[r].sid \in Nat /\ req[r].sid < next
    BY <1>3, InHandler, AccountsAssumption DEF AtWork, Handled, TypeInv, TypeOK
<1>4. ASSUME NEW r \in Reqs, Sets(r)
      PROVE  req[r].set.sid \in Nat /\ req[r].set.sid < next /\ req[r].set.sid # 0
    <2>1. req[r] \in Replied
        BY <1>4 DEF Sets, Idle, Handled, TypeInv, TypeOK
    <2>2. req[r].set.sid \in Sids
        BY <1>4, <2>1 DEF Sets, Replied, Cookies
    <2>3. QED
        BY <1>4, <2>1, <2>2, AccountsAssumption DEF Sets, Issued, TypeInv, Sids
<1>5. QED
    BY <1>1, <1>2, <1>3, <1>4

(* What a response leaves in the jar: the old session, none, or a new one.  *)
LEMMA JarAfter ==
    ASSUME TypeInv, NEW r \in Reqs, NEW b \in Browsers, req[r].step = "reply"
    PROVE  LET c == CookiesAfter(jar[b], req[r].set) IN
           \/ c.sid \in {0, jar[b].sid} /\ ~Sets(r)
           \/ /\ Sets(r)
              /\ c = [sid |-> req[r].set.sid, token |-> req[r].set.token]
<1>1. req[r] \in Replied
    BY DEF Idle, Handled, TypeInv, TypeOK
<1>2. req[r].set \in Cookies /\ jar[b] \in [sid : 0..MaxSessions, token : Tokens]
    BY <1>1 DEF Replied, TypeInv, TypeOK
<1>3. QED
    BY <1>2 DEF CookiesAfter, Cookies, Sets, Empty

(* The row of a session is as it was, or gone.                              *)
Kept(s) ==
    s \in DOMAIN sessions' =>
        s \in DOMAIN sessions /\ sessions'[s].k = sessions[s].k

LEMMA PairKept ==
    ASSUME NEW c, Kept(c.sid), Pair(c)
    PROVE  c.sid \in DOMAIN sessions' => c.token = Token(c.sid, sessions'[c.sid].k)
BY DEF Kept, Pair

(* A browser whose requests, cookies and row a step leaves alone.           *)
LEMMA OrderlyKept ==
    ASSUME TypeInv, NEW b \in Browsers, OrderlyAt(b),
           jar'[b] = jar[b], alone'[b] => alone[b], InFlight(b)' = InFlight(b),
           \A q \in InFlight(b) : req'[q] = req[q],
           Kept(0), Kept(jar[b].sid),
           \A q \in Reqs : Sets(q) => Kept(req[q].set.sid)
    PROVE  OrderlyAt(b)'
<1> SUFFICES ASSUME alone'[b] PROVE OrderlyAt(b)'
    BY DEF OrderlyAt
<1>1. Pair(jar[b]) => Pair(jar[b])'
    BY PairKept DEF Pair
<1>2. ASSUME NEW q \in InFlight(b), ~AtWork(q)
      PROVE  Pair(CookiesAfter(jar[b], req[q].set))'
    <2> DEFINE c == CookiesAfter(jar[b], req[q].set)
    <2>1. q \in Reqs /\ req[q].step = "reply"
        BY <1>2 DEF InFlight, AtWork
    <2>2. Kept(c.sid)
        <3>1. \/ c.sid \in {0, jar[b].sid}
              \/ Sets(q) /\ c = [sid |-> req[q].set.sid, token |-> req[q].set.token]
            BY <2>1, JarAfter
        <3> HIDE DEF c
        <3>2. c.sid \in {0, jar[b].sid} \/ (Sets(q) /\ c.sid = req[q].set.sid)
            BY <3>1
        <3>3. QED
            BY <2>1, <3>2
    <2>3. Pair(c)
        BY <1>2 DEF OrderlyAt
    <2>4. c' = c
        BY <1>2 DEF CookiesAfter
    <2> HIDE DEF c
    <2>5. QED
        BY <2>2, <2>3, <2>4, PairKept DEF Pair, c
<1>3. QED
    BY <1>1, <1>2 DEF OrderlyAt, AtWork

LEMMA FreshKept ==
    ASSUME TypeInv, NEW r \in Reqs, FreshAt(r), req'[r] = req[r],
           Sets(r) => Kept(req[r].set.sid),
           Sets(r) => \A b \in Browsers : jar'[b].sid # req[r].set.sid,
           Sets(r) => \A q \in Reqs : AtWork(q)' => req'[q].sid # req[r].set.sid,
           Sets(r) => \A q \in Reqs \ {r} : Sets(q)' => req'[q].set.sid # req[r].set.sid
    PROVE  FreshAt(r)'
BY DEF FreshAt, Sets, Kept

LEMMA HandlerFresh ==
    ASSUME TypeInv, CookieInv, NEW r \in Reqs, OnlyOwn(r),
           Quiet(r) \/ Opened(r) \/ Rotated(r), NEW q \in Reqs
    PROVE  FreshAt(q)'
<1>1. FreshAt(q) /\ FreshAt(r)
    BY DEF CookieInv
<1>2. Sets(r)' => Opened(r)
    BY CookiesKnown DEF Sets, Quiet, Rotated, AtWork
<1>3. CASE q = r
    <2>1. CASE Opened(r)
        BY <1>3, <2>1, Ids DEF FreshAt, Opened, OnlyOwn, AtWork, Sets
    <2>2. CASE ~Opened(r)
        BY <1>2, <1>3, <2>2 DEF FreshAt
    <2>3. QED
        BY <2>1, <2>2
<1>4. CASE q # r
    <2> DEFINE s == req[q].set.sid
    <2>1. req'[q] = req[q] /\ UNCHANGED jar
        BY <1>4 DEF OnlyOwn
    <2> SUFFICES ASSUME Sets(q) PROVE FreshAt(q)'
        BY <2>1 DEF FreshAt, Sets
    <2>2. s \in Nat /\ s < next /\ req[r].sid # s
        BY <1>1, Ids DEF FreshAt, OnlyOwn
    <2>3. Kept(s)
        BY <2>2, Ids DEF Kept, Quiet, RowsStay, Opened, Rotated
    <2>4. ASSUME NEW p \in Reqs, AtWork(p)' PROVE req'[p].sid # s
        BY <1>1, <2>2, <2>4 DEF FreshAt, OnlyOwn, Quiet, Opened, Rotated, AtWork
    <2>5. ASSUME NEW p \in Reqs \ {q}, Sets(p)' PROVE req'[p].set.sid # s
        <3>1. CASE p = r
            BY <1>2, <2>2, <2>5, <3>1, Ids DEF Opened
        <3>2. CASE p # r
            BY <1>1, <2>5, <3>2 DEF FreshAt, OnlyOwn, Sets
        <3>3. QED
            BY <3>1, <3>2
    <2>6. \A b \in Browsers : jar'[b].sid # s
        BY <1>1, <2>1 DEF FreshAt
    <2> HIDE DEF s
    <2>7. QED
        BY <1>1, <2>1, <2>3, <2>4, <2>5, <2>6, FreshKept DEF s
<1>5. QED
    BY <1>3, <1>4

LEMMA HandlerApart ==
    ASSUME TypeInv, CookieInv, NEW r \in Reqs, OnlyOwn(r),
           Quiet(r) \/ Opened(r) \/ Rotated(r), NEW b \in Browsers
    PROVE  ApartAt(b)'
<1>1. ApartAt(b)
    BY DEF CookieInv
<1>2. ASSUME NEW q \in Reqs, AtWork(q)'
      PROVE  AtWork(q) /\ req'[q].sid = req[q].sid /\ req'[q].browser = req[q].browser
    BY <1>2 DEF OnlyOwn, Quiet, Opened, Rotated, AtWork
<1>3. QED
    BY <1>1, <1>2 DEF ApartAt, OnlyOwn

LEMMA HandlerOrderly ==
    ASSUME TypeInv, CookieInv, NEW r \in Reqs, OnlyOwn(r),
           Quiet(r) \/ Opened(r) \/ Rotated(r), NEW b \in Browsers
    PROVE  OrderlyAt(b)'
<1>1. ApartAt(b) /\ OrderlyAt(b) /\ \A q \in Reqs : FreshAt(q)
    BY DEF CookieInv
<1>2. InFlight(b)' = InFlight(b) /\ UNCHANGED <<jar, alone>>
    BY DEF InFlight, OnlyOwn, Quiet, Opened, Rotated, AtWork
<1>3. Kept(0)
    BY Ids DEF Kept, Quiet, RowsStay, Opened, Rotated
<1>4. ASSUME NEW s \in Nat, s < next, Rotated(r) => s # req[r].sid
      PROVE  Kept(s)
    BY <1>4, Ids DEF Kept, Quiet, RowsStay, Opened, Rotated
<1>5. CASE r \notin InFlight(b)
    <2>1. req[r].browser # b
        BY <1>5 DEF InFlight, OnlyOwn, AtWork
    <2>2. Kept(jar[b].sid)
        BY <1>1, <1>3, <1>4, <2>1, Ids DEF ApartAt, OnlyOwn
    <2>3. \A q \in Reqs : Sets(q) => Kept(req[q].set.sid)
        BY <1>1, <1>4, Ids DEF FreshAt, OnlyOwn
    <2>4. \A q \in InFlight(b) : req'[q] = req[q]
        BY <1>5 DEF InFlight, OnlyOwn
    <2>5. QED
        BY <1>1, <1>2, <1>3, <2>2, <2>3, <2>4, OrderlyKept
<1>6. CASE r \in InFlight(b) /\ alone[b]
    <2>1. InFlight(b) = {r} /\ Pair(jar[b]) /\ req[r].sid \in {0, jar[b].sid}
        BY <1>1, <1>6 DEF OrderlyAt, OnlyOwn
    <2>2. CASE Quiet(r)
        <3>1. Kept(jar[b].sid)
            BY <2>2 DEF Kept, Quiet, RowsStay
        <3>2. Pair(jar[b])'
            BY <1>2, <2>1, <3>1, PairKept DEF Pair
        <3>3. Pair(Empty)'
            BY <2>2, Ids DEF Pair, Empty, Quiet, RowsStay
        <3>4. CASE AtWork(r)'
            BY <1>2, <2>1, <2>2, <3>2, <3>4 DEF OrderlyAt, Quiet, AtWork
        <3>5. CASE req'[r].step = "reply" /\ req'[r].set \in {Keep, Clear}
            <4>1. CookiesAfter(jar[b], req[r].set)' \in {jar[b], Empty}
                BY <1>2, <3>5 DEF CookiesAfter, Keep, Clear
            <4>2. Pair(CookiesAfter(jar[b], req[r].set))'
                BY <1>2, <3>2, <3>3, <4>1 DEF Pair
            <4>3. QED
                BY <1>2, <2>1, <3>5, <4>2 DEF OrderlyAt, AtWork
        <3>6. QED
            BY <2>2, <3>4, <3>5 DEF Quiet
    <2>3. CASE Opened(r)
        <3>1. CookiesAfter(jar[b], req[r].set)' = [sid |-> next, token |-> Token(next, 0)]
            BY <1>2, <2>3 DEF CookiesAfter, Opened
        <3>2. Pair(CookiesAfter(jar[b], req[r].set))'
            BY <2>3, <3>1 DEF Pair, Opened
        <3>3. QED
            BY <1>2, <2>1, <2>3, <3>2 DEF OrderlyAt, AtWork, Opened
    <2>4. CASE Rotated(r)
        <3> DEFINE t == Token(req[r].sid, sessions'[req[r].sid].k)
        <3>1. req[r].sid = jar[b].sid
            BY <2>1, <2>4, Ids DEF Rotated
        <3>2. jar[b] \in [sid : 0..MaxSessions, token : Tokens]
            BY DEF TypeInv, TypeOK
        <3>3. CookiesAfter(jar[b], req[r].set)' = [jar[b] EXCEPT !.token = t]
            BY <1>2, <2>4 DEF CookiesAfter, Rotated
        <3>4. [jar[b] EXCEPT !.token = t].sid = req[r].sid
              /\ [jar[b] EXCEPT !.token = t].token = t
            BY <3>1, <3>2
        <3>5. Pair(CookiesAfter(jar[b], req[r].set))'
            BY <3>3, <3>4 DEF Pair
        <3>6. QED
            BY <1>2, <2>1, <2>4, <3>5 DEF OrderlyAt, AtWork, Rotated
    <2>5. QED
        BY <2>2, <2>3, <2>4
<1>7. CASE ~alone[b]
    BY <1>2, <1>7 DEF OrderlyAt
<1>8. QED
    BY <1>5, <1>6, <1>7

(* What only takes rows away, or lets them expire.                          *)
LEMMA RowsCookies ==
    ASSUME TypeInv, CookieInv, RowsStay, UNCHANGED <<jar, req, alone>>
    PROVE  CookieInv'
<1>1. \A s : Kept(s)
    BY DEF Kept, RowsStay
<1>2. ASSUME NEW r \in Reqs PROVE FreshAt(r)'
    BY <1>1 DEF CookieInv, FreshAt, Sets, AtWork, Kept
<1>3. ASSUME NEW b \in Browsers PROVE ApartAt(b)' /\ OrderlyAt(b)'
    <2>1. ApartAt(b) /\ OrderlyAt(b) /\ InFlight(b)' = InFlight(b)
        BY DEF CookieInv, InFlight
    <2>2. OrderlyAt(b)'
        BY <1>1, <2>1, OrderlyKept DEF InFlight
    <2>3. QED
        BY <2>1, <2>2 DEF ApartAt, AtWork
<1>4. QED
    BY <1>2, <1>3 DEF CookieInv

LEMMA SendCookies ==
    ASSUME TypeInv, CookieInv, NEW r \in Reqs, NEW b \in Browsers, NEW k \in Kinds,
           NEW e \in Emails \cup {None}, Send(r, b, k, e)
    PROVE  CookieInv'
<1>1. /\ UNCHANGED <<sessions, next, jar>> /\ req[r].step = "idle"
      /\ \A q \in Reqs \ {r} : req'[q] = req[q]
      /\ req'[r].browser = b /\ AtWork(r)'
      /\ req'[r].sid \in {0, jar[b].sid}
    BY DEF Send, At, AtWork, Empty, TypeInv, TypeOK
<1>2. /\ \A c \in Browsers \ {b} : alone'[c] = alone[c]
      /\ alone'[b] => alone[b] /\ InFlight(b) = {}
    BY DEF Send, TypeInv, TypeOK
<1>3. \A s : Kept(s)
    BY <1>1 DEF Kept
<1>4. ASSUME NEW q \in Reqs PROVE FreshAt(q)'
    <2>1. CASE q = r
        BY <1>1, <2>1 DEF FreshAt, Sets, AtWork
    <2>2. CASE q # r
        BY <1>1, <2>2, Ids DEF CookieInv, FreshAt, Sets, AtWork
    <2>3. QED
        BY <2>1, <2>2
<1>5. ASSUME NEW c \in Browsers PROVE ApartAt(c)'
    BY <1>1 DEF CookieInv, ApartAt, AtWork
<1>6. ASSUME NEW c \in Browsers PROVE OrderlyAt(c)'
    <2>1. CASE c # b
        <3>1. InFlight(c)' = InFlight(c) /\ r \notin InFlight(c)
            BY <1>1, <2>1 DEF InFlight, AtWork
        <3>2. QED
            BY <1>1, <1>2, <1>3, <2>1, <3>1, OrderlyKept DEF CookieInv, InFlight
    <2>2. CASE c = b /\ alone'[b]
        <3>1. InFlight(b)' = {r}
            BY <1>1, <1>2, <2>2 DEF InFlight, AtWork
        <3>2. Pair(jar[b])'
            BY <1>1, <1>2, <2>2 DEF CookieInv, OrderlyAt, Pair
        <3>3. QED
            BY <1>1, <2>2, <3>1, <3>2 DEF OrderlyAt
    <2>3. CASE c = b /\ ~alone'[b]
        BY <2>3 DEF OrderlyAt
    <2>4. QED
        BY <2>1, <2>2, <2>3
<1>7. QED
    BY <1>4, <1>5, <1>6 DEF CookieInv

(* A response that arrives: the new pair is whole, and known to one browser. *)
LEMMA ReplyCookies ==
    ASSUME TypeInv, CookieInv, NEW r \in Reqs, Reply(r)
    PROVE  CookieInv'
<1>1. /\ UNCHANGED <<sessions, next>> /\ req[r].step = "reply"
      /\ \A q \in Reqs \ {r} : req'[q] = req[q]
      /\ req'[r].step = "idle"
    BY DEF Reply, At, Idle, TypeInv, TypeOK
<1>2. PICK b \in Browsers : b = req[r].browser
    BY <1>1 DEF Idle, Handled, Replied, TypeInv, TypeOK
<1> DEFINE j == CookiesAfter(jar[b], req[r].set)
<1>3. /\ jar'[b] = j /\ \A c \in Browsers \ {b} : jar'[c] = jar[c]
      /\ \A c \in Browsers \ {b} : alone'[c] = alone[c]
      /\ alone'[b] => alone[b] \/ (Sets(r) /\ InFlight(b) = {r})
    BY <1>1, <1>2 DEF Reply, Sets, TypeInv, TypeOK
<1>4. \/ j.sid \in {0, jar[b].sid} /\ ~Sets(r)
      \/ Sets(r) /\ j = [sid |-> req[r].set.sid, token |-> req[r].set.token]
    BY <1>1, <1>2, JarAfter
<1> HIDE DEF j
<1>5. \/ j.sid \in {0, jar[b].sid}
      \/ Sets(r) /\ j.sid = req[r].set.sid
    BY <1>4
<1>6. FreshAt(r) /\ ApartAt(b) /\ OrderlyAt(b)
    BY <1>2 DEF CookieInv
<1>7. \A s : Kept(s)
    BY <1>1 DEF Kept
<1>8. ASSUME NEW q \in Reqs PROVE FreshAt(q)'
    <2>1. CASE q = r
        BY <1>1, <2>1 DEF FreshAt, Sets
    <2>2. CASE q # r
        <3>1. FreshAt(q) /\ req'[q] = req[q]
            BY <1>1, <2>2 DEF CookieInv
        <3>2. Sets(q) => \A c \in Browsers : jar'[c].sid # req[q].set.sid
            BY <1>2, <1>3, <1>5, <1>6, <2>2, <3>1, Ids DEF FreshAt
        <3>3. Sets(q) => \A p \in Reqs : AtWork(p)' => req'[p].sid # req[q].set.sid
            BY <1>1, <3>1 DEF FreshAt, AtWork
        <3>4. Sets(q) => \A p \in Reqs \ {q} : Sets(p)' => req'[p].set.sid # req[q].set.sid
            BY <1>1, <3>1 DEF FreshAt, Sets
        <3>5. QED
            BY <1>7, <3>1, <3>2, <3>3, <3>4, FreshKept
    <2>3. QED
        BY <2>1, <2>2
<1>9. ASSUME NEW c \in Browsers PROVE ApartAt(c)'
    <2>1. ApartAt(c)
        BY DEF CookieInv
    <2>2. ASSUME NEW q \in Reqs, AtWork(q)' PROVE AtWork(q) /\ req'[q] = req[q]
        BY <1>1, <2>2 DEF AtWork
    <2>3. CASE c = b
        BY <1>3, <1>5, <1>6, <2>2, <2>3 DEF ApartAt, FreshAt
    <2>4. CASE c # b
        BY <1>2, <1>3, <1>5, <1>6, <2>1, <2>2, <2>4 DEF ApartAt, FreshAt
    <2>5. QED
        BY <2>3, <2>4
<1>10. ASSUME NEW c \in Browsers PROVE OrderlyAt(c)'
    <2>1. CASE c # b
        <3>1. InFlight(c)' = InFlight(c) /\ r \notin InFlight(c)
            BY <1>1, <1>2, <2>1 DEF InFlight
        <3>2. QED
            BY <1>1, <1>3, <1>7, <2>1, <3>1, OrderlyKept DEF CookieInv, InFlight
    <2>2. CASE c = b /\ alone'[b]
        <3>1. r \in InFlight(b)
            BY <1>1, <1>2 DEF InFlight
        <3>2. InFlight(b) = {r} /\ Pair(j)
            <4>1. CASE alone[b]
                <5>1. InFlight(b) = {r} /\ ~AtWork(r)
                    BY <1>1, <1>6, <3>1, <4>1 DEF OrderlyAt, AtWork
                <5>2. Pair(CookiesAfter(jar[b], req[r].set))
                    BY <1>6, <3>1, <4>1, <5>1 DEF OrderlyAt
                <5>3. QED
                    BY <5>1, <5>2 DEF j
            <4>2. CASE Sets(r) /\ InFlight(b) = {r}
                <5>1. j.sid = req[r].set.sid /\ j.token = req[r].set.token
                    BY <1>4, <4>2
                <5>2. QED
                    BY <1>6, <4>2, <5>1 DEF FreshAt, Pair
            <4>3. QED
                BY <1>3, <2>2, <4>1, <4>2
        <3>3. InFlight(b)' = {}
            BY <1>1, <1>3, <3>2 DEF InFlight
        <3>4. QED
            BY <1>1, <1>3, <2>2, <3>2, <3>3 DEF OrderlyAt, Pair
    <2>3. CASE c = b /\ ~alone'[b]
        BY <2>3 DEF OrderlyAt
    <2>4. QED
        BY <2>1, <2>2, <2>3
<1>11. QED
    BY <1>8, <1>9, <1>10 DEF CookieInv

(* Responses that are lost, one or all of them.                             *)
LEMMA LostCookies ==
    ASSUME TypeInv, CookieInv, Crash \/ \E r \in Reqs : LoseReply(r)
    PROVE  CookieInv'
<1>1. /\ UNCHANGED <<sessions, next, jar>>
      /\ \A q \in Reqs : req'[q] = req[q] \/ req'[q].step = "idle"
    BY DEF Crash, LoseReply, Idle, TypeInv, TypeOK
<1>2. \A s : Kept(s)
    BY <1>1 DEF Kept
<1>3. ASSUME NEW q \in Reqs PROVE FreshAt(q)'
    BY <1>1 DEF CookieInv, FreshAt, Sets, AtWork
<1>4. ASSUME NEW b \in Browsers PROVE ApartAt(b)'
    BY <1>1 DEF CookieInv, ApartAt, AtWork
<1>5. ASSUME NEW b \in Browsers, alone'[b]
      PROVE  alone[b] /\ InFlight(b)' = InFlight(b)
             /\ \A q \in InFlight(b) : req'[q] = req[q]
    <2>1. CASE Crash
        <3>1. alone[b] /\ InFlight(b) = {} /\ \A q \in Reqs : req'[q].step = "idle"
            BY <1>5, <2>1 DEF Crash, Idle, TypeInv, TypeOK
        <3>2. QED
            BY <3>1 DEF InFlight
    <2>2. ASSUME NEW r \in Reqs, LoseReply(r)
          PROVE  alone[b] /\ InFlight(b)' = InFlight(b)
                 /\ \A q \in InFlight(b) : req'[q] = req[q]
        <3>1. /\ req[r].step = "reply" /\ req'[r].step = "idle" /\ req[r].browser # b
              /\ alone[b] /\ \A q \in Reqs \ {r} : req'[q] = req[q]
            BY <1>5, <2>2 DEF LoseReply, At, Idle, TypeInv, TypeOK
        <3>2. QED
            BY <3>1 DEF InFlight
    <2>3. QED
        BY <2>1, <2>2
<1>6. ASSUME NEW b \in Browsers PROVE OrderlyAt(b)'
    <2>1. CASE alone'[b]
        BY <1>1, <1>2, <1>5, <2>1, OrderlyKept DEF CookieInv
    <2>2. CASE ~alone'[b]
        BY <2>2 DEF OrderlyAt
    <2>3. QED
        BY <2>1, <2>2
<1>7. QED
    BY <1>3, <1>4, <1>6 DEF CookieInv

(* A browser that has one request at a time and gets its responses holds    *)
(* the token of its row, however many other browsers there are, and         *)
(* although changing the password rotates the token before the response is  *)
(* sent.                                                                    *)
THEOREM CookiesMatch == Spec => []CookiePair
<1>1. Init => CookieInv
    BY DEF Init, Idle, Empty, CookieInv, FreshAt, ApartAt, OrderlyAt, Sets, AtWork,
           InFlight, Pair
<1>2. TypeInv /\ CookieInv /\ [Next]_vars => CookieInv'
    <2> SUFFICES ASSUME TypeInv, CookieInv, [Next]_vars PROVE CookieInv'
        OBVIOUS
    <2>1. ASSUME NEW r \in Reqs, NEW b \in Browsers, NEW k \in Kinds,
                 NEW e \in IF k \in {"login", "register", "email"} THEN Emails ELSE {None},
                 Send(r, b, k, e)
          PROVE  CookieInv'
        BY <2>1, SendCookies
    <2>2. ASSUME NEW r \in Reqs, HandlerStep(r)
          PROVE  CookieInv'
        BY <2>2, HandlerEffect, HandlerFresh, HandlerApart, HandlerOrderly
           DEF CookieInv
    <2>3. ASSUME NEW r \in Reqs, Reply(r)
          PROVE  CookieInv'
        BY <2>3, ReplyCookies
    <2>4. ASSUME NEW s \in Sids, Expires(s) \/ TtlMonitor(s)
          PROVE  CookieInv'
        <3>1. UNCHANGED <<next, jar, req, alone>>
            BY <2>4 DEF Expires, TtlMonitor
        <3>2. RowsStay
            BY <2>4, <3>1, RowsThatStay DEF Expires, TtlMonitor, Usable
        <3>3. QED
            BY <3>1, <3>2, RowsCookies
    <2>5. CASE EnsureIndexes \/ UNCHANGED vars
        BY <2>5, RowsCookies DEF EnsureIndexes, vars, RowsStay
    <2>6. QED
        BY <2>1, <2>2, <2>3, <2>4, <2>5, LostCookies DEF Next
<1>3. CookieInv => CookiePair
    BY DEF CookieInv, OrderlyAt, CookiePair, Pair
<1>4. QED
    BY <1>1, <1>2, <1>3, InitType, NextType, PTL DEF Spec
=============================================================================
