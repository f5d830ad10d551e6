------------------------------ MODULE Accounts ------------------------------
(***************************************************************************)
(* Accounts, sessions and CSRF tokens of the frontend server.  A request    *)
(* is a handler cut at its awaits, so the requests of several tabs and      *)
(* browsers interleave on the collections users and sessions, and their     *)
(* responses reach a browser's cookie jar in any order or not at all.       *)
(* Passwords are not kept: a comparison may succeed or fail.  Time is       *)
(* whether a session row has expired; whether it was last seen long enough  *)
(* ago to be touched is a choice.                                           *)
(***************************************************************************)
EXTENDS Naturals, FiniteSets

CONSTANTS Users, Emails, Browsers, Reqs,
          None,          \* no user, no e-mail
          MaxSessions,   \* bound: session rows ever inserted
          MaxRotations   \* bound: CSRF rotations of one row

Sids == 1..MaxSessions

ASSUME AccountsAssumption ==
    /\ None \notin Users \cup Emails
    /\ MaxSessions \in Nat
    /\ MaxRotations \in Nat

VARIABLES
    users,     \* e-mail of each user document, None when there is none
    gone,      \* history: the users whose document was deleted
    indexed,   \* whether email_unique exists
    sessions,  \* session rows by id
    next,      \* the id of the next session row
    jar,       \* each browser's cookies: session id (0: none), CSRF token
    req,       \* the request in each slot
    alone      \* history: the browser's requests never overlapped nor got
               \* lost since its last login

vars == <<users, gone, indexed, sessions, next, jar, req, alone>>

\* A CSRF token is random: the row it was drawn for and the rotation.
NoToken == <<0, 0>>
Token(s, k) == <<s, k>>
Empty == [sid |-> 0, token |-> NoToken]

Mutating == {"logout", "logoutAll", "password", "email", "delete"}
Kinds == Mutating \cup {"whoami", "login", "register"}
Steps == {"idle", "csrf", "load", "touch", "user", "act", "write",
          "find", "insert", "open", "reply"}
Idle == [kind |-> "whoami", step |-> "idle"]

Row == [user : Users, k : 0..MaxRotations, expired : BOOLEAN]
Tokens == (0..MaxSessions) \X (0..MaxRotations)

\* What a response does to the cookies, a request in its handler, a response.
Cookies == [type : {"keep", "clear"}] \cup [type : {"token"}, token : Tokens]
             \cup [type : {"both"}, sid : Sids, token : Tokens]
Handled == [kind : Kinds, browser : Browsers, email : Emails \cup {None},
            user : Users \cup {None}, sid : 0..MaxSessions, token : Tokens,
            checked : BOOLEAN, step : Steps \ {"idle", "reply"}]
Replied == [kind : {"whoami"}, step : {"reply"}, browser : Browsers, set : Cookies]

TypeOK ==
    /\ users \in [Users -> Emails \cup {None}]
    /\ gone \subseteq Users
    /\ indexed \in BOOLEAN
    /\ next \in 1..(MaxSessions + 1)
    /\ DOMAIN sessions \subseteq 1..(next - 1)
    /\ sessions \in [DOMAIN sessions -> Row]
    /\ jar \in [Browsers -> [sid : 0..MaxSessions, token : Tokens]]
    /\ \A b \in Browsers : jar[b].sid < next
    /\ req \in [Reqs -> {Idle} \cup Handled \cup Replied]
    /\ \A r \in Reqs : req[r] \in Handled => req[r].sid < next
    /\ alone \in [Browsers -> BOOLEAN]

Init ==
    /\ users = [u \in Users |-> None]
    /\ gone = {}
    /\ indexed = FALSE
    /\ sessions = [s \in {} |-> Idle]
    /\ next = 1
    /\ jar = [b \in Browsers |-> Empty]
    /\ req = [r \in Reqs |-> Idle]
    /\ alone = [b \in Browsers |-> TRUE]

-----------------------------------------------------------------------------
Without(S) == [s \in DOMAIN sessions \ S |-> sessions[s]]
OfUser(u) == {s \in DOMAIN sessions : sessions[s].user = u}
InFlight(b) == {r \in Reqs : req[r].step # "idle" /\ req[r].browser = b}

At(r, step) == req[r].step = step
Goto(r, step) == req' = [req EXCEPT ![r].step = step]
\* The response and what it does to the cookies.
Answer(r, cookies) ==
    req' = [req EXCEPT ![r] = [kind |-> "whoami", step |-> "reply",
                               browser |-> req[r].browser, set |-> cookies]]
Keep == [type |-> "keep"]
Clear == [type |-> "clear"]

\* loadSession: the row under a cookie, unless it expired; an expired row is
\* deleted by whoever finds it.
Usable(s) == s \in DOMAIN sessions /\ ~sessions[s].expired
LoadFails(s) == ~Usable(s) /\ sessions' = Without({s})
\* Mutant: touchSession upserts.
TouchedOrPut(s) == [x \in DOMAIN sessions \cup {s} |->
    IF x = s THEN [user |-> CHOOSE u \in Users : TRUE, k |-> 0, expired |-> FALSE]
    ELSE sessions[x]]

\* touchSession is an update by id, never an upsert.
Touched(s) == IF s \in DOMAIN sessions
              THEN [sessions EXCEPT ![s].expired = FALSE] ELSE sessions
TokenMatches(r) ==
    req[r].token = Token(req[r].sid, sessions[req[r].sid].k)
\* Mutant: the look-up before the write is all there is.
NeverRefused(u, e) == FALSE

\* The unique index refuses a second document with the e-mail.
Refused(u, e) == indexed /\ \E v \in Users \ {u} : users[v] = e

-----------------------------------------------------------------------------
\* A page sends a request with the cookies, and the token header, of its jar;
\* login and register read neither.
Send(r, b, k, e) ==
    LET c == IF k \in {"login", "register"} THEN Empty ELSE jar[b] IN
    /\ At(r, "idle")
    /\ req' = [req EXCEPT ![r] =
         [kind |-> k, browser |-> b, email |-> e, user |-> None,
          sid |-> c.sid, token |-> c.token, checked |-> FALSE,
          step |-> IF k \in Mutating THEN "csrf"
                   ELSE IF k = "whoami" THEN "load" ELSE "find"]]
    /\ alone' = [alone EXCEPT ![b] = @ /\ InFlight(b) = {}]
    /\ UNCHANGED <<users, gone, indexed, sessions, next, jar>>

\* The handler does not look at the token again.
Pass(r, step, ok) ==
    req' = [req EXCEPT ![r].step = step, ![r].checked = ok, ![r].token = NoToken]

\* The middleware compares the header with the row's token; a request without
\* a usable session goes on to its handler unchecked.
Csrf(r) ==
    LET go == IF req[r].kind = "logout" THEN "act" ELSE "load" IN
    /\ At(r, "csrf")
    /\ \/ LoadFails(req[r].sid) /\ Pass(r, go, FALSE)
       \/ /\ Usable(req[r].sid)
          /\ IF TokenMatches(r) THEN Pass(r, go, TRUE) ELSE Answer(r, Keep)
          /\ UNCHANGED sessions
    /\ UNCHANGED <<users, gone, indexed, next, jar, alone>>

\* getUserSession up to the row it found.
Load(r) ==
    LET s == req[r].sid IN
    /\ At(r, "load")
    /\ \/ LoadFails(s) /\ Answer(r, IF s = 0 THEN Keep ELSE Clear)
       \/ /\ Usable(s)
          /\ \E step \in {"touch", "user"} :
               req' = [req EXCEPT ![r].user = sessions[s].user, ![r].step = step]
          /\ UNCHANGED sessions
    /\ UNCHANGED <<users, gone, indexed, next, jar, alone>>

Touch(r) ==
    /\ At(r, "touch")
    /\ sessions' = Touched(req[r].sid)
    /\ Goto(r, "user")
    /\ UNCHANGED <<users, gone, indexed, next, jar, alone>>

\* loadUserSession, and requireUser's own read of the document: without one
\* the session is deleted and the cookies are cleared.  A user.patch that
\* changes nothing is answered here.
LoadUser(r) ==
    /\ At(r, "user")
    /\ IF users[req[r].user] = None
       THEN sessions' = Without({req[r].sid}) /\ Answer(r, Clear)
       ELSE /\ UNCHANGED sessions
            /\ IF \/ req[r].kind = "whoami"
                  \/ req[r].kind = "email" /\ users[req[r].user] = req[r].email
               THEN Answer(r, Keep) ELSE Goto(r, "act")
    /\ UNCHANGED <<users, gone, indexed, next, jar, alone>>

Logout(r) ==
    /\ At(r, "act") /\ req[r].kind = "logout"
    /\ sessions' = Without({req[r].sid})
    /\ Answer(r, Clear)
    /\ UNCHANGED <<users, gone, indexed, next, jar, alone>>

LogoutEverywhere(r) ==
    /\ At(r, "act") /\ req[r].kind = "logoutAll"
    /\ sessions' = Without(OfUser(req[r].user) \cup {req[r].sid})
    /\ Answer(r, Clear)
    /\ UNCHANGED <<users, gone, indexed, next, jar, alone>>

\* The current password is compared and the new one written, then the token
\* of the session is rotated; a session deleted meanwhile gets no token.
ChangePassword(r) ==
    /\ At(r, "act") /\ req[r].kind = "password"
    /\ Answer(r, Keep) \/ Goto(r, "write")
    /\ UNCHANGED <<users, gone, indexed, sessions, next, jar, alone>>

RotateToken(r) ==
    LET s == req[r].sid IN
    /\ At(r, "write") /\ req[r].kind = "password"
    /\ IF s \in DOMAIN sessions
       THEN /\ sessions[s].k < MaxRotations
            /\ sessions' = [sessions EXCEPT ![s].k = @ + 1]
            /\ Answer(r, [type |-> "token", token |-> Token(s, sessions[s].k + 1)])
       ELSE UNCHANGED sessions /\ Answer(r, Keep)
    /\ UNCHANGED <<users, gone, indexed, next, jar, alone>>

\* The new e-mail is looked up among the others, then written.
CheckEmail(r) ==
    /\ At(r, "act") /\ req[r].kind = "email"
    /\ IF \E v \in Users \ {req[r].user} : users[v] = req[r].email
       THEN Answer(r, Keep) ELSE Goto(r, "write")
    /\ UNCHANGED <<users, gone, indexed, sessions, next, jar, alone>>

\* Mutant: the update is an upsert.
EmailUpserted(u, e) == [users EXCEPT ![u] = e]

WithEmail(u, e) == IF users[u] = None THEN users ELSE [users EXCEPT ![u] = e]

WriteEmail(r) ==
    /\ At(r, "write") /\ req[r].kind = "email"
    /\ users' = IF Refused(req[r].user, req[r].email) THEN users
                ELSE WithEmail(req[r].user, req[r].email)
    /\ Answer(r, Keep)
    /\ UNCHANGED <<gone, indexed, sessions, next, jar, alone>>

DeleteUser(r) ==
    /\ At(r, "act") /\ req[r].kind = "delete"
    /\ users' = [users EXCEPT ![req[r].user] = None]
    /\ gone' = gone \cup {req[r].user}
    /\ Goto(r, "write")
    /\ UNCHANGED <<indexed, sessions, next, jar, alone>>

DeleteUserSessions(r) ==
    /\ At(r, "write") /\ req[r].kind = "delete"
    /\ sessions' = Without(OfUser(req[r].user) \cup {req[r].sid})
    /\ Answer(r, Clear)
    /\ UNCHANGED <<users, gone, indexed, next, jar, alone>>

\* login.post reads the document and compares; a wrong password is a 401.
Login(r) ==
    /\ At(r, "find") /\ req[r].kind = "login"
    /\ \/ Answer(r, Keep)
       \/ \E u \in Users :
            /\ users[u] = req[r].email
            /\ req' = [req EXCEPT ![r].user = u, ![r].step = "open"]
    /\ UNCHANGED <<users, gone, indexed, sessions, next, jar, alone>>

\* register.post looks the e-mail up, hashes, then inserts.
Register(r) ==
    /\ At(r, "find") /\ req[r].kind = "register"
    /\ IF \E u \in Users : users[u] = req[r].email
       THEN Answer(r, Keep) ELSE Goto(r, "insert")
    /\ UNCHANGED <<users, gone, indexed, sessions, next, jar, alone>>

InsertUser(r) ==
    /\ At(r, "insert")
    /\ \E u \in Users \ gone :
        /\ users[u] = None
        /\ IF Refused(u, req[r].email)
           THEN UNCHANGED users /\ Answer(r, Keep)
           ELSE /\ users' = [users EXCEPT ![u] = req[r].email]
                /\ req' = [req EXCEPT ![r].user = u, ![r].step = "open"]
    /\ UNCHANGED <<gone, indexed, sessions, next, jar, alone>>

\* Mutant: the row names no user.
RowOfNobody(u) == [user |-> None, k |-> 0, expired |-> FALSE]

\* setUserSession: one row, and both cookies in the response.
NewRow(u) == [user |-> u, k |-> 0, expired |-> FALSE]

OpenSession(r) ==
    /\ At(r, "open")
    /\ next <= MaxSessions
    /\ sessions' = [s \in DOMAIN sessions \cup {next} |->
                     IF s = next THEN NewRow(req[r].user) ELSE sessions[s]]
    /\ next' = next + 1
    /\ Answer(r, [type |-> "both", sid |-> next, token |-> Token(next, 0)])
    /\ UNCHANGED <<users, gone, indexed, jar, alone>>

\* Mutant: rotateCsrfToken sets no cookie.
CookiesOfSession(old, set) ==
    IF set.type = "both" THEN [sid |-> set.sid, token |-> set.token]
    ELSE IF set.type = "clear" THEN Empty ELSE old

CookiesAfter(old, set) ==
    CASE set.type = "keep"  -> old
      [] set.type = "clear" -> Empty
      [] set.type = "token" -> [old EXCEPT !.token = set.token]
      [] set.type = "both"  -> [sid |-> set.sid, token |-> set.token]

Reply(r) ==
    LET b == req[r].browser IN
    /\ At(r, "reply")
    /\ jar' = [jar EXCEPT ![b] = CookiesAfter(@, req[r].set)]
    /\ alone' = [alone EXCEPT ![b] =
                  @ \/ (req[r].set.type = "both" /\ InFlight(b) = {r})]
    /\ req' = [req EXCEPT ![r] = Idle]
    /\ UNCHANGED <<users, gone, indexed, sessions, next>>

\* The page is closed, or the connection drops, before the response arrives.
LoseReply(r) ==
    /\ At(r, "reply")
    /\ alone' = [alone EXCEPT ![req[r].browser] = FALSE]
    /\ req' = [req EXCEPT ![r] = Idle]
    /\ UNCHANGED <<users, gone, indexed, sessions, next, jar>>

\* A restart of the server drops every request between two of its steps.
Crash ==
    /\ req' = [r \in Reqs |-> Idle]
    /\ alone' = [b \in Browsers |-> alone[b] /\ InFlight(b) = {}]
    /\ UNCHANGED <<users, gone, indexed, sessions, next, jar>>

\* The indexes plugin, which requests do not wait for: createIndexes fails
\* when the documents already break the index.
EnsureIndexes ==
    /\ ~indexed
    /\ \A u, v \in Users : u # v /\ users[u] # None => users[u] # users[v]
    /\ indexed' = TRUE
    /\ UNCHANGED <<users, gone, sessions, next, jar, req, alone>>

Expires(s) ==
    /\ Usable(s)
    /\ sessions' = [sessions EXCEPT ![s].expired = TRUE]
    /\ UNCHANGED <<users, gone, indexed, next, jar, req, alone>>

\* MongoDB's TTL monitor behind expires_at_ttl.
TtlMonitor(s) ==
    /\ indexed
    /\ s \in DOMAIN sessions /\ sessions[s].expired
    /\ sessions' = Without({s})
    /\ UNCHANGED <<users, gone, indexed, next, jar, req, alone>>

HandlerStep(r) ==
    \/ Csrf(r) \/ Load(r) \/ Touch(r) \/ LoadUser(r)
    \/ Logout(r) \/ LogoutEverywhere(r) \/ ChangePassword(r) \/ RotateToken(r)
    \/ CheckEmail(r) \/ WriteEmail(r) \/ DeleteUser(r) \/ DeleteUserSessions(r)
    \/ Login(r) \/ Register(r) \/ InsertUser(r) \/ OpenSession(r)

Next ==
    \/ \E r \in Reqs, b \in Browsers, k \in Kinds :
         \E e \in IF k \in {"login", "register", "email"} THEN Emails ELSE {None} :
            Send(r, b, k, e)
    \/ \E r \in Reqs : HandlerStep(r)
    \/ \E r \in Reqs : Reply(r)
    \/ \E r \in Reqs : LoseReply(r)
    \/ \E s \in Sids : Expires(s)
    \/ \E s \in Sids : TtlMonitor(s)
    \/ Crash
    \/ EnsureIndexes

Spec == Init /\ [][Next]_vars

-----------------------------------------------------------------------------
\* Once email_unique exists no two documents share an e-mail, although both
\* register.post and user.patch look the e-mail up long before they write it.
EmailsUnique ==
    indexed => \A u, v \in Users :
                 u # v /\ users[u] # None => users[u] # users[v]

\* A handler that changes an account or its sessions runs for a request whose
\* token was compared with its session's, although the middleware waves every
\* request through that has no usable session at that moment.
ActsWithToken ==
    \A r \in Reqs :
        /\ req[r].kind \in Mutating \ {"logout"}
        /\ req[r].step \in {"act", "write"}
        => req[r].checked

\* A browser that has one request at a time, and gets its responses, holds the
\* token its session row holds: its next change is not refused with a 403.
CookiePair ==
    \A b \in Browsers :
        alone[b] /\ InFlight(b) = {} /\ jar[b].sid \in DOMAIN sessions
        => jar[b].token = Token(jar[b].sid, sessions[jar[b].sid].k)

\* A session that was logged out, revoked or expired away never comes back,
\* whatever requests had read its row before.
RevokedStaysRevoked ==
    [][\A s \in 1..(next - 1) :
         s \notin DOMAIN sessions => s \notin DOMAIN sessions']_vars

\* A deleted account is not written back by requests, of this or another
\* session, that were past their reads when it was deleted.
GoneUsersStayGone ==
    [][\A u \in gone : u \in gone' /\ users'[u] = None]_vars
=============================================================================
