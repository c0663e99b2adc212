---------------------------- MODULE AuthSessions ----------------------------
(***************************************************************************)
(* AuthService and UsersService: accounts, refresh tokens and password     *)
(* reset. No handler uses a transaction. Each reads the user's row, decides *)
(* on what it read, and sends its UPDATEs one at a time, so the requests   *)
(* about one user interleave between any two statements.                   *)
(*                                                                         *)
(* Secrets: the refresh token that request r issues, the reset token that  *)
(* r mails and the password that r sets are each named r. A column with a  *)
(* hash holds the name of what was hashed: bcrypt and SHA-256 keep them    *)
(* apart (the JWT is digested first because bcrypt reads only 72 bytes),   *)
(* every JWT has its jti, every reset token its random bytes.              *)
(***************************************************************************)
EXTENDS Naturals

CONSTANTS
    Request,        \* the HTTP requests of a behaviour, each sent once
    User,           \* users, by e-mail address; nothing deletes one
    ResetTtl,       \* resetTokenExpiryMinutes, in ticks
    MaxClock,       \* bound on the clock
    None,           \* SQL NULL
    Faults          \* which of "database" and "redis" may fail

ASSUME NoneAssumption == None \notin Request /\ None \notin User
ASSUME ClockAssumption == ResetTtl \in Nat /\ MaxClock \in Nat
ASSUME NoneIsNoTime == \A t \in 0..(MaxClock + ResetTtl) : t # None
ASSUME FaultsAssumption == Faults \subseteq {"database", "redis"}

Type == {"none", "register", "login", "refresh", "logout", "forgot", "reset"}

\* What a request asks: whose row it names, and the password or token it shows.
Call == [type : Type, user : User \cup {None}, secret : Request \cup {None}]
NoCall == [type |-> "none", user |-> None, secret |-> None]

Pc == {"idle", "find", "insert", "store", "clear", "saveReset", "mail",
       "expired", "password", "clearReset", "done"}

\* 201, 200, 400, 401, 403, 409, 500
Status == {"none", "created", "ok", "badRequest", "unauthorized", "forbidden", "conflict", "error"}

Time == 0..(MaxClock + ResetTtl)

VARIABLES
    registered,             \* the users with a row in table users, and
    passwordHash,           \*   the columns of their rows
    refreshTokenHash,
    resetTokenHash,
    resetTokenExpiresAt,
    clock,
    pc, call, status,
    user,                   \* the row a handler found and goes on with
    expiresAt,              \* the expiry forgotPassword computed
    mailed,                 \* forgot requests whose mail job is queued
    seen                    \* history: who had finished when a request came

columns == <<passwordHash, refreshTokenHash, resetTokenHash, resetTokenExpiresAt>>
users == <<registered, columns>>
handlers == <<pc, call, status, user, expiresAt, mailed, seen>>
vars == <<users, clock, handlers>>

Init ==
    /\ registered = {}
    /\ passwordHash = [u \in User |-> None]
    /\ refreshTokenHash = [u \in User |-> None]
    /\ resetTokenHash = [u \in User |-> None]
    /\ resetTokenExpiresAt = [u \in User |-> None]
    /\ clock = 0
    /\ pc = [r \in Request |-> "idle"]
    /\ call = [r \in Request |-> NoCall]
    /\ status = [r \in Request |-> "none"]
    /\ user = [r \in Request |-> None]
    /\ expiresAt = [r \in Request |-> None]
    /\ mailed = {}
    /\ seen = [r \in Request |-> {}]

-----------------------------------------------------------------------------
(* What clients can send.                                                  *)

Is(r, type) == call[r].type = type
Succeeded(r) == status[r] \in {"created", "ok"}

\* Token pairs in the hands of clients. The access token of a pair keeps
\* opening logout whatever becomes of the refresh token.
Issued == {r \in Request : call[r].type \in {"register", "login", "refresh"} /\ Succeeded(r)}

\* Passwords somebody may try: those ever chosen, and r for a wrong one.
Chosen(r) == {s \in Request : call[s].type \in {"register", "reset"}} \cup {r}

Asks(type, u, secret) == [type |-> type, user |-> u, secret |-> secret]

Calls(r) ==
    {Asks("register", u, r) : u \in User}
        \cup {Asks("login", u, p) : u \in User, p \in Chosen(r)}
        \cup {Asks("refresh", call[t].user, t) : t \in Issued}
        \cup {Asks("logout", call[t].user, None) : t \in Issued}
        \cup {Asks("forgot", u, None) : u \in User}
        \cup {Asks("reset", None, t) : t \in mailed}

Receive(r) ==
    /\ pc[r] = "idle"
    /\ \E c \in Calls(r) :
         /\ call' = [call EXCEPT ![r] = c]
         /\ user' = [user EXCEPT ![r] = c.user]
         /\ pc' = [pc EXCEPT ![r] = IF c.type = "logout" THEN "clear" ELSE "find"]
    /\ seen' = [seen EXCEPT ![r] = {s \in Request : pc[s] = "done"}]
    /\ UNCHANGED <<users, clock, status, expiresAt, mailed>>

-----------------------------------------------------------------------------
(* UsersService: the statements, each atomic by itself.                    *)

insertUser(u, p) ==
    /\ registered' = registered \cup {u}
    /\ passwordHash' = [passwordHash EXCEPT ![u] = p]
    /\ UNCHANGED <<refreshTokenHash, resetTokenHash, resetTokenExpiresAt>>

updateRefreshTokenHash(u, t) ==
    /\ refreshTokenHash' = [refreshTokenHash EXCEPT ![u] = t]
    /\ UNCHANGED <<registered, passwordHash, resetTokenHash, resetTokenExpiresAt>>

\* Fault variant: undefined instead of null, which TypeORM leaves out.
clearRefreshToken_Undefined(u) == UNCHANGED users

clearRefreshToken(u) == updateRefreshTokenHash(u, None)

\* Fault variant: the expiry is left out when it is null.
updateResetToken_KeepsExpiry(u, t, expires) ==
    /\ resetTokenHash' = [resetTokenHash EXCEPT ![u] = t]
    /\ resetTokenExpiresAt' =
         IF expires = None THEN resetTokenExpiresAt
                           ELSE [resetTokenExpiresAt EXCEPT ![u] = expires]
    /\ UNCHANGED <<registered, passwordHash, refreshTokenHash>>

updateResetToken(u, t, expires) ==
    /\ resetTokenHash' = [resetTokenHash EXCEPT ![u] = t]
    /\ resetTokenExpiresAt' = [resetTokenExpiresAt EXCEPT ![u] = expires]
    /\ UNCHANGED <<registered, passwordHash, refreshTokenHash>>

\* Fault variant: the update matches no row.
updatePassword_NoRow(u, p) == UNCHANGED users

updatePassword(u, p) ==
    /\ passwordHash' = [passwordHash EXCEPT ![u] = p]
    /\ UNCHANGED <<registered, refreshTokenHash, resetTokenHash, resetTokenExpiresAt>>

-----------------------------------------------------------------------------
(* The handlers, statement by statement.                                   *)

Goto(r, label) == pc' = [pc EXCEPT ![r] = label] /\ UNCHANGED status

Answer(r, s) ==
    /\ pc' = [pc EXCEPT ![r] = "done"]
    /\ status' = [status EXCEPT ![r] = s]

\* A SELECT: only the request moves on.
Read(r) == UNCHANGED <<users, clock, call, user, expiresAt, mailed, seen>>

\* An UPDATE or INSERT: the row changes and the request moves on.
Write(r) == UNCHANGED <<clock, call, user, expiresAt, mailed, seen>>

\* Fault variant: no unique index on the e-mail address.
register_NoUniqueIndex(r) ==
    \/ /\ pc[r] = "find" /\ Is(r, "register")
       /\ IF user[r] \in registered THEN Answer(r, "conflict") ELSE Goto(r, "insert")
       /\ Read(r)
    \/ /\ pc[r] = "insert"
       /\ insertUser(user[r], r)
       /\ Goto(r, "store")
       /\ Write(r)

\* UsersService.create: find, then save, which the unique index may reject with
\* an error nobody maps to a 409.
register(r) ==
    \/ /\ pc[r] = "find" /\ Is(r, "register")
       /\ IF user[r] \in registered THEN Answer(r, "conflict") ELSE Goto(r, "insert")
       /\ Read(r)
    \/ /\ pc[r] = "insert"
       /\ user[r] \in registered
       /\ Answer(r, "error")
       /\ Read(r)
    \/ /\ pc[r] = "insert"
       /\ user[r] \notin registered
       /\ insertUser(user[r], r)
       /\ Goto(r, "store")
       /\ Write(r)

\* validateUser, in the guard, then login.
PasswordMatches(r) == user[r] \in registered /\ passwordHash[user[r]] = call[r].secret

login(r) ==
    /\ pc[r] = "find" /\ Is(r, "login")
    /\ IF PasswordMatches(r) THEN Goto(r, "store") ELSE Answer(r, "unauthorized")
    /\ Read(r)

\* Fault variant: the token itself is compared with the hash of its digest.
TokenMatches_NoDigest(r) == FALSE

TokenMatches(r) == refreshTokenHash[user[r]] = call[r].secret

refresh(r) ==
    /\ pc[r] = "find" /\ Is(r, "refresh")
    /\ IF refreshTokenHash[user[r]] = None
         THEN Answer(r, "unauthorized")
         ELSE IF TokenMatches(r) THEN Goto(r, "store") ELSE Answer(r, "forbidden")
    /\ Read(r)

\* Fault variant: a refresh issues tokens without storing the new hash.
issueTokens_NoRotation(r) ==
    /\ pc[r] = "store"
    /\ IF Is(r, "refresh") THEN UNCHANGED users ELSE updateRefreshTokenHash(user[r], r)
    /\ Answer(r, IF Is(r, "register") THEN "created" ELSE "ok")
    /\ Write(r)

\* The last step of register, login and refresh.
issueTokens(r) ==
    /\ pc[r] = "store"
    /\ updateRefreshTokenHash(user[r], r)
    /\ Answer(r, IF Is(r, "register") THEN "created" ELSE "ok")
    /\ Write(r)

\* The whole of logout, and the last step of resetPassword.
clear(r) ==
    /\ pc[r] = "clear"
    /\ clearRefreshToken(user[r])
    /\ Answer(r, "ok")
    /\ Write(r)

\* A JWT that expired on its way: the guard of refresh and logout.
JwtExpired(r) ==
    /\ \/ pc[r] = "find" /\ Is(r, "refresh")
       \/ pc[r] = "clear" /\ Is(r, "logout")
    /\ Answer(r, "unauthorized")
    /\ Read(r)

\* An unknown address gets the same 200. The expiry is computed before the save.
forgotPassword(r) ==
    \/ /\ pc[r] = "find" /\ Is(r, "forgot")
       /\ user[r] \notin registered
       /\ Answer(r, "ok")
       /\ Read(r)
    \/ /\ pc[r] = "find" /\ Is(r, "forgot")
       /\ user[r] \in registered
       /\ expiresAt' = [expiresAt EXCEPT ![r] = clock + ResetTtl]
       /\ Goto(r, "saveReset")
       /\ UNCHANGED <<users, clock, call, user, mailed, seen>>
    \/ /\ pc[r] = "saveReset"
       /\ updateResetToken(user[r], r, expiresAt[r])
       /\ Goto(r, "mail")
       /\ Write(r)
    \/ /\ pc[r] = "mail"
       /\ mailed' = mailed \cup {r}
       /\ Answer(r, "ok")
       /\ UNCHANGED <<users, clock, call, user, expiresAt, seen>>

\* Fault variant: expired at the very tick of the expiry.
Expired_Inclusive(u) == resetTokenExpiresAt[u] = None \/ resetTokenExpiresAt[u] <= clock

Expired(u) == resetTokenExpiresAt[u] = None \/ resetTokenExpiresAt[u] < clock

\* resetPassword up to its first decision.
findResetToken(r) ==
    LET found == {u \in registered : resetTokenHash[u] = call[r].secret}
    IN  /\ pc[r] = "find" /\ Is(r, "reset")
        /\ \/ found = {} /\ Answer(r, "badRequest") /\ UNCHANGED user
           \/ \E u \in found :
                /\ user' = [user EXCEPT ![r] = u]
                /\ Goto(r, IF Expired(u) THEN "expired" ELSE "password")
        /\ UNCHANGED <<users, clock, call, expiresAt, mailed, seen>>

clearExpiredToken(r) ==
    /\ pc[r] = "expired"
    /\ updateResetToken(user[r], None, None)
    /\ Answer(r, "badRequest")
    /\ Write(r)

\* The three updates of a reset, of which clear is the last.
setPassword(r) ==
    /\ pc[r] = "password"
    /\ updatePassword(user[r], r)
    /\ Goto(r, "clearReset")
    /\ Write(r)

\* Fault variant: the reset token is kept.
clearResetToken_Skipped(r) ==
    /\ pc[r] = "clearReset"
    /\ Goto(r, "clear")
    /\ Read(r)

clearResetToken(r) ==
    /\ pc[r] = "clearReset"
    /\ updateResetToken(user[r], None, None)
    /\ Goto(r, "clear")
    /\ Write(r)

resetPassword(r) ==
    findResetToken(r) \/ clearExpiredToken(r) \/ setPassword(r) \/ clearResetToken(r)

-----------------------------------------------------------------------------
(* What goes wrong.                                                        *)

\* A statement is rejected before it takes effect, or the process dies there:
\* the handler goes no further and nothing it wrote is undone.
HandlerFails(r) ==
    /\ "database" \in Faults
    /\ pc[r] \notin {"idle", "done", "mail"}
    /\ Answer(r, "error")
    /\ Read(r)

\* The final UPDATE takes effect and its reply or the answer is lost.
ReplyLost(r) ==
    /\ "database" \in Faults
    /\ \/ pc[r] = "store" /\ updateRefreshTokenHash(user[r], r)
       \/ pc[r] = "clear" /\ clearRefreshToken(user[r])
       \/ pc[r] = "expired" /\ updateResetToken(user[r], None, None)
    /\ Answer(r, "error")
    /\ Write(r)

\* queue.add is rejected, with or without the job having reached Redis.
EnqueueFails(r) ==
    /\ "redis" \in Faults
    /\ pc[r] = "mail"
    /\ mailed' \in {mailed, mailed \cup {r}}
    /\ Answer(r, "error")
    /\ UNCHANGED <<users, clock, call, user, expiresAt, seen>>

Tick ==
    /\ clock < MaxClock
    /\ clock' = clock + 1
    /\ UNCHANGED <<users, handlers>>

Step(r) ==
    \/ register(r) \/ login(r) \/ refresh(r) \/ issueTokens(r) \/ clear(r)
    \/ forgotPassword(r) \/ resetPassword(r)

Next ==
    \/ \E r \in Request :
          Receive(r) \/ Step(r) \/ JwtExpired(r) \/ HandlerFails(r) \/ ReplyLost(r) \/ EnqueueFails(r)
    \/ Tick

Spec == Init /\ [][Next]_vars

-----------------------------------------------------------------------------
(* Properties.                                                             *)

TypeOK ==
    /\ registered \subseteq User
    /\ passwordHash \in [User -> Request \cup {None}]
    /\ refreshTokenHash \in [User -> Request \cup {None}]
    /\ resetTokenHash \in [User -> Request \cup {None}]
    /\ resetTokenExpiresAt \in [User -> Time \cup {None}]
    /\ \A u \in User : /\ u \in registered <=> passwordHash[u] # None
                       /\ resetTokenHash[u] = None <=> resetTokenExpiresAt[u] = None
    /\ clock \in 0..MaxClock
    /\ pc \in [Request -> Pc]
    /\ call \in [Request -> Call]
    /\ status \in [Request -> Status]
    /\ user \in [Request -> User \cup {None}]
    /\ expiresAt \in [Request -> Time \cup {None}]
    /\ mailed \subseteq Request
    /\ seen \in [Request -> SUBSET Request]

\* s arrived when r had already been answered.
Follows(s, r) == r \in seen[s]
Overlap(r, s) == ~Follows(r, s) /\ ~Follows(s, r)

SucceededAs(r, type) == Is(r, type) /\ Succeeded(r)

\* Of the registrations of an address, at most one succeeds, even when they
\* all find it free.
OneAccountPerEmail ==
    \A r, s \in Request :
        SucceededAs(r, "register") /\ SucceededAs(s, "register") /\ user[r] = user[s] => r = s

\* Rotation: a refresh token serves twice only in refreshes that overlap.
RefreshReuseOverlaps ==
    \A r, s \in Request :
        /\ r # s
        /\ SucceededAs(r, "refresh") /\ SucceededAs(s, "refresh")
        /\ call[r].secret = call[s].secret
        => Overlap(r, s)

\* A logout or a reset ends the sessions there were when it arrived: a later
\* refresh succeeds only with a token issued since.
EndedSessionsStayEnded ==
    \A l, s \in Request :
        /\ SucceededAs(l, "logout") \/ SucceededAs(l, "reset")
        /\ SucceededAs(s, "refresh") /\ Follows(s, l) /\ user[s] = user[l]
        => ~Follows(l, call[s].secret)

\* A reset retires the password there was when it arrived: a later login
\* succeeds only with a password chosen since.
ReplacedPasswordsStayDead ==
    \A r, s \in Request :
        /\ SucceededAs(r, "reset")
        /\ SucceededAs(s, "login") /\ Follows(s, r) /\ user[s] = user[r]
        => ~Follows(r, call[s].secret)

\* A reset token serves twice only in resets that overlap.
ResetReuseOverlaps ==
    \A r, s \in Request :
        /\ r # s
        /\ SucceededAs(r, "reset") /\ SucceededAs(s, "reset")
        /\ call[r].secret = call[s].secret
        => Overlap(r, s)

\* A mailed reset token is refused only when it has expired, or when another
\* forgot-password or reset-password about the user was not over before it was
\* asked for.
ResetRefusalHasCause ==
    \A s \in Request :
        Is(s, "reset") /\ status[s] = "badRequest" =>
            LET f == call[s].secret
            IN  \/ expiresAt[f] < clock
                \/ \E x \in Request \ {f, s} :
                      /\ call[x].type \in {"forgot", "reset"} /\ user[x] = user[f]
                      /\ ~Follows(f, x)

\* A refresh token is found not to match only when another request has issued
\* tokens to the user that was not over before it was asked for.
RefreshRefusalHasCause ==
    \A s \in Request :
        status[s] = "forbidden" =>
            LET t == call[s].secret
            IN  \E x \in Request \ {s, t} :
                  /\ call[x].type \in {"register", "login", "refresh"} /\ user[x] = user[s]
                  /\ ~Follows(t, x)

\* Without faults a registration is answered 201 or 409, as auth.controller.ts
\* documents.
RegisterAnswers ==
    \A r \in Request : Is(r, "register") /\ pc[r] = "done" => status[r] \in {"created", "conflict"}

\* "Clear expired token": what the clear removes is the token found expired.
ClearsExpiredToken ==
    \A r \in Request : pc[r] = "expired" => resetTokenHash[user[r]] \in {call[r].secret, None}

\* "Logout and invalidate refresh token": once a logout has succeeded, no token
\* is good that was obtained with one issued before it.
LogoutInvalidates ==
    \A l, s \in Request :
        /\ SucceededAs(l, "logout")
        /\ SucceededAs(s, "refresh") /\ user[s] = user[l] /\ Follows(l, call[s].secret)
        => refreshTokenHash[user[s]] # s
=============================================================================
