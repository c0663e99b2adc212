------------------------- MODULE AuthSessionsProofs -------------------------
(***************************************************************************)
(* Safety of AuthSessions for every set of requests and users, every life  *)
(* of a reset token, with and without faults.                              *)
(***************************************************************************)
EXTENDS AuthSessions, TLAPS

-----------------------------------------------------------------------------
(* The inductive invariant.                                                *)

Issues(r) == call[r].type \in {"register", "login", "refresh"}

\* A reset that has found the user of its token.
FoundUser(r) == pc[r] \in {"expired", "password", "clearReset", "clear"} \/ Succeeded(r)

\* How the variables of a request fit together.
Lifecycle ==
    \A r \in Request :
        /\ pc[r] = "idle" => call[r] = NoCall /\ user[r] = None
        /\ pc[r] # "idle" => call[r].type # "none"
        /\ pc[r] # "done" <=> status[r] = "none"
        /\ pc[r] = "find" => ~Is(r, "logout")
        /\ pc[r] = "insert" => Is(r, "register")
        /\ pc[r] = "store" => Issues(r)
        /\ pc[r] \in {"saveReset", "mail"} => Is(r, "forgot") /\ user[r] \in registered
        /\ pc[r] \in {"saveReset", "mail"} => expiresAt[r] \in Time
        /\ pc[r] \in {"expired", "password", "clearReset"} => Is(r, "reset")
        /\ pc[r] = "clear" => Is(r, "logout") \/ Is(r, "reset")
        /\ status[r] = "forbidden" => Is(r, "refresh")
        /\ r \notin seen[r] /\ \A s \in seen[r] : pc[s] = "done"

\* Whose row a request is about, and where it has its token from.
Bearers ==
    \A r \in Request :
        /\ pc[r] # "idle" /\ ~Is(r, "reset") => user[r] = call[r].user /\ user[r] \in User
        /\ Is(r, "refresh") =>
              LET t == call[r].secret
              IN  t \in seen[r] /\ Issues(t) /\ Succeeded(t) /\ user[r] = user[t]
        /\ Is(r, "reset") =>
              LET f == call[r].secret
              IN  /\ f \in mailed
                  /\ pc[r] = "find" => user[r] = None
                  /\ FoundUser(r) => user[r] \in registered /\ user[r] = user[f]
                  /\ pc[r] = "expired" => expiresAt[f] < clock
        /\ r \in mailed => Is(r, "forgot") /\ pc[r] = "done" /\ user[r] \in registered /\ expiresAt[r] \in Time

\* Whose token or password a column holds.
Origins ==
    \A u \in User :
        /\ refreshTokenHash[u] # None =>
              LET x == refreshTokenHash[u]
              IN  Issues(x) /\ user[x] = u /\ pc[x] = "done"
        /\ resetTokenHash[u] # None =>
              LET x == resetTokenHash[u]
              IN  /\ Is(x, "forgot") /\ user[x] = u /\ pc[x] \in {"mail", "done"}
                  /\ resetTokenExpiresAt[u] = expiresAt[x]

Inserted(r) == Is(r, "register") /\ (pc[r] = "store" \/ Succeeded(r))

\* A registration past its INSERT is the only one of its address.
InsertedOnce ==
    \A r \in Request :
        Inserted(r) => /\ user[r] \in registered
                       /\ \A s \in Request : Inserted(s) /\ user[s] = user[r] => s = r

Ends(l) == SucceededAs(l, "logout") \/ SucceededAs(l, "reset")
HasReplaced(r) == Is(r, "reset") /\ (pc[r] \in {"clearReset", "clear"} \/ Succeeded(r))
HasRedeemed(r) == Is(r, "reset") /\ (pc[r] = "clear" \/ Succeeded(r))

\* What was replaced or cleared does not come back into the table: whoever
\* wrote it is done.
SpentTokens ==
    \A r \in Request :
        /\ SucceededAs(r, "refresh") => refreshTokenHash[user[r]] # call[r].secret
        /\ Issues(r) /\ Succeeded(r) => refreshTokenHash[user[r]] \notin seen[r]
        /\ Ends(r) => refreshTokenHash[user[r]] \notin seen[r]
        /\ HasReplaced(r) => passwordHash[user[r]] \notin seen[r]
        /\ HasRedeemed(r) => resetTokenHash[user[r]] # call[r].secret

\* Past the check of what it shows, and bound to succeed unless something fails.
Admitted(s) == pc[s] \in {"store", "password", "clearReset", "clear"} \/ Succeeded(s)

\* A request with something spent before it arrived is not admitted.
SpentIsRefused ==
    \A r, s \in Request :
        Follows(s, r) /\ Admitted(s) =>
            /\ SucceededAs(r, "refresh") /\ Is(s, "refresh") => call[s].secret # call[r].secret
            /\ Ends(r) /\ Is(s, "refresh") /\ user[s] = user[r] => call[s].secret \notin seen[r]
            /\ SucceededAs(r, "reset") /\ Is(s, "login") /\ user[s] = user[r] =>
                  call[s].secret \notin seen[r]
            /\ SucceededAs(r, "reset") /\ Is(s, "reset") => call[s].secret # call[r].secret

\* Another request that writes or clears reset tokens of f's user and was not
\* over when f arrived.
Rival(x, f) ==
    /\ x # f /\ call[x].type \in {"forgot", "reset"} /\ user[x] = user[f]
    /\ ~Follows(f, x)

\* A mailed reset token is the one in the table unless a rival came between.
MailedIsCurrent ==
    \A f \in Request :
        pc[f] = "mail" \/ f \in mailed =>
            resetTokenHash[user[f]] = f \/ \E x \in Request : Rival(x, f)

IInv ==
    /\ TypeOK
    /\ Lifecycle
    /\ Bearers
    /\ Origins
    /\ InsertedOnce
    /\ SpentTokens
    /\ SpentIsRefused
    /\ MailedIsCurrent
    /\ ResetRefusalHasCause
    /\ RefreshRefusalHasCause

USE DEF Is, Succeeded, SucceededAs, Follows

-----------------------------------------------------------------------------
(* What a step of a handler does, in terms of the request's variables and  *)
(* of the columns.                                                         *)

Handles(r) == Step(r) \/ JwtExpired(r) \/ HandlerFails(r) \/ ReplyLost(r) \/ EnqueueFails(r)

\* Only r moves.
Framed(r) ==
    /\ call' = call /\ seen' = seen /\ clock' = clock
    /\ pc' \in [Request -> Pc] /\ status' \in [Request -> Status]
    /\ user' \in [Request -> User \cup {None}] /\ expiresAt' \in [Request -> Time \cup {None}]
    /\ \A s \in Request \ {r} : /\ pc'[s] = pc[s] /\ status'[s] = status[s]
                                /\ user'[s] = user[s] /\ expiresAt'[s] = expiresAt[s]
    /\ mailed' = mailed \/ (mailed' = mailed \cup {r} /\ pc[r] = "mail" /\ pc'[r] = "done")
    /\ user'[r] = user[r] \/ pc'[r] \in {"expired", "password"}
    /\ expiresAt'[r] = expiresAt[r] \/ pc'[r] = "saveReset"

\* r moves from one await to the next, for a reason.
Moves(r) ==
    /\ pc[r] \notin {"idle", "done"} /\ pc'[r] \notin {"idle", "find"}
    /\ pc'[r] # "done" <=> status'[r] = "none"
    /\ pc'[r] = "insert" => pc[r] = "find" /\ Is(r, "register")
    /\ pc'[r] = "store" => \/ pc[r] = "insert"
                           \/ pc[r] = "find" /\ Is(r, "login") /\ PasswordMatches(r)
                           \/ pc[r] = "find" /\ Is(r, "refresh") /\ TokenMatches(r)
    /\ pc'[r] = "saveReset" => /\ pc[r] = "find" /\ Is(r, "forgot") /\ user[r] \in registered
                               /\ expiresAt'[r] \in Time
    /\ pc'[r] = "mail" => pc[r] = "saveReset"
    /\ pc'[r] \in {"expired", "password"} =>
          /\ pc[r] = "find" /\ Is(r, "reset")
          /\ user'[r] \in registered /\ resetTokenHash[user'[r]] = call[r].secret
          /\ pc'[r] = "expired" => Expired(user'[r])
    /\ pc'[r] = "clearReset" => pc[r] = "password"
    /\ pc'[r] = "clear" => pc[r] = "clearReset"
    /\ status'[r] \in {"created", "ok"} =>
          pc[r] \in {"store", "clear", "mail"} \/ (pc[r] = "find" /\ Is(r, "forgot"))
    /\ status'[r] = "badRequest" =>
          \/ pc[r] = "expired"
          \/ /\ pc[r] = "find" /\ Is(r, "reset")
             /\ \A u \in registered : resetTokenHash[u] # call[r].secret
    /\ status'[r] = "forbidden" =>
          /\ pc[r] = "find" /\ Is(r, "refresh")
          /\ refreshTokenHash[user[r]] # None /\ refreshTokenHash[user[r]] # call[r].secret

\* r's statement, if it is an INSERT or UPDATE that takes effect.
WritesRefreshToken(r) ==
    /\ pc[r] \in {"store", "clear"} /\ pc'[r] = "done"
    /\ refreshTokenHash' = [refreshTokenHash EXCEPT ![user[r]] = IF pc[r] = "store" THEN r ELSE None]

WritesPassword(r) ==
    /\ \/ pc[r] = "insert" /\ pc'[r] = "store" /\ user[r] \notin registered
       \/ pc[r] = "password" /\ pc'[r] = "clearReset"
    /\ passwordHash' = [passwordHash EXCEPT ![user[r]] = r]
    /\ registered' = registered \cup {user[r]}

SavesResetToken(r) ==
    /\ pc[r] = "saveReset" /\ pc'[r] = "mail"
    /\ resetTokenHash' = [resetTokenHash EXCEPT ![user[r]] = r]
    /\ resetTokenExpiresAt' = [resetTokenExpiresAt EXCEPT ![user[r]] = expiresAt[r]]

ClearsResetToken(r) ==
    /\ \/ pc[r] = "expired" /\ pc'[r] = "done"
       \/ pc[r] = "clearReset" /\ pc'[r] = "clear"
    /\ resetTokenHash' = [resetTokenHash EXCEPT ![user[r]] = None]
    /\ resetTokenExpiresAt' = [resetTokenExpiresAt EXCEPT ![user[r]] = None]

Stores(r) ==
    /\ \/ WritesRefreshToken(r)
       \/ /\ UNCHANGED refreshTokenHash
          /\ ~(pc[r] \in {"store", "clear"} /\ Succeeded(r)')
    /\ \/ WritesPassword(r)
       \/ /\ UNCHANGED <<passwordHash, registered>>
          /\ pc'[r] # "clearReset" /\ ~(pc[r] = "insert" /\ pc'[r] = "store")
    /\ \/ SavesResetToken(r) \/ ClearsResetToken(r)
       \/ /\ UNCHANGED <<resetTokenHash, resetTokenExpiresAt>>
          /\ pc'[r] \notin {"mail", "clear"}

\* The handler's steps are such.
LEMMA HandlerStep ==
    ASSUME IInv, NEW r \in Request, Handles(r)
    PROVE  Framed(r) /\ Moves(r) /\ Stores(r)
<1> USE DEF IInv
<1>1. /\ pc \in [Request -> Pc] /\ status \in [Request -> Status]
      /\ user \in [Request -> User \cup {None}] /\ expiresAt \in [Request -> Time \cup {None}]
      /\ resetTokenHash \in [User -> Request \cup {None}] /\ registered \subseteq User
  BY DEF TypeOK
<1>2. pc[r] # "done" => status[r] = "none"
  BY DEF Lifecycle
<1>3. /\ pc[r] = "insert" => Is(r, "register")
      /\ pc[r] \in {"saveReset", "mail"} => Is(r, "forgot")
      /\ pc[r] = "password" => user[r] \in registered
  BY <1>1 DEF Lifecycle, Bearers, FoundUser
<1> DEFINE Effect == Framed(r) /\ Moves(r) /\ Stores(r)
           Kept == UNCHANGED <<users, clock, call, user, expiresAt, mailed, seen>>
<1>4. ASSUME NEW a \in Status \ {"none", "created", "ok", "badRequest", "forbidden"},
             pc[r] \notin {"idle", "done"}, Answer(r, a), Kept
      PROVE  Effect
  BY <1>1, <1>4 DEF Answer, Framed, Moves, Stores, users, columns, Status, Pc
<1>5. CASE register(r)
  <2>1. CASE pc[r] = "find" /\ Is(r, "register") /\ Goto(r, "insert") /\ Read(r)
    BY <1>1, <1>2, <2>1 DEF Goto, Read, Framed, Moves, Stores, users, columns, Status, Pc
  <2>2. CASE pc[r] = "insert" /\ user[r] \notin registered /\ insertUser(user[r], r) /\ Goto(r, "store") /\ Write(r)
    BY <1>1, <1>2, <2>2 DEF Goto, Write, insertUser, WritesPassword, Framed, Moves, Stores, Status, Pc
  <2>3. CASE pc[r] \in {"find", "insert"} /\ Read(r) /\ (Answer(r, "conflict") \/ Answer(r, "error"))
    BY <1>4, <2>3 DEF Read, Status
  <2> QED
    BY <1>5, <2>1, <2>2, <2>3 DEF register
<1>6. CASE login(r)
  BY <1>1, <1>2, <1>4, <1>6 DEF login, Answer, Goto, Read, Framed, Moves, Stores, users, columns, Status, Pc
<1>7. CASE refresh(r)
  BY <1>1, <1>2, <1>7 DEF refresh, TokenMatches, Answer, Goto, Read, Framed, Moves, Stores, users, columns, Status, Pc
<1>8. CASE issueTokens(r)
  BY <1>1, <1>2, <1>8 DEF issueTokens, updateRefreshTokenHash, WritesRefreshToken, Answer, Write, Framed, Moves, Stores, Status, Pc
<1>9. CASE clear(r)
  BY <1>1, <1>2, <1>9 DEF clear, clearRefreshToken, updateRefreshTokenHash, WritesRefreshToken, Answer, Write,
                          Framed, Moves, Stores, Status, Pc
<1>10. CASE forgotPassword(r)
  <2>1. CASE pc[r] = "find" /\ Is(r, "forgot") /\ Answer(r, "ok") /\ Read(r)
    BY <1>1, <1>2, <2>1 DEF Answer, Read, Framed, Moves, Stores, users, columns, Status, Pc
  <2>2. CASE /\ pc[r] = "find" /\ Is(r, "forgot") /\ user[r] \in registered
             /\ expiresAt' = [expiresAt EXCEPT ![r] = clock + ResetTtl]
             /\ Goto(r, "saveReset") /\ UNCHANGED <<users, clock, call, user, mailed, seen>>
    <3>1. clock + ResetTtl \in Time
      BY ClockAssumption DEF TypeOK, Time
    <3> QED
      BY <1>1, <1>2, <2>2, <3>1 DEF Goto, Framed, Moves, Stores, users, columns, Status, Pc
  <2>3. CASE /\ pc[r] = "saveReset" /\ updateResetToken(user[r], r, expiresAt[r]) /\ Goto(r, "mail") /\ Write(r)
    BY <1>1, <1>2, <2>3 DEF Goto, Write, updateResetToken, SavesResetToken, Framed, Moves, Stores, Status, Pc
  <2>4. CASE /\ pc[r] = "mail" /\ mailed' = mailed \cup {r} /\ Answer(r, "ok")
             /\ UNCHANGED <<users, clock, call, user, expiresAt, seen>>
    BY <1>1, <1>2, <2>4 DEF Answer, Framed, Moves, Stores, users, columns, Status, Pc
  <2> QED
    BY <1>10, <2>1, <2>2, <2>3, <2>4 DEF forgotPassword
<1>11. CASE findResetToken(r)
  <2>1. CASE /\ {u \in registered : resetTokenHash[u] = call[r].secret} = {} /\ Answer(r, "badRequest") /\ UNCHANGED user
    BY <1>1, <1>2, <1>11, <2>1 DEF findResetToken, Answer, Framed, Moves, Stores, users, columns, Status, Pc
  <2>2. CASE \E u \in registered : /\ resetTokenHash[u] = call[r].secret
                                   /\ user' = [user EXCEPT ![r] = u]
                                   /\ Goto(r, IF Expired(u) THEN "expired" ELSE "password")
    BY <1>1, <1>2, <1>11, <2>2 DEF findResetToken, Goto, Framed, Moves, Stores, users, columns, Status, Pc
  <2> QED
    BY <1>11, <2>1, <2>2 DEF findResetToken
<1>12. CASE clearExpiredToken(r)
  BY <1>1, <1>2, <1>12 DEF clearExpiredToken, updateResetToken, ClearsResetToken, Answer, Write, Framed, Moves, Stores, Status, Pc
<1>13. CASE setPassword(r)
  <2>1. registered \cup {user[r]} = registered
    BY <1>3, <1>13 DEF setPassword
  <2> QED
    BY <1>1, <1>2, <1>13, <2>1 DEF setPassword, updatePassword, WritesPassword, Goto, Write, Framed, Moves, Stores, Status, Pc
<1>14. CASE clearResetToken(r)
  BY <1>1, <1>2, <1>14 DEF clearResetToken, updateResetToken, ClearsResetToken, Goto, Write, Framed, Moves, Stores, Status, Pc
<1>15. CASE JwtExpired(r) \/ HandlerFails(r)
  BY <1>4, <1>15 DEF JwtExpired, HandlerFails, Read, Status
<1>16. CASE ReplyLost(r)
  <2>1. CASE pc[r] = "store" /\ updateRefreshTokenHash(user[r], r)
    BY <1>1, <1>2, <1>16, <2>1 DEF ReplyLost, updateRefreshTokenHash, WritesRefreshToken, Answer, Write, Framed, Moves, Stores, Status, Pc
  <2>2. CASE pc[r] = "clear" /\ clearRefreshToken(user[r])
    BY <1>1, <1>2, <1>16, <2>2 DEF ReplyLost, clearRefreshToken, updateRefreshTokenHash, WritesRefreshToken, Answer, Write,
                                   Framed, Moves, Stores, Status, Pc
  <2>3. CASE pc[r] = "expired" /\ updateResetToken(user[r], None, None)
    BY <1>1, <1>2, <1>16, <2>3 DEF ReplyLost, updateResetToken, ClearsResetToken, Answer, Write, Framed, Moves, Stores, Status, Pc
  <2> QED
    BY <1>16, <2>1, <2>2, <2>3 DEF ReplyLost
<1>17. CASE EnqueueFails(r)
  BY <1>1, <1>2, <1>17 DEF EnqueueFails, Answer, Framed, Moves, Stores, users, columns, Status, Pc
<1> QED
  BY <1>5, <1>6, <1>7, <1>8, <1>9, <1>10, <1>11, <1>12, <1>13, <1>14, <1>15, <1>16, <1>17 DEF Handles, Step, resetPassword

-----------------------------------------------------------------------------
(* The steps keep the invariant.                                           *)

LEMMA InitIInv == Init => IInv
<1> SUFFICES ASSUME Init PROVE IInv
  OBVIOUS
<1>1. TypeOK
  BY ClockAssumption DEF Init, TypeOK, Call, NoCall, Type, Pc, Status
<1>2. Lifecycle /\ Bearers /\ Origins /\ InsertedOnce
  BY DEF Init, Lifecycle, Bearers, FoundUser, Origins, InsertedOnce, Inserted, NoCall
<1>3. SpentTokens /\ SpentIsRefused /\ MailedIsCurrent
  BY DEF Init, SpentTokens, SpentIsRefused, MailedIsCurrent, Issues, Ends, HasReplaced, HasRedeemed, NoCall
<1>4. ResetRefusalHasCause /\ RefreshRefusalHasCause
  BY DEF Init, ResetRefusalHasCause, RefreshRefusalHasCause, NoCall
<1> QED
  BY <1>1, <1>2, <1>3, <1>4 DEF IInv

\* A request arrives: it finds what it follows done, and is not admitted yet.
LEMMA ReceiveStep ==
    ASSUME IInv, NEW r \in Request, Receive(r)
    PROVE  IInv'
<1> USE DEF IInv
<1>1. PICK c \in Calls(r) :
        /\ call' = [call EXCEPT ![r] = c] /\ user' = [user EXCEPT ![r] = c.user]
        /\ pc' = [pc EXCEPT ![r] = IF c.type = "logout" THEN "clear" ELSE "find"]
  BY DEF Receive
<1>2. /\ pc[r] = "idle" /\ call[r] = NoCall /\ status[r] = "none"
      /\ seen' = [seen EXCEPT ![r] = {s \in Request : pc[s] = "done"}]
      /\ UNCHANGED <<users, clock, status, expiresAt, mailed>>
  BY DEF Receive, Lifecycle
<1>3. \A t \in Issued : call[t].user = user[t] /\ user[t] \in User /\ pc[t] = "done" /\ Issues(t) /\ Succeeded(t)
  BY DEF Issued, Issues, Lifecycle, Bearers
<1>4. /\ c \in Call /\ c.type # "none"
      /\ c.type # "reset" => c.user \in User
      /\ c.type = "reset" => c.user = None /\ c.secret \in mailed
      /\ c.type = "refresh" => c.secret \in Issued /\ c.user = call[c.secret].user
  BY <1>3 DEF Calls, Asks, Chosen, Call, Type, Issued, TypeOK
<1>5. /\ \A s \in Request \ {r} : call'[s] = call[s] /\ pc'[s] = pc[s] /\ user'[s] = user[s] /\ seen'[s] = seen[s]
      /\ call'[r] = c /\ user'[r] = c.user /\ seen'[r] = {s \in Request : pc[s] = "done"}
      /\ pc'[r] = IF c.type = "logout" THEN "clear" ELSE "find"
  BY <1>1, <1>2 DEF TypeOK
<1>6. TypeOK'
  BY <1>1, <1>2, <1>4 DEF TypeOK, Pc, Call, users, columns
<1>7. Lifecycle'
  BY <1>2, <1>4, <1>5 DEF Lifecycle, Issues, users, TypeOK
<1>16. \A s \in Request : s # r =>
         /\ Is(s, "refresh") => call[s].secret # r
         /\ Is(s, "reset") => call[s].secret \in mailed /\ call[s].secret # r
  BY <1>2 DEF Bearers, Lifecycle
<1>8. Bearers'
  <2>1. ASSUME NEW s \in Request, s # r
        PROVE  /\ (pc[s] # "idle" /\ ~Is(s, "reset"))' => user'[s] = call'[s].user /\ user'[s] \in User
               /\ Is(s, "refresh")' => (LET t == call[s].secret
                                        IN  t \in seen[s] /\ Issues(t) /\ Succeeded(t) /\ user[s] = user[t])'
               /\ Is(s, "reset")' => (LET f == call[s].secret
                                      IN  /\ f \in mailed
                                          /\ pc[s] = "find" => user[s] = None
                                          /\ FoundUser(s) => user[s] \in registered /\ user[s] = user[f]
                                          /\ pc[s] = "expired" => expiresAt[f] < clock)'
               /\ s \in mailed' => (/\ Is(s, "forgot") /\ pc[s] = "done"
                                    /\ user[s] \in registered /\ expiresAt[s] \in Time)'
    <3>1. mailed \subseteq Request /\ seen[s] \subseteq Request
      BY DEF TypeOK
    <3> QED
      BY <1>2, <1>5, <1>16, <2>1, <3>1 DEF Bearers, FoundUser, Issues, users
  <2>2. r \notin mailed /\ mailed' = mailed /\ status'[r] = "none" /\ pc'[r] \in {"clear", "find"}
    BY <1>2, <1>5 DEF Bearers
  <2>3. c.type = "refresh" => (LET t == call[r].secret
                               IN  t \in seen[r] /\ Issues(t) /\ Succeeded(t) /\ user[r] = user[t])'
    <3> SUFFICES ASSUME c.type = "refresh"
                 PROVE  (LET t == call[r].secret
                         IN  t \in seen[r] /\ Issues(t) /\ Succeeded(t) /\ user[r] = user[t])'
      OBVIOUS
    <3> DEFINE t == c.secret
    <3>1. t \in Request /\ pc[t] = "done" /\ Issues(t) /\ Succeeded(t) /\ c.user = user[t] /\ t # r
      BY <1>2, <1>3, <1>4 DEF Issued
    <3> QED
      BY <1>2, <1>5, <3>1 DEF Issues
  <2> QED
    BY <1>4, <1>5, <2>1, <2>2, <2>3 DEF Bearers, FoundUser
<1>9. Origins'
  BY <1>2, <1>5 DEF Origins, Issues, users, columns, TypeOK
<1>10. InsertedOnce'
  BY <1>2, <1>5 DEF InsertedOnce, Inserted, users, TypeOK
<1>11. SpentTokens'
  BY <1>2, <1>4, <1>5 DEF SpentTokens, Issues, Ends, HasReplaced, HasRedeemed, users, columns, TypeOK
<1>12. SpentIsRefused'
  BY <1>2, <1>4, <1>5 DEF SpentIsRefused, Admitted, Ends, Lifecycle, TypeOK
<1>13. MailedIsCurrent'
  <2> SUFFICES ASSUME NEW f \in Request, (pc[f] = "mail" \/ f \in mailed)'
               PROVE  (resetTokenHash[user[f]] = f \/ \E x \in Request : Rival(x, f))'
    BY DEF MailedIsCurrent
  <2>1. f # r /\ (pc[f] = "mail" \/ f \in mailed) /\ user'[f] = user[f]
    BY <1>2, <1>5 DEF Bearers
  <2>2. ASSUME NEW x \in Request, Rival(x, f) PROVE Rival(x, f)'
    BY <1>2, <1>5, <2>1, <2>2 DEF Rival, NoCall
  <2> QED
    BY <1>2, <2>1, <2>2 DEF MailedIsCurrent, users, columns
<1>14. ResetRefusalHasCause'
  <2>1. \A x \in Request : call[x].type # "none" => call'[x] = call[x] /\ user'[x] = user[x] /\ seen'[x] = seen[x]
    BY <1>2, <1>5 DEF NoCall
  <2>2. \A f \in mailed : call[f].type # "none"
    BY DEF Bearers, TypeOK
  <2>3. \A s \in Request : status'[s] = "badRequest" => s # r
    BY <1>2
  <2> QED
    BY <1>2, <1>5, <1>16, <2>1, <2>2, <2>3 DEF ResetRefusalHasCause, TypeOK
<1>15. RefreshRefusalHasCause'
  <2> SUFFICES ASSUME NEW s \in Request, status'[s] = "forbidden"
               PROVE  (LET t == call[s].secret
                       IN  \E x \in Request \ {s, t} : Issues(x) /\ user[x] = user[s] /\ ~Follows(t, x))'
    BY DEF RefreshRefusalHasCause, Issues
  <2>1. s # r /\ Is(s, "refresh") /\ status[s] = "forbidden"
    BY <1>2 DEF Lifecycle
  <2>2. call[s].secret # r /\ call[s].secret \in Request
    BY <1>16, <2>1 DEF Bearers, TypeOK
  <2>3. PICK x \in Request \ {s, call[s].secret} :
          Issues(x) /\ user[x] = user[s] /\ ~Follows(call[s].secret, x)
    BY <2>1 DEF RefreshRefusalHasCause, Issues
  <2>4. x # r
    BY <1>2, <2>3 DEF Issues, NoCall
  <2> QED
    BY <1>5, <2>1, <2>2, <2>3, <2>4 DEF Issues
<1> QED
  BY <1>6, <1>7, <1>8, <1>9, <1>10, <1>11, <1>12, <1>13, <1>14, <1>15

\* Time passes, and what has expired stays expired.
LEMMA TickStep == IInv /\ Tick => IInv'
<1> SUFFICES ASSUME IInv, Tick PROVE IInv'
  OBVIOUS
<1> USE DEF IInv
<1>1. UNCHANGED <<users, handlers>> /\ clock' = clock + 1 /\ clock < MaxClock /\ clock \in 0..MaxClock
  BY DEF Tick, TypeOK
<1>2. TypeOK'
  BY <1>1, ClockAssumption DEF TypeOK, users, columns, handlers
<1>3. \A t \in Time : t < clock => t < clock'
  BY <1>1, ClockAssumption DEF Time
<1>4. Lifecycle' /\ Origins' /\ InsertedOnce' /\ SpentTokens' /\ SpentIsRefused' /\ MailedIsCurrent'
  BY <1>1 DEF Lifecycle, Origins, InsertedOnce, SpentTokens, SpentIsRefused, MailedIsCurrent, Issues, Inserted,
              Ends, HasReplaced, HasRedeemed, Admitted, Rival, users, columns, handlers
<1>5. Bearers' /\ ResetRefusalHasCause'
  <2>1. \A r \in Request : Is(r, "reset") /\ expiresAt[call[r].secret] < clock =>
          expiresAt[call[r].secret] < clock'
    BY <1>3 DEF Bearers, TypeOK
  <2>2. Bearers'
    BY <1>1, <2>1 DEF Bearers, FoundUser, Issues, Lifecycle, users, columns, handlers
  <2>3. ResetRefusalHasCause'
    BY <1>1, <2>1 DEF ResetRefusalHasCause, handlers
  <2> QED
    BY <2>2, <2>3
<1>6. RefreshRefusalHasCause'
  BY <1>1 DEF RefreshRefusalHasCause, handlers
<1> QED
  BY <1>2, <1>4, <1>5, <1>6

\* A handler takes a step.
LEMMA WorkStep ==
    ASSUME IInv, NEW r \in Request, Handles(r)
    PROVE  IInv'
<1> USE DEF IInv
<1>1. Framed(r) /\ Moves(r) /\ Stores(r)
  BY HandlerStep
<1>2. /\ call' = call /\ seen' = seen /\ clock' = clock
      /\ \A s \in Request : s # r => /\ pc'[s] = pc[s] /\ status'[s] = status[s]
                                     /\ user'[s] = user[s] /\ expiresAt'[s] = expiresAt[s]
      /\ mailed \subseteq mailed' /\ mailed' \subseteq mailed \cup {r} /\ mailed' \subseteq Request
      /\ pc[r] \notin {"idle", "done"} /\ status[r] = "none"
      /\ pc'[r] \notin {"idle", "find"}
      /\ pc'[r] # "done" <=> status'[r] = "none"
  BY <1>1 DEF Framed, Moves, Lifecycle, TypeOK
<1>3. /\ \A s \in Request : r \notin seen[s] /\ \A t \in seen[s] : pc[t] = "done" /\ t \in Request /\ t # r
      /\ \A s \in Request : Succeeded(s) => s # r /\ pc[s] = "done"
      /\ r \notin mailed
  BY <1>2 DEF Lifecycle, Bearers, TypeOK
<1>4. /\ user'[r] = user[r] \/ (pc[r] = "find" /\ Is(r, "reset") /\ pc'[r] \in {"expired", "password"})
      /\ pc[r] \notin {"idle", "find", "done"} => user[r] \in User /\ user[r] # None
      /\ Is(r, "reset") /\ pc[r] = "find" => user[r] = None
  BY <1>1, NoneAssumption DEF Framed, Moves, Lifecycle, Bearers, FoundUser, TypeOK, Pc, Issues
<1>5. registered \subseteq registered' /\ registered' \subseteq registered \cup {user[r]}
  BY <1>1 DEF Stores, WritesPassword
<1>6. \A u \in User : /\ \/ refreshTokenHash'[u] = refreshTokenHash[u]
                         \/ refreshTokenHash'[u] = None
                         \/ refreshTokenHash'[u] = r /\ u = user[r] /\ pc[r] = "store" /\ pc'[r] = "done"
                      /\ passwordHash'[u] = passwordHash[u] \/ passwordHash'[u] = r
                      /\ \/ /\ resetTokenHash'[u] = resetTokenHash[u]
                            /\ resetTokenExpiresAt'[u] = resetTokenExpiresAt[u]
                         \/ resetTokenHash'[u] = None /\ resetTokenExpiresAt'[u] = None
                         \/ /\ resetTokenHash'[u] = r /\ resetTokenExpiresAt'[u] = expiresAt[r]
                            /\ u = user[r] /\ pc[r] = "saveReset" /\ pc'[r] = "mail"
  BY <1>1 DEF Stores, WritesRefreshToken, WritesPassword, SavesResetToken, ClearsResetToken, TypeOK
<1>7. TypeOK'
  <2>1. refreshTokenHash' \in [User -> Request \cup {None}] /\ passwordHash' \in [User -> Request \cup {None}]
    BY <1>1 DEF Stores, WritesRefreshToken, WritesPassword, TypeOK
  <2>2. /\ resetTokenHash' \in [User -> Request \cup {None}]
        /\ resetTokenExpiresAt' \in [User -> Time \cup {None}]
        /\ \A u \in User : (resetTokenHash[u] = None <=> resetTokenExpiresAt[u] = None)'
    <3>1. pc[r] = "saveReset" => expiresAt[r] \in Time /\ expiresAt[r] # None
      BY NoneIsNoTime DEF Lifecycle, Time
    <3>2. /\ resetTokenHash' \in [User -> Request \cup {None}]
          /\ resetTokenExpiresAt' \in [User -> Time \cup {None}]
      <4>1. CASE SavesResetToken(r)
        BY <3>1, <4>1 DEF SavesResetToken, TypeOK
      <4>2. CASE ClearsResetToken(r)
        BY <4>2 DEF ClearsResetToken, TypeOK
      <4>3. CASE UNCHANGED <<resetTokenHash, resetTokenExpiresAt>>
        BY <4>3 DEF TypeOK
      <4> QED
        BY <1>1, <4>1, <4>2, <4>3 DEF Stores
    <3>3. r # None /\ \A u \in User : resetTokenHash[u] = None <=> resetTokenExpiresAt[u] = None
      BY NoneAssumption DEF TypeOK
    <3> QED
      BY <1>6, <3>1, <3>2, <3>3
  <2>3. registered' \subseteq User /\ \A u \in User : (u \in registered <=> passwordHash[u] # None)'
    BY <1>1, <1>4, NoneAssumption DEF Stores, WritesPassword, TypeOK
  <2> QED
    BY <1>1, <1>2, <2>1, <2>2, <2>3 DEF TypeOK, Framed
<1>8. Lifecycle'
  BY <1>1, <1>2, <1>3, <1>5 DEF Moves, Framed, Lifecycle, Issues
<1>9. Bearers'
  <2>1. ASSUME NEW s \in Request
        PROVE  /\ (pc[s] # "idle" /\ ~Is(s, "reset"))' => user'[s] = call'[s].user /\ user'[s] \in User
               /\ Is(s, "refresh")' => (LET t == call[s].secret
                                        IN  t \in seen[s] /\ Issues(t) /\ Succeeded(t) /\ user[s] = user[t])'
    BY <1>2, <1>3, <1>4 DEF Bearers, Issues
  <2>2. ASSUME NEW s \in Request, Is(s, "reset")
        PROVE  LET f == call[s].secret
               IN  /\ f \in mailed'
                   /\ pc'[s] # "find" \/ user'[s] = None
                   /\ FoundUser(s)' => user'[s] \in registered' /\ user'[s] = user'[f]
                   /\ pc'[s] = "expired" => expiresAt'[f] < clock
    <3> DEFINE f == call[s].secret
    <3>1. /\ f \in mailed /\ f \in Request /\ f # r /\ f \in mailed'
          /\ user'[f] = user[f] /\ expiresAt'[f] = expiresAt[f] /\ expiresAt[f] \in Time
      BY <1>2, <1>3, <2>2 DEF Bearers, TypeOK
    <3>2. CASE s # r
      BY <1>2, <1>5, <2>2, <3>1, <3>2 DEF Bearers, FoundUser
    <3>3. CASE s = r /\ pc'[r] \in {"expired", "password"}
      <4>1. /\ user'[r] \in registered /\ user'[r] \in User /\ resetTokenHash[user'[r]] = f
            /\ pc'[r] = "expired" => Expired(user'[r])
        BY <1>1, <3>3 DEF Moves, TypeOK
      <4>2. f # None /\ expiresAt[f] # None
        BY <3>1, NoneAssumption, NoneIsNoTime DEF Time
      <4>3. user[f] = user'[r] /\ resetTokenExpiresAt[user'[r]] = expiresAt[f]
        BY <4>1, <4>2 DEF Origins
      <4> QED
        BY <1>5, <3>1, <3>3, <4>1, <4>2, <4>3 DEF Expired
    <3>4. CASE s = r /\ pc'[r] \notin {"expired", "password"}
      <4>1. FoundUser(r)' => FoundUser(r)
        BY <1>1, <1>2, <2>2, <3>4 DEF FoundUser, Moves, Lifecycle, Issues
      <4> QED
        BY <1>1, <1>2, <1>4, <1>5, <2>2, <3>1, <3>4, <4>1 DEF Bearers, Framed
    <3> QED
      BY <3>2, <3>3, <3>4
  <2>3. ASSUME NEW s \in Request, s \in mailed'
        PROVE  (Is(s, "forgot") /\ pc[s] = "done" /\ user[s] \in registered /\ expiresAt[s] \in Time)'
    <3>1. CASE s \in mailed
      BY <1>2, <1>3, <1>5, <3>1 DEF Bearers
    <3>2. CASE s \notin mailed
      <4>1. s = r /\ pc[r] = "mail" /\ pc'[r] = "done"
        BY <1>1, <2>3, <3>2 DEF Framed
      <4> QED
        BY <1>1, <1>2, <1>5, <4>1 DEF Framed, Lifecycle
    <3> QED
      BY <3>1, <3>2
  <2> QED
    BY <1>2, <2>1, <2>2, <2>3 DEF Bearers
<1>10. Origins'
  <2> SUFFICES ASSUME NEW u \in User
               PROVE  /\ (refreshTokenHash[u] # None =>
                              LET x == refreshTokenHash[u]
                              IN  Issues(x) /\ user[x] = u /\ pc[x] = "done")'
                      /\ (resetTokenHash[u] # None =>
                              LET x == resetTokenHash[u]
                              IN  /\ Is(x, "forgot") /\ user[x] = u /\ pc[x] \in {"mail", "done"}
                                  /\ resetTokenExpiresAt[u] = expiresAt[x])'
    BY DEF Origins
  <2>1. refreshTokenHash[u] \in Request \cup {None} /\ resetTokenHash[u] \in Request \cup {None}
    BY DEF TypeOK
  <2>2. pc[r] = "store" => Issues(r) /\ user'[r] = user[r]
    BY <1>4 DEF Lifecycle
  <2>3. pc[r] = "saveReset" => Is(r, "forgot") /\ user'[r] = user[r]
    BY <1>4 DEF Lifecycle
  <2>4. pc'[r] = "mail" => expiresAt'[r] = expiresAt[r]
    BY <1>1 DEF Framed
  <2>5. pc[r] = "mail" => pc'[r] = "done" /\ expiresAt'[r] = expiresAt[r] /\ user'[r] = user[r]
    BY <1>1, <1>2, <1>4 DEF Framed, Moves, TypeOK, Pc
  <2>6. (refreshTokenHash[u] # None =>
            LET x == refreshTokenHash[u]
            IN  Issues(x) /\ user[x] = u /\ pc[x] = "done")'
    BY <1>2, <1>6, <2>1, <2>2 DEF Origins, Issues
  <2>7. (resetTokenHash[u] # None =>
            LET x == resetTokenHash[u]
            IN  /\ Is(x, "forgot") /\ user[x] = u /\ pc[x] \in {"mail", "done"}
                /\ resetTokenExpiresAt[u] = expiresAt[x])'
    BY <1>2, <1>6, <2>1, <2>3, <2>4, <2>5 DEF Origins
  <2> QED
    BY <2>6, <2>7
<1>11. InsertedOnce'
  <2>2. CASE \E s \in Request : Inserted(s)' /\ ~Inserted(s)
    <3>1. Is(r, "register") /\ pc[r] = "insert" /\ pc'[r] = "store" /\ ~Inserted(r)
      BY <1>1, <1>2, <2>2 DEF Inserted, Moves, Lifecycle
    <3>2. user'[r] = user[r] /\ user[r] \notin registered /\ user[r] \in registered'
      BY <1>1, <1>4, <3>1 DEF Stores, WritesPassword
    <3>3. \A s \in Request : Inserted(s)' => s = r \/ (Inserted(s) /\ user'[s] = user[s])
      BY <1>2 DEF Inserted
    <3> QED
      BY <1>5, <3>1, <3>2, <3>3 DEF InsertedOnce
  <2>3. CASE \A s \in Request : Inserted(s)' => Inserted(s)
    <3>1. \A s \in Request : Inserted(s)' => user'[s] = user[s]
      BY <1>2, <1>4 DEF Inserted
    <3> QED
      BY <1>5, <2>3, <3>1 DEF InsertedOnce
  <2> QED
    BY <2>2, <2>3
<1>12. SpentTokens'
  <2>1. \A s \in Request : user[s] \in User => user'[s] = user[s]
    BY <1>2, <1>4, NoneAssumption
  <2>2. \A s \in Request : /\ Issues(s) \/ Is(s, "logout") => pc[s] = "idle" \/ user[s] \in User
                           /\ HasReplaced(s) => user[s] \in User
    BY DEF Issues, Bearers, FoundUser, HasReplaced, TypeOK
  <2>3. None \notin Request /\ \A s \in Request : None \notin seen[s] /\ r \notin seen[s]
    BY <1>3, NoneAssumption DEF TypeOK
  <2>4. Succeeded(r)' => \/ pc[r] = "store" /\ Issues(r) /\ refreshTokenHash'[user[r]] = r
                         \/ pc[r] = "clear" /\ ~Issues(r) /\ refreshTokenHash'[user[r]] = None
                         \/ Is(r, "forgot")
    BY <1>1, <1>4 DEF Moves, Stores, WritesRefreshToken, Lifecycle, Issues, TypeOK
  <2>5. pc[r] # "find" => user'[r] = user[r]
    BY <1>4
  <2>6. ASSUME NEW s \in Request, SucceededAs(s, "refresh")'
        PROVE  (refreshTokenHash[user[s]] # call[s].secret)'
    <3>1. call[s].secret \in seen[s]
      BY <1>2, <2>6 DEF Bearers
    <3>2. CASE s = r
      BY <1>2, <2>3, <2>4, <2>5, <2>6, <3>1, <3>2 DEF Issues
    <3>3. CASE s # r
      <4>1. SucceededAs(s, "refresh") /\ user[s] \in User /\ user'[s] = user[s]
        BY <1>2, <2>1, <2>2, <2>6, <3>3 DEF Issues, Lifecycle
      <4> QED
        BY <1>2, <1>6, <2>3, <3>1, <4>1 DEF SpentTokens
    <3> QED
      BY <3>2, <3>3
  <2>7. ASSUME NEW s \in Request, (Issues(s) /\ Succeeded(s))' \/ Ends(s)'
        PROVE  (refreshTokenHash[user[s]] \notin seen[s])'
    <3>1. CASE s = r
      BY <1>2, <2>3, <2>4, <2>5, <2>7, <3>1 DEF Issues, Ends
    <3>2. CASE s # r
      <4>1. ((Issues(s) /\ Succeeded(s)) \/ Ends(s)) /\ user[s] \in User /\ user'[s] = user[s]
        BY <1>2, <2>1, <2>2, <2>7, <3>2 DEF Issues, Ends, HasReplaced, Lifecycle
      <4> QED
        BY <1>2, <1>6, <2>3, <4>1 DEF SpentTokens
    <3> QED
      BY <3>1, <3>2
  <2>8. ASSUME NEW s \in Request, HasReplaced(s)'
        PROVE  (passwordHash[user[s]] \notin seen[s])'
    <3>1. CASE HasReplaced(s)
      BY <1>2, <1>6, <2>1, <2>2, <2>3, <3>1 DEF SpentTokens
    <3>2. CASE ~HasReplaced(s)
      <4>1. s = r /\ pc[r] = "password" /\ pc'[r] = "clearReset"
        BY <1>1, <1>2, <2>4, <2>8, <3>2 DEF HasReplaced, Moves, Issues
      <4>2. passwordHash'[user[r]] = r /\ user'[r] = user[r]
        BY <1>1, <1>4, <4>1 DEF Stores, WritesPassword, TypeOK
      <4> QED
        BY <1>2, <2>3, <4>1, <4>2
    <3> QED
      BY <3>1, <3>2
  <2>9. ASSUME NEW s \in Request, HasRedeemed(s)'
        PROVE  (resetTokenHash[user[s]] # call[s].secret)'
    <3>1. call[s].secret \in mailed /\ call[s].secret # r /\ call[s].secret # None
      BY <1>2, <1>3, <2>9, NoneAssumption DEF HasRedeemed, Bearers, TypeOK
    <3>2. CASE HasRedeemed(s)
      BY <1>2, <1>6, <2>1, <2>2, <3>1, <3>2 DEF SpentTokens, HasRedeemed, HasReplaced
    <3>3. CASE ~HasRedeemed(s)
      <4>1. s = r /\ pc[r] = "clearReset" /\ pc'[r] = "clear"
        BY <1>1, <1>2, <2>4, <2>9, <3>3 DEF HasRedeemed, Moves, Issues
      <4>2. resetTokenHash'[user[r]] = None /\ user'[r] = user[r]
        BY <1>1, <1>4, <4>1 DEF Stores, SavesResetToken, ClearsResetToken, TypeOK
      <4> QED
        BY <1>2, <3>1, <4>1, <4>2
    <3> QED
      BY <3>2, <3>3
  <2> QED
    BY <2>6, <2>7, <2>8, <2>9 DEF SpentTokens
<1>17. \A s \in Request : user[s] \in User \/ ~Is(s, "reset") => user'[s] = user[s]
  BY <1>2, <1>4, NoneAssumption
<1>13. SpentIsRefused'
  <2> DEFINE Refused(q, s) ==
               /\ SucceededAs(q, "refresh") /\ Is(s, "refresh") => call[s].secret # call[q].secret
               /\ Ends(q) /\ Is(s, "refresh") /\ user[s] = user[q] => call[s].secret \notin seen[q]
               /\ SucceededAs(q, "reset") /\ Is(s, "login") /\ user[s] = user[q] => call[s].secret \notin seen[q]
               /\ SucceededAs(q, "reset") /\ Is(s, "reset") => call[s].secret # call[q].secret
  <2> SUFFICES ASSUME NEW q \in Request, NEW s \in Request, q \in seen[s], Admitted(s)'
               PROVE  Refused(q, s)'
    BY <1>2 DEF SpentIsRefused
  <2>1. q # r /\ user'[q] = user[q] /\ status'[q] = status[q] /\ call' = call /\ seen' = seen
    BY <1>2, <1>3
  <2>2. CASE Admitted(s)
    <3>1. Refused(q, s)
      BY <2>2 DEF SpentIsRefused
    <3>2. ~Is(s, "reset") => user'[s] = user[s]
      BY <1>17
    <3> QED
      BY <2>1, <3>1, <3>2 DEF Ends
  <2>3. CASE ~Admitted(s)
    <3>1. /\ s = r
          /\ \/ pc'[r] = "store" /\ (pc[r] = "insert" \/ (Is(r, "login") /\ PasswordMatches(r))
                                                     \/ (Is(r, "refresh") /\ TokenMatches(r)))
             \/ /\ pc'[r] = "password" /\ Is(r, "reset")
                /\ user'[r] \in registered /\ resetTokenHash[user'[r]] = call[r].secret
             \/ Is(r, "forgot")
      BY <1>1, <1>2, <2>3 DEF Admitted, Moves, Lifecycle
    <3>2. CASE Is(r, "refresh")
      <4>1. refreshTokenHash[user[r]] = call[r].secret /\ user'[r] = user[r]
        BY <1>17, <3>1, <3>2 DEF TokenMatches, Lifecycle
      <4>2. user[r] = user[call[r].secret]
        BY <3>2 DEF Bearers
      <4>3. /\ SucceededAs(q, "refresh") => /\ refreshTokenHash[user[q]] # call[q].secret
                                            /\ user[q] = user[call[q].secret]
            /\ Ends(q) => refreshTokenHash[user[q]] \notin seen[q]
        BY DEF SpentTokens, Bearers
      <4> QED
        BY <2>1, <3>1, <3>2, <4>1, <4>2, <4>3 DEF Ends
    <3>3. CASE Is(r, "login")
      <4>1. passwordHash[user[r]] = call[r].secret /\ user'[r] = user[r]
        BY <1>17, <3>1, <3>3 DEF PasswordMatches, Lifecycle
      <4>2. SucceededAs(q, "reset") => passwordHash[user[q]] \notin seen[q]
        BY DEF SpentTokens, HasReplaced
      <4> QED
        BY <2>1, <3>1, <3>3, <4>1, <4>2
    <3>4. CASE Is(r, "reset")
      <4>1. user'[r] \in User /\ resetTokenHash[user'[r]] = call[r].secret
        BY <3>1, <3>4 DEF Lifecycle, Issues, TypeOK
      <4>2. call[r].secret # None
        BY <3>4, NoneAssumption DEF Bearers, TypeOK
      <4>3. user'[r] = user[call[r].secret]
        BY <4>1, <4>2 DEF Origins
      <4>4. SucceededAs(q, "reset") => /\ resetTokenHash[user[q]] # call[q].secret
                                      /\ user[q] = user[call[q].secret]
        BY DEF SpentTokens, HasRedeemed, Bearers, FoundUser
      <4> QED
        BY <2>1, <3>1, <3>4, <4>1, <4>3, <4>4
    <3> QED
      BY <2>1, <3>1, <3>2, <3>3, <3>4
  <2> QED
    BY <2>2, <2>3
<1>18. ASSUME NEW f \in Request, user[f] \in User, NEW x \in Request, Rival(x, f)
       PROVE  Rival(x, f)'
  BY <1>2, <1>17, <1>18 DEF Rival
<1>14. MailedIsCurrent'
  <2> SUFFICES ASSUME NEW f \in Request, (pc[f] = "mail" \/ f \in mailed)'
               PROVE  (resetTokenHash[user[f]] = f \/ \E x \in Request : Rival(x, f))'
    BY DEF MailedIsCurrent
  <2>1. CASE pc[f] = "mail" \/ f \in mailed
    <3>1. user[f] \in User /\ user'[f] = user[f]
      BY <1>17, <2>1 DEF Lifecycle, Bearers, TypeOK
    <3>2. resetTokenHash[user[f]] = f \/ \E x \in Request : Rival(x, f)
      BY <2>1 DEF MailedIsCurrent
    <3>3. CASE resetTokenHash'[user[f]] = resetTokenHash[user[f]]
      BY <1>18, <3>1, <3>2, <3>3
    <3>4. CASE resetTokenHash'[user[f]] # resetTokenHash[user[f]]
      <4>1. user[r] = user[f] /\ pc[r] \in {"saveReset", "expired", "clearReset"}
        BY <1>1, <3>1, <3>4 DEF Stores, SavesResetToken, ClearsResetToken, TypeOK
      <4>2. /\ call[r].type \in {"forgot", "reset"} /\ user'[r] = user[r]
            /\ r # f /\ r \notin seen[f]
        BY <1>3, <1>4, <2>1, <4>1 DEF Lifecycle
      <4>3. Rival(r, f)'
        BY <1>2, <3>1, <4>1, <4>2 DEF Rival
      <4> QED
        BY <4>3
    <3> QED
      BY <3>3, <3>4
  <2>2. CASE ~(pc[f] = "mail" \/ f \in mailed)
    <3>1. f = r /\ pc'[r] = "mail" /\ pc[r] = "saveReset"
      BY <1>1, <1>2, <2>2 DEF Framed, Moves
    <3>2. resetTokenHash'[user[r]] = r /\ user'[r] = user[r]
      BY <1>1, <1>4, <3>1 DEF Stores, SavesResetToken, ClearsResetToken, TypeOK
    <3> QED
      BY <3>1, <3>2
  <2> QED
    BY <2>1, <2>2
<1>15. ResetRefusalHasCause'
  <2> SUFFICES ASSUME NEW s \in Request, Is(s, "reset"), status'[s] = "badRequest",
                      NEW f, f = call[s].secret
               PROVE  expiresAt'[f] < clock \/ \E x \in Request \ {s} : Rival(x, f)'
    BY <1>2 DEF ResetRefusalHasCause, Rival
  <2>1. /\ f \in Request /\ f # r /\ expiresAt'[f] = expiresAt[f]
        /\ f \in mailed /\ user[f] \in registered /\ user[f] \in User
    BY <1>2, <1>3 DEF Bearers, TypeOK
  <2>2. CASE s # r
    <3>1. expiresAt[f] < clock \/ \E x \in Request \ {s} : Rival(x, f)
      BY <1>2, <2>2 DEF ResetRefusalHasCause, Rival
    <3> QED
      BY <1>18, <2>1, <3>1
  <2>3. CASE s = r /\ pc[r] = "expired"
    BY <2>1, <2>3 DEF Bearers
  <2>4. CASE s = r /\ pc[r] # "expired"
    <3>1. pc[r] = "find" /\ resetTokenHash[user[f]] # f
      BY <1>1, <2>1, <2>4 DEF Moves
    <3>2. PICK x \in Request : Rival(x, f)
      BY <2>1, <3>1 DEF MailedIsCurrent
    <3>3. x # s
      BY <1>4, <2>1, <2>4, <3>1, <3>2, NoneAssumption DEF Rival
    <3> QED
      BY <1>18, <2>1, <3>2, <3>3
  <2> QED
    BY <2>2, <2>3, <2>4
<1>16. RefreshRefusalHasCause'
  <2> SUFFICES ASSUME NEW s \in Request, status'[s] = "forbidden"
               PROVE  \E x \in Request \ {s, call[s].secret} :
                         Issues(x) /\ user'[x] = user'[s] /\ x \notin seen[call[s].secret]
    BY <1>2 DEF RefreshRefusalHasCause, Issues
  <2>1. \A x \in Request : Issues(x) => user'[x] = user[x]
    BY <1>17 DEF Issues
  <2>2. CASE s # r
    <3>1. status[s] = "forbidden" /\ user'[s] = user[s]
      BY <1>2, <2>2
    <3> QED
      BY <2>1, <3>1 DEF RefreshRefusalHasCause, Issues
  <2>3. CASE s = r
    <3> DEFINE x == refreshTokenHash[user[r]]
    <3>1. Is(r, "refresh") /\ pc[r] = "find" /\ x # None /\ x # call[r].secret
      BY <1>1, <2>3 DEF Moves
    <3>2. user[r] \in User /\ x \in Request
      BY <3>1 DEF Bearers, TypeOK
    <3>3. Issues(x) /\ user[x] = user[r] /\ x # r
      BY <1>2, <3>1, <3>2 DEF Origins
    <3>4. call[r].secret \in Request /\ x \notin seen[call[r].secret]
      BY <3>1 DEF Bearers, SpentTokens, TypeOK
    <3> QED
      BY <2>1, <2>3, <3>1, <3>2, <3>3, <3>4 DEF Issues
  <2> QED
    BY <2>2, <2>3
<1> QED
  BY <1>7, <1>8, <1>9, <1>10, <1>11, <1>12, <1>13, <1>14, <1>15, <1>16

LEMMA NextIInv == IInv /\ [Next]_vars => IInv'
<1> SUFFICES ASSUME IInv, [Next]_vars PROVE IInv'
  OBVIOUS
<1>1. CASE UNCHANGED vars
  BY <1>1 DEF IInv, TypeOK, Lifecycle, Bearers, FoundUser, Origins, InsertedOnce, Inserted, SpentTokens, Ends, HasReplaced,
              HasRedeemed, SpentIsRefused, Admitted, MailedIsCurrent, Rival, ResetRefusalHasCause,
              RefreshRefusalHasCause, Issues, vars, users, columns, handlers
<1>2. CASE Tick
  BY <1>2, TickStep
<1>3. ASSUME NEW r \in Request, Receive(r) PROVE IInv'
  BY <1>3, ReceiveStep
<1>4. ASSUME NEW r \in Request, Handles(r) PROVE IInv'
  BY <1>4, WorkStep
<1> QED
  BY <1>1, <1>2, <1>3, <1>4 DEF Next, Handles

-----------------------------------------------------------------------------
(* The theorems.                                                           *)

\* The inductive invariant holds of every execution.
THEOREM Invariance == Spec => []IInv
<1> QED
  BY InitIInv, NextIInv, PTL DEF Spec

\* The table users and the handlers keep their types; a reset token has an
\* expiry as long as it is there, and whoever has a row has a password.
THEOREM TypeCorrect == Spec => []TypeOK
<1>1. IInv => TypeOK
  BY DEF IInv
<1> QED
  BY <1>1, Invariance, PTL

\* However many registrations of an address overlap, one at most is answered
\* 201, although nobody holds a lock between its SELECT and its INSERT.
THEOREM AccountsAreUnique == Spec => []OneAccountPerEmail
<1>1. IInv => OneAccountPerEmail
  BY DEF IInv, InsertedOnce, Inserted, OneAccountPerEmail
<1> QED
  BY <1>1, Invariance, PTL

\* A refresh token that served does not serve a refresh sent afterwards.
THEOREM RefreshTokensRotate == Spec => []RefreshReuseOverlaps
<1>1. IInv => RefreshReuseOverlaps
  <2> SUFFICES ASSUME IInv, NEW r \in Request, NEW s \in Request,
                      SucceededAs(r, "refresh"), SucceededAs(s, "refresh"), call[r].secret = call[s].secret
               PROVE  Overlap(r, s)
    BY DEF RefreshReuseOverlaps
  <2>1. Admitted(r) /\ Admitted(s)
    BY DEF Admitted
  <2> QED
    BY <2>1 DEF IInv, SpentIsRefused, Overlap
<1> QED
  BY <1>1, Invariance, PTL

\* After a logout or a reset the tokens of before are dead for good.
THEOREM SessionsEnd == Spec => []EndedSessionsStayEnded
<1>1. IInv => EndedSessionsStayEnded
  BY DEF IInv, SpentIsRefused, Admitted, Ends, EndedSessionsStayEnded
<1> QED
  BY <1>1, Invariance, PTL

\* After a reset the passwords of before are dead for good.
THEOREM PasswordsEnd == Spec => []ReplacedPasswordsStayDead
<1>1. IInv => ReplacedPasswordsStayDead
  BY DEF IInv, SpentIsRefused, Admitted, ReplacedPasswordsStayDead
<1> QED
  BY <1>1, Invariance, PTL

\* A reset token that served does not serve a reset sent afterwards.
THEOREM ResetTokensServeOnce == Spec => []ResetReuseOverlaps
<1>1. IInv => ResetReuseOverlaps
  <2> SUFFICES ASSUME IInv, NEW r \in Request, NEW s \in Request,
                      SucceededAs(r, "reset"), SucceededAs(s, "reset"), call[r].secret = call[s].secret
               PROVE  Overlap(r, s)
    BY DEF ResetReuseOverlaps
  <2>1. Admitted(r) /\ Admitted(s)
    BY DEF Admitted
  <2> QED
    BY <2>1 DEF IInv, SpentIsRefused, Overlap
<1> QED
  BY <1>1, Invariance, PTL

\* A reset is refused for its token only for a reason its sender can know of.
THEOREM ResetRefusalsHaveCauses == Spec => []ResetRefusalHasCause
<1>1. IInv => ResetRefusalHasCause
  BY DEF IInv
<1> QED
  BY <1>1, Invariance, PTL

\* A refresh is refused as not matching only for a reason of that kind.
THEOREM RefreshRefusalsHaveCauses == Spec => []RefreshRefusalHasCause
<1>1. IInv => RefreshRefusalHasCause
  BY DEF IInv
<1> QED
  BY <1>1, Invariance, PTL

-----------------------------------------------------------------------------
(* How far the violations of RegisterAnswers, ClearsExpiredToken and        *)
(* LogoutInvalidates go: each takes two requests that overlap.              *)

\* Without faults a 500 goes to a registration beside another of its address.
RegistrationRace ==
    Faults = {} =>
        \A r \in Request :
            status[r] = "error" =>
                /\ Is(r, "register")
                /\ \E s \in Request \ {r} : Is(s, "register") /\ user[s] = user[r] /\ Overlap(r, s)

\* What a reset with an expired token is about to clear is that token, or was
\* mailed by a request that overlaps the reset.
ClearedTokenOverlaps ==
    \A r \in Request :
        pc[r] = "expired" =>
            LET x == resetTokenHash[user[r]]
            IN  x \in {call[r].secret, None} \/ (Is(x, "forgot") /\ Overlap(r, x))

\* A session of before a logout outlives it only in a refresh that overlaps it.
LogoutOutlivedByOverlap ==
    \A l, s \in Request :
        /\ SucceededAs(l, "logout")
        /\ SucceededAs(s, "refresh") /\ user[s] = user[l] /\ Follows(l, call[s].secret)
        /\ refreshTokenHash[user[s]] = s
        => Overlap(l, s)

\* The row that an INSERT is about to run into came from a registration that
\* was not over when this one arrived, for it found no row.
InsertRaces ==
    \A r \in Request :
        pc[r] = "insert" /\ user[r] \in registered =>
            \E s \in Request \ {r} : Is(s, "register") /\ user[s] = user[r] /\ Overlap(r, s)

\* Who arrives and who answers leaves the requests there are as they are.
LEMMA KeepsOverlap ==
    ASSUME IInv, [Next]_vars, NEW r \in Request, NEW s \in Request, pc[r] # "idle", pc[s] # "idle"
    PROVE  /\ call'[r] = call[r] /\ call'[s] = call[s]
           /\ Overlap(r, s) => Overlap(r, s)'
           /\ ~Is(r, "reset") => user'[r] = user[r]
<1>1. ASSUME NEW x \in Request, Receive(x) PROVE x # r /\ x # s /\ UNCHANGED <<call[r], call[s], seen[r], seen[s], user[r]>>
  BY <1>1 DEF Receive, IInv, TypeOK
<1>2. ASSUME NEW x \in Request, Handles(x)
      PROVE  /\ UNCHANGED <<call, seen>>
             /\ ~Is(r, "reset") => user'[r] = user[r]
  <2>1. Framed(x) /\ Moves(x)
    BY <1>2, HandlerStep
  <2> QED
    BY <2>1 DEF Framed, Moves, IInv, Lifecycle
<1>3. CASE UNCHANGED vars \/ Tick
  BY <1>3 DEF vars, Tick, handlers, Overlap
<1> QED
  BY <1>1, <1>2, <1>3 DEF Next, Handles, Overlap

LEMMA RacesStep ==
    ASSUME IInv, InsertRaces, [Next]_vars
    PROVE  InsertRaces'
<1> SUFFICES ASSUME NEW r \in Request, pc'[r] = "insert", user'[r] \in registered'
             PROVE  \E s \in Request \ {r} : (Is(s, "register") /\ user[s] = user[r] /\ Overlap(r, s))'
  BY DEF InsertRaces
<1>1. CASE UNCHANGED vars \/ Tick
  BY <1>1 DEF InsertRaces, vars, Tick, users, columns, handlers, Overlap
<1>2. ASSUME NEW x \in Request, Receive(x)
      PROVE  \E s \in Request \ {r} : (Is(s, "register") /\ user[s] = user[r] /\ Overlap(r, s))'
  <2>1. x # r /\ pc[r] = "insert" /\ user'[r] = user[r] /\ user[r] \in registered
    BY <1>2 DEF Receive, IInv, TypeOK, users
  <2>2. PICK s \in Request \ {r} : Is(s, "register") /\ user[s] = user[r] /\ Overlap(r, s)
    BY <2>1 DEF InsertRaces
  <2>3. pc[s] # "idle" /\ ~Is(s, "reset") /\ ~Is(r, "reset")
    BY <2>1, <2>2 DEF IInv, Lifecycle, NoCall
  <2>4. call'[s] = call[s] /\ user'[s] = user[s] /\ Overlap(r, s)'
    BY <2>1, <2>2, <2>3, KeepsOverlap DEF Overlap
  <2> QED
    BY <2>1, <2>2, <2>4
<1>3. ASSUME NEW x \in Request, Handles(x)
      PROVE  \E s \in Request \ {r} : (Is(s, "register") /\ user[s] = user[r] /\ Overlap(r, s))'
  <2>1. Framed(x) /\ Moves(x) /\ Stores(x)
    BY <1>3, HandlerStep
  <2>2. pc[r] # "idle" /\ Is(r, "register") /\ user'[r] = user[r] /\ call' = call /\ seen' = seen
    BY <2>1 DEF Framed, Moves, IInv, Lifecycle
  <2>3. ASSUME NEW s \in Request \ {r}, Is(s, "register"), user[s] = user[r], Overlap(r, s)
        PROVE  (Is(s, "register") /\ user[s] = user[r] /\ Overlap(r, s))'
    <3>1. pc[s] # "idle"
      BY <2>3 DEF IInv, Lifecycle, NoCall
    <3>2. user'[s] = user[s]
      BY <2>3, <3>1, KeepsOverlap
    <3> QED
      BY <2>2, <2>3, <3>2 DEF Overlap
  <2>4. CASE x = r
    <3>1. pc[r] = "find" /\ user[r] \notin registered /\ UNCHANGED registered
      BY <1>3, <2>1, <2>2, <2>4 DEF Moves, Handles, Step, register, login, refresh, issueTokens, clear, forgotPassword,
         resetPassword, findResetToken, clearExpiredToken, setPassword, clearResetToken, JwtExpired, HandlerFails,
         ReplyLost, EnqueueFails, Goto, Answer, Read, users, IInv, TypeOK
    <3> QED
      BY <2>2, <3>1
  <2>5. CASE x # r /\ user[r] \in registered
    <3>1. pc[r] = "insert"
      BY <2>1, <2>5 DEF Framed
    <3> QED
      BY <2>3, <2>5, <3>1 DEF InsertRaces
  <2>6. CASE x # r /\ user[r] \notin registered
    <3>1. pc[r] = "insert" /\ WritesPassword(x) /\ user[x] = user[r]
      BY <2>1, <2>2, <2>6 DEF Framed, Stores, WritesPassword
    <3>2. pc[x] = "insert" /\ Is(x, "register")
      BY <2>6, <3>1 DEF WritesPassword, IInv, Lifecycle, Bearers, FoundUser
    <3>3. Overlap(r, x)
      BY <3>1, <3>2 DEF Overlap, IInv, Lifecycle
    <3> QED
      BY <2>3, <2>6, <3>1, <3>2, <3>3
  <2> QED
    BY <2>4, <2>5, <2>6
<1> QED
  BY <1>1, <1>2, <1>3 DEF Next, Handles

\* A registration is answered with a 500 only beside another of its address
\* that was not over when it came: one that comes later gets its 409.
THEOREM RegistrationsRace == Spec => []RegistrationRace
<1>1. Init => InsertRaces /\ RegistrationRace
  BY DEF Init, InsertRaces, RegistrationRace
<1>2. ASSUME IInv, InsertRaces, RegistrationRace, [Next]_vars, Faults = {} PROVE RegistrationRace'
  <2> SUFFICES ASSUME NEW r \in Request, status'[r] = "error"
               PROVE  /\ call'[r].type = "register"
                      /\ \E s \in Request \ {r} :
                            call'[s].type = "register" /\ user'[s] = user'[r] /\ Overlap(r, s)'
    BY DEF RegistrationRace
  <2>1. \/ status[r] = "error"
        \/ pc[r] = "insert" /\ user[r] \in registered
    BY <1>2 DEF IInv, TypeOK, Next, vars, handlers, Tick, Receive, Step, register, login, refresh, issueTokens, clear,
       forgotPassword, resetPassword, findResetToken, clearExpiredToken, setPassword, clearResetToken, JwtExpired,
       HandlerFails, ReplyLost, EnqueueFails, Goto, Answer
  <2>2. /\ Is(r, "register") /\ pc[r] # "idle"
        /\ \E s \in Request \ {r} : Is(s, "register") /\ user[s] = user[r] /\ Overlap(r, s)
    BY <1>2, <2>1 DEF InsertRaces, RegistrationRace, IInv, Lifecycle
  <2>3. PICK s \in Request \ {r} : Is(s, "register") /\ user[s] = user[r] /\ Overlap(r, s)
    BY <2>2
  <2>4. pc[s] # "idle"
    BY <1>2, <2>3 DEF IInv, Lifecycle, NoCall
  <2>5. call'[r] = call[r] /\ call'[s] = call[s] /\ user'[r] = user[r] /\ user'[s] = user[s] /\ Overlap(r, s)'
    BY <1>2, <2>2, <2>3, <2>4, KeepsOverlap
  <2> QED
    BY <2>2, <2>3, <2>5
<1>3. IInv /\ InsertRaces /\ RegistrationRace /\ [Next]_vars => InsertRaces' /\ RegistrationRace'
  BY <1>2, RacesStep DEF RegistrationRace
<1> QED
  BY <1>1, <1>3, Invariance, PTL DEF Spec

\* "Clear expired token" removes no token that was mailed by a request over
\* before the reset arrived, or asked for after it was answered.
THEOREM ClearedTokensOverlap == Spec => []ClearedTokenOverlaps
<1>1. Init => ClearedTokenOverlaps
  BY DEF Init, ClearedTokenOverlaps
<1>2. ASSUME IInv, ClearedTokenOverlaps, [Next]_vars PROVE ClearedTokenOverlaps'
  <2> SUFFICES ASSUME NEW r \in Request, pc'[r] = "expired"
               PROVE  LET x == resetTokenHash'[user'[r]]
                      IN  \/ x \in {call'[r].secret, None}
                          \/ call'[x].type = "forgot" /\ x \notin seen'[r] /\ r \notin seen'[x]
    BY DEF ClearedTokenOverlaps, Overlap
  <2> DEFINE May(x) == \/ x \in {call'[r].secret, None}
                       \/ call'[x].type = "forgot" /\ x \notin seen'[r] /\ r \notin seen'[x]
  <2>1. CASE UNCHANGED vars \/ Tick
    BY <1>2, <2>1 DEF ClearedTokenOverlaps, vars, Tick, users, columns, handlers, Overlap
  <2>2. ASSUME NEW y \in Request, Receive(y)
        PROVE  May(resetTokenHash'[user'[r]])
    <3> DEFINE x == resetTokenHash[user[r]]
    <3>1. /\ y # r /\ pc[r] = "expired" /\ user'[r] = user[r] /\ call'[r] = call[r]
          /\ resetTokenHash' = resetTokenHash
      BY <1>2, <2>2 DEF Receive, IInv, TypeOK, users, columns
    <3>2. user[r] \in User /\ (x # None => x \in Request /\ pc[x] # "idle")
      BY <1>2, <3>1 DEF IInv, TypeOK, Lifecycle, Bearers, FoundUser, Origins
    <3>3. x # None => call'[x] = call[x] /\ (Overlap(r, x) => Overlap(r, x)')
      BY <1>2, <3>1, <3>2, KeepsOverlap DEF Overlap
    <3> QED
      BY <1>2, <3>1, <3>3 DEF ClearedTokenOverlaps, Overlap
  <2>3. ASSUME NEW y \in Request, Handles(y)
        PROVE  May(resetTokenHash'[user'[r]])
    <3>1. Framed(y) /\ Moves(y) /\ Stores(y)
      BY <1>2, <2>3, HandlerStep
    <3>2. call' = call /\ seen' = seen
      BY <3>1 DEF Framed
    <3>3. CASE y = r
      <4>1. /\ pc[r] = "find" /\ user'[r] \in registered /\ resetTokenHash[user'[r]] = call[r].secret
            /\ resetTokenHash' = resetTokenHash
        BY <3>1, <3>3 DEF Moves, Stores, SavesResetToken, ClearsResetToken
      <4> QED
        BY <3>2, <4>1
    <3>4. CASE y # r
      <4>1. pc[r] = "expired" /\ user'[r] = user[r] /\ user[r] \in User
        BY <1>2, <3>1, <3>4 DEF Framed, IInv, TypeOK, Lifecycle, Bearers, FoundUser
      <4>2. CASE UNCHANGED resetTokenHash
        BY <1>2, <3>2, <4>1, <4>2 DEF ClearedTokenOverlaps, Overlap
      <4>3. CASE SavesResetToken(y)
        <5>1. Is(y, "forgot") /\ Overlap(r, y)
          BY <1>2, <4>1, <4>3 DEF SavesResetToken, Overlap, IInv, Lifecycle
        <5>2. resetTokenHash'[user[r]] \in {y, resetTokenHash[user[r]]}
          BY <1>2, <4>1, <4>3 DEF SavesResetToken, IInv, TypeOK
        <5> QED
          BY <1>2, <3>2, <4>1, <5>1, <5>2 DEF ClearedTokenOverlaps, Overlap
      <4>4. CASE ClearsResetToken(y)
        <5>1. resetTokenHash'[user[r]] \in {None, resetTokenHash[user[r]]}
          BY <1>2, <4>1, <4>4 DEF ClearsResetToken, IInv, TypeOK
        <5> QED
          BY <1>2, <3>2, <4>1, <5>1 DEF ClearedTokenOverlaps, Overlap
      <4> QED
        BY <3>1, <4>2, <4>3, <4>4 DEF Stores
    <3> QED
      BY <3>3, <3>4
  <2> QED
    BY <1>2, <2>1, <2>2, <2>3 DEF Next, Handles
<1>3. IInv /\ ClearedTokenOverlaps /\ [Next]_vars => ClearedTokenOverlaps'
  BY <1>2
<1> QED
  BY <1>1, <1>3, Invariance, PTL DEF Spec

\* A logout misses no session but one that a refresh is just then renewing.
THEOREM LogoutsAreOutlivedByOverlap == Spec => []LogoutOutlivedByOverlap
<1>1. IInv => LogoutOutlivedByOverlap
  <2> SUFFICES ASSUME IInv, NEW l \in Request, NEW s \in Request,
                      SucceededAs(l, "logout"), SucceededAs(s, "refresh"), user[s] = user[l],
                      Follows(l, call[s].secret), refreshTokenHash[user[s]] = s
               PROVE  Overlap(l, s)
    BY DEF LogoutOutlivedByOverlap
  <2>1. ~Follows(s, l)
    BY DEF IInv, SpentIsRefused, Admitted, Ends
  <2>2. ~Follows(l, s)
    BY DEF IInv, SpentTokens, Ends
  <2> QED
    BY <2>1, <2>2 DEF Overlap
<1> QED
  BY <1>1, Invariance, PTL
=============================================================================
