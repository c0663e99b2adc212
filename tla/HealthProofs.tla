---------------------------- MODULE HealthProofs ----------------------------
(***************************************************************************)
(* What a health check answers, for any number of checks, retries and      *)
(* outages.                                                                *)
(***************************************************************************)
EXTENDS Health, FiniteSetTheorems, TLAPS

-----------------------------------------------------------------------------
(* The inductive invariant.                                                *)

Types ==
    /\ server \in [Dependency -> {"up", "down", "loading"}]
    /\ pc \in [Check -> {"idle", "connect", "ping", "quit", "done"}]
    /\ client \in [Check -> {"wait", "connecting", "ready", "reconnecting", "end"}]
    /\ socket \in [Check -> BOOLEAN]
    /\ verdict \in [Check -> [Dependency -> {"up", "down", Null}]]
    /\ DOMAIN answer = Check
    /\ seen \in [Check -> [Dependency -> SUBSET {"up", "down"}]]

\* As long as a check lasts, what is could be found out.
NowIsSeen ==
    \A c \in Check : pc[c] # "idle" /\ answer[c] = Null => \A d \in Dependency : Found(d) \in seen[c][d]

\* A check that waits for a connection it had, or could not get, saw Redis down.
LossIsSeen ==
    \A c \in Check : pc[c] = "ping" /\ client[c] = "ready" /\ ~socket[c] => "down" \in seen[c]["redis"]

\* What was found out could be.
VerdictIsSeen ==
    \A c \in Check :
        /\ verdict[c]["database"] # Null => verdict[c]["database"] \in seen[c]["database"]
        /\ pc[c] \in {"quit", "done"} => verdict[c]["redis"] \in seen[c]["redis"]

\* How a check and its client go together.
Lifecycle ==
    \A c \in Check :
        /\ pc[c] = "idle" => verdict[c]["database"] = Null /\ ~socket[c]
        /\ answer[c] # Null => pc[c] = "done" /\ verdict[c]["database"] # Null
        /\ client[c] = "wait" <=> pc[c] = "idle"
        /\ pc[c] = "connect" => client[c] = "connecting"
        /\ pc[c] = "done" => client[c] = "end"

IInv == Types /\ NowIsSeen /\ LossIsSeen /\ VerdictIsSeen /\ Lifecycle /\ AnswersHaveCause

-----------------------------------------------------------------------------
(* What comes out of the pipeline.                                         *)

LEMMA FoundType == \A d \in Dependency : Found(d) \in {"up", "down"}
BY DEF Found

\* The answer to a check, with or without a valid token.
Report(auth, checks) == respond(TRUE, auth, outcome(checks))

\* A 200 carries the findings as its data: no pipe takes them for an envelope.
LEMMA GoodNews ==
    ASSUME NEW checks \in [Dependency -> {"up", "down"}], status(checks) = "ok", NEW auth \in BOOLEAN
    PROVE  /\ Report(auth, checks).status = 200
           /\ Report(auth, checks).data.checks = checks
<1> DEFINE value == [status |-> "ok", checks |-> checks]
           payload == [shape |-> "record", records |-> {"checks"}, value |-> value]
<1>1. outcome(checks) = [threw |-> Null, status |-> 200, payload |-> payload]
  BY DEF outcome
<1>2. ~isEnvelopeLike(value)
  <2>1. {"data", "meta", "errors"} \cap DOMAIN value = {}
    OBVIOUS
  <2> QED
    BY <2>1, FS_EmptySet DEF isEnvelopeLike
<1>3. wrap(200, payload) = createEnvelope(200, value, NoFields)
  <2>1. payload.shape = "record" /\ payload.value = value
    OBVIOUS
  <2> HIDE DEF payload, value
  <2> QED
    BY <1>2, <2>1 DEF wrap
<1>4. Report(auth, checks) = createEnvelope(200, value, NoFields)
  <2>1. canActivate(TRUE, auth)
    BY DEF canActivate
  <2>2. /\ outcome(checks).threw = Null /\ outcome(checks).status = 200
        /\ outcome(checks).payload = payload
    BY <1>1
  <2> QED
    BY <1>3, <2>1, <2>2 DEF respond, Report
<1>5. value.checks = checks
  OBVIOUS
<1> HIDE DEF value
<1>6. createEnvelope(200, value, NoFields).status = 200 /\ createEnvelope(200, value, NoFields).data = value
  BY DEF createEnvelope
<1> QED
  BY <1>4, <1>5, <1>6

\* A 503 carries them among the details of its error.
LEMMA BadNews ==
    ASSUME NEW checks \in [Dependency -> {"up", "down"}], status(checks) = "error", NEW auth \in BOOLEAN
    PROVE  /\ Report(auth, checks).status = 503
           /\ Report(auth, checks).errors.extracted.details.checks = checks
<1> DEFINE body == [message |-> "Dependency health check failed", checks |-> checks]
           x == [shape |-> "message", status |-> 503, body |-> body]
<1>1. outcome(checks) = [threw |-> x] /\ outcome(checks).threw = x /\ x # Null
  <2>1. outcome(checks) = [threw |-> x]
    BY DEF outcome
  <2>2. outcome(checks).threw # Null
    BY NullAssumption
  <2> HIDE DEF x
  <2> QED
    BY <2>1, <2>2
<1>2. Report(auth, checks) = catch(x)
  <2>1. canActivate(TRUE, auth)
    BY DEF canActivate
  <2> HIDE DEF x
  <2> QED
    BY <1>1, <2>1 DEF respond, Report
<1>3. cleanErrorDetails(body).checks = checks
  <2>1. DOMAIN body \ {"message", "statusCode", "error"} = {"checks"}
    OBVIOUS
  <2>2. body.checks = checks
    OBVIOUS
  <2> HIDE DEF body
  <2> QED
    BY <2>1, <2>2 DEF cleanErrorDetails
<1>4. extractErrorDetails(x) = [message |-> x.body.message, details |-> cleanErrorDetails(x.body)]
  <2>1. x.shape = "message"
    OBVIOUS
  <2> HIDE DEF x
  <2> QED
    BY <2>1 DEF extractErrorDetails
<1>5. x.status = 503 /\ x.body = body
  OBVIOUS
<1> HIDE DEF x, body
<1>6. catch(x).status = x.status /\ catch(x).errors.extracted = extractErrorDetails(x)
  BY DEF catch
<1>7. extractErrorDetails(x).details = cleanErrorDetails(body)
  BY <1>4, <1>5
<1> QED
  BY <1>2, <1>3, <1>5, <1>6, <1>7

\* What an answer tells, and that it tells it.
Told(r) == IF r.status = 200 THEN r.data.checks ELSE r.errors.extracted.details.checks

LEMMA AnswersTell ==
    ASSUME NEW checks \in [Dependency -> {"up", "down"}], NEW auth \in BOOLEAN,
           NEW r, r = Report(auth, checks)
    PROVE  /\ Told(r) = checks
           /\ r.status = IF \A d \in Dependency : checks[d] = "up" THEN 200 ELSE 503
<1>1. CASE \A d \in Dependency : checks[d] = "up"
  <2>1. status(checks) = "ok"
    BY <1>1 DEF status
  <2>2. r.status = 200 /\ r.data.checks = checks
    BY <2>1, GoodNews
  <2> QED
    BY <1>1, <2>2 DEF Told
<1>2. CASE ~ \A d \in Dependency : checks[d] = "up"
  <2>1. status(checks) = "error"
    BY <1>2 DEF status
  <2>2. r.status = 503 /\ r.errors.extracted.details.checks = checks
    BY <2>1, BadNews
  <2> QED
    BY <1>2, <2>2 DEF Told
<1> QED
  BY <1>1, <1>2

-----------------------------------------------------------------------------
(* The steps.                                                              *)

LEMMA InitIInv == Init => IInv
<1> SUFFICES ASSUME Init PROVE IInv
  OBVIOUS
<1>1. Types
  <2>1. socket \in [Check -> BOOLEAN]
    BY DEF Init
  <2> QED
    BY <2>1 DEF Init, Types, Dependency
<1>2. NowIsSeen /\ LossIsSeen /\ VerdictIsSeen /\ Lifecycle /\ AnswersHaveCause
  BY DEF Init, NowIsSeen, LossIsSeen, VerdictIsSeen, Lifecycle, AnswersHaveCause, Dependency
<1> QED
  BY <1>1, <1>2 DEF IInv

\* A server changes, and every check under way could find out.
LEMMA ChangeStep == IInv /\ Change => IInv'
<1> SUFFICES ASSUME IInv, Change PROVE IInv'
  OBVIOUS
<1> USE DEF IInv
<1>1. PICK d \in Dependency, s \in {"up", "down", "loading"} :
        /\ server' = [server EXCEPT ![d] = s]
        /\ socket' = IF d = "redis" /\ s = "down" THEN [c \in Check |-> FALSE] ELSE socket
  BY DEF Change
<1>2. UNCHANGED <<pc, client, verdict, answer>>
  BY DEF Change
<1> DEFINE Idle(c) == pc[c] = "idle" \/ answer[c] # Null
<1>3. \A c \in Check : /\ Idle(c) => seen'[c] = seen[c]
                       /\ ~Idle(c) => \A e \in Dependency : seen'[c][e] = seen[c][e] \cup {Found(e)'}
  BY DEF Change
<1>4. \A e \in Dependency : Found(e)' \in {"up", "down"}
  BY DEF Found
<1>5. Types'
  <2>1. socket' \in [Check -> BOOLEAN]
    BY <1>1 DEF Types
  <2>2. server' \in [Dependency -> {"up", "down", "loading"}]
    BY <1>1 DEF Types
  <2>3. seen' \in [Check -> [Dependency -> SUBSET {"up", "down"}]]
    BY <1>4 DEF Change, Types
  <2> QED
    BY <1>2, <2>1, <2>2, <2>3 DEF Types
<1>6. \A c \in Check, e \in Dependency : seen[c][e] \subseteq seen'[c][e]
  BY <1>3
<1>7. NowIsSeen'
  BY <1>2, <1>3 DEF NowIsSeen
<1>8. LossIsSeen'
  <2> SUFFICES ASSUME NEW c \in Check, pc[c] = "ping", client[c] = "ready", ~socket'[c]
               PROVE  "down" \in seen'[c]["redis"]
    BY <1>2 DEF LossIsSeen
  <2>1. "redis" \in Dependency /\ ~Idle(c)
    BY DEF Dependency, Lifecycle
  <2>2. CASE ~socket[c]
    BY <1>6, <2>1, <2>2 DEF LossIsSeen
  <2>3. CASE socket[c]
    <3>1. server'["redis"] = "down"
      BY <1>1, <2>1, <2>3 DEF Types
    <3>2. Found("redis")' = "down"
      BY <3>1 DEF Found
    <3> QED
      BY <1>3, <2>1, <3>2
  <2> QED
    BY <2>2, <2>3
<1>9. VerdictIsSeen'
  BY <1>2, <1>6 DEF VerdictIsSeen, Dependency
<1>10. Lifecycle'
  <2>1. \A c \in Check : ~socket[c] => ~socket'[c]
    BY <1>1
  <2> QED
    BY <1>2, <2>1 DEF Lifecycle
<1>11. AnswersHaveCause'
  BY <1>2, <1>6 DEF AnswersHaveCause
<1> QED
  BY <1>5, <1>7, <1>8, <1>9, <1>10, <1>11

\* A step of the check c that does not answer it keeps what it keeps for c.
LEMMA CheckSuffices ==
    ASSUME IInv, NEW c \in Check, Types', UNCHANGED <<server, answer>>, answer[c] = Null,
           \A b \in Check : b # c => /\ pc'[b] = pc[b] /\ client'[b] = client[b] /\ socket'[b] = socket[b]
                                     /\ verdict'[b] = verdict[b] /\ seen'[b] = seen[b],
           pc'[c] # "idle", client'[c] # "wait",
           \A d \in Dependency : Found(d) \in seen'[c][d],
           pc'[c] = "ping" /\ client'[c] = "ready" /\ ~socket'[c] => "down" \in seen'[c]["redis"],
           verdict'[c]["database"] # Null => verdict'[c]["database"] \in seen'[c]["database"],
           pc'[c] \in {"quit", "done"} => verdict'[c]["redis"] \in seen'[c]["redis"],
           pc'[c] = "connect" => client'[c] = "connecting",
           pc'[c] = "done" => client'[c] = "end"
    PROVE  IInv'
<1> USE DEF IInv
<1>1. NowIsSeen'
  BY DEF NowIsSeen, Found
<1>2. LossIsSeen' /\ VerdictIsSeen'
  BY DEF LossIsSeen, VerdictIsSeen
<1>3. Lifecycle'
  BY DEF Lifecycle
<1>4. AnswersHaveCause'
  BY DEF AnswersHaveCause
<1> QED
  BY <1>1, <1>2, <1>3, <1>4

\* A check begins, or its Redis client or its queries go on: no answer yet.
LEMMA CheckStep ==
    ASSUME IInv, NEW c \in Check,
           check(c) \/ checkDatabase(c) \/ connected(c) \/ closed(c) \/ reconnect(c) \/ ping(c) \/ quit(c)
    PROVE  IInv'
<1> USE DEF IInv
<1>1. /\ server' = server /\ answer' = answer
      /\ \A b \in Check : b # c => /\ pc'[b] = pc[b] /\ client'[b] = client[b] /\ socket'[b] = socket[b]
                                   /\ verdict'[b] = verdict[b] /\ seen'[b] = seen[b]
  BY DEF check, checkDatabase, connected, closed, reconnect, ping, quit, release, redisSide, Types
<1>2. answer[c] = Null
  BY DEF check, checkDatabase, connected, closed, reconnect, ping, quit, Lifecycle
<1>3. "database" \in Dependency /\ "redis" \in Dependency /\ \A d \in Dependency : Found(d) \in {"up", "down"}
  BY FoundType DEF Dependency
<1>4. pc[c] # "idle" => \A d \in Dependency : Found(d) \in seen[c][d]
  BY <1>2 DEF NowIsSeen
<1>5. ASSUME check(c) PROVE IInv'
  <2>1. /\ pc[c] = "idle" /\ pc'[c] = "connect" /\ client'[c] = "connecting"
        /\ verdict' = verdict /\ socket' = socket /\ seen'[c] = [d \in Dependency |-> {Found(d)}]
    BY <1>5 DEF check, Types
  <2>2. Types'
    <3>1. seen' \in [Check -> [Dependency -> SUBSET {"up", "down"}]]
      BY <1>3, <1>5 DEF check, Types
    <3> QED
      BY <1>5, <3>1 DEF check, Types
  <2>3. verdict[c]["database"] = Null
    BY <2>1 DEF Lifecycle
  <2> QED
    BY <1>1, <1>2, <2>1, <2>2, <2>3, CheckSuffices
<1>6. ASSUME checkDatabase(c) PROVE IInv'
  <2>1. /\ pc[c] # "idle" /\ UNCHANGED <<pc, client, socket, seen>>
        /\ verdict'[c]["database"] = Found("database") /\ verdict'[c]["redis"] = verdict[c]["redis"]
    BY <1>3, <1>6 DEF checkDatabase, redisSide, Types
  <2>2. Types'
    BY <1>3, <1>6 DEF checkDatabase, redisSide, Types
  <2> QED
    BY <1>1, <1>2, <1>3, <1>4, <2>1, <2>2, CheckSuffices DEF LossIsSeen, VerdictIsSeen, Lifecycle
<1>7. ASSUME connected(c) PROVE IInv'
  <2>1. /\ client[c] = "connecting" /\ client'[c] = "ready" /\ socket'[c]
        /\ pc'[c] = IF pc[c] = "connect" THEN "ping" ELSE pc[c]
        /\ verdict' = verdict /\ seen' = seen
    BY <1>7 DEF connected, Types
  <2>2. Types'
    BY <1>7 DEF connected, Types
  <2>3. pc[c] \notin {"idle", "done"}
    BY <2>1 DEF Lifecycle
  <2> QED
    BY <1>1, <1>2, <1>4, <2>1, <2>2, <2>3, CheckSuffices DEF VerdictIsSeen
<1>8. ASSUME closed(c) PROVE IInv'
  <2>1. /\ seen' = seen /\ socket' = socket
        /\ \/ client[c] = "connecting" /\ server["redis"] = "down"
           \/ client[c] = "ready" /\ ~socket[c] /\ pc[c] # "quit"
    BY <1>8 DEF closed
  <2>2. pc[c] \in {"connect", "ping", "quit"}
    BY <2>1 DEF Types, Lifecycle
  <2>3. "down" \in seen[c]["redis"]
    <3>1. CASE server["redis"] = "down"
      BY <1>3, <1>4, <2>2, <3>1 DEF Found
    <3>2. CASE client[c] = "ready" /\ ~socket[c] /\ pc[c] # "quit"
      <4>1. pc[c] = "ping"
        BY <2>2, <3>2 DEF Lifecycle
      <4> QED
        BY <3>2, <4>1 DEF LossIsSeen
    <3> QED
      BY <2>1, <3>1, <3>2
  <2>4. CASE GivesUp(c)
    <3>1. /\ verdict' = [verdict EXCEPT ![c].redis = "down"]
          /\ pc' = [pc EXCEPT ![c] = "done"] /\ client' = [client EXCEPT ![c] = "end"]
      BY <1>8, <2>4 DEF closed, release
    <3>2. /\ pc'[c] = "done" /\ client'[c] = "end"
          /\ verdict'[c]["redis"] = "down" /\ verdict'[c]["database"] = verdict[c]["database"]
      BY <1>3, <3>1 DEF Types
    <3>3. Types'
      BY <1>1, <1>3, <2>1, <3>1 DEF Types
    <3> QED
      BY <1>1, <1>2, <1>4, <2>1, <2>2, <2>3, <3>2, <3>3, CheckSuffices DEF VerdictIsSeen
  <2>5. CASE ~GivesUp(c)
    <3>1. client' = [client EXCEPT ![c] = "reconnecting"] /\ pc' = pc /\ verdict' = verdict
      BY <1>8, <2>5 DEF closed
    <3>2. pc[c] # "connect" /\ client'[c] = "reconnecting"
      BY <2>5, <3>1 DEF GivesUp, Types
    <3>3. Types'
      BY <1>1, <2>1, <3>1 DEF Types
    <3> QED
      BY <1>1, <1>2, <1>4, <2>1, <2>2, <3>1, <3>2, <3>3, CheckSuffices DEF VerdictIsSeen
  <2> QED
    BY <2>4, <2>5
<1>9. ASSUME reconnect(c) PROVE IInv'
  <2>1. /\ client[c] = "reconnecting" /\ client'[c] = "connecting"
        /\ UNCHANGED <<pc, socket, verdict, seen>>
    BY <1>9 DEF reconnect, Types
  <2>2. Types'
    BY <1>9 DEF reconnect, Types
  <2>3. pc[c] \notin {"idle", "done"}
    BY <2>1 DEF Lifecycle
  <2> QED
    BY <1>1, <1>2, <1>4, <2>1, <2>2, <2>3, CheckSuffices DEF VerdictIsSeen
<1>10. ASSUME ping(c) PROVE IInv'
  <2>1. /\ pc[c] = "ping" /\ pc'[c] = "quit" /\ client'[c] = "ready" /\ socket' = socket /\ seen' = seen
        /\ verdict'[c]["redis"] = Found("redis") /\ verdict'[c]["database"] = verdict[c]["database"]
    BY <1>3, <1>10 DEF ping, release, Types
  <2>2. Types'
    BY <1>3, <1>10 DEF ping, release, Types
  <2> QED
    BY <1>1, <1>2, <1>3, <1>4, <2>1, <2>2, CheckSuffices DEF VerdictIsSeen
<1>11. ASSUME quit(c) PROVE IInv'
  <2>1. pc[c] = "quit" /\ pc'[c] = "done" /\ client'[c] = "end" /\ UNCHANGED <<verdict, seen>>
    BY <1>11 DEF quit, Types
  <2>2. Types'
    BY <1>11 DEF quit, Types
  <2> QED
    BY <1>1, <1>2, <1>4, <2>1, <2>2, CheckSuffices DEF VerdictIsSeen
<1> QED
  BY <1>5, <1>6, <1>7, <1>8, <1>9, <1>10, <1>11

\* A check is answered: of each dependency something that could be found out.
LEMMA ReplyStep ==
    ASSUME IInv, NEW c \in Check, reply(c)
    PROVE  IInv'
<1> USE DEF IInv
<1>1. /\ pc[c] = "done" /\ verdict[c]["database"] # Null /\ answer[c] = Null
      /\ UNCHANGED <<server, changes, redisSide, verdict, other, seen>>
  BY DEF reply
<1>2. PICK auth \in BOOLEAN : answer' = [answer EXCEPT ![c] = Report(auth, verdict[c])]
  BY DEF reply, Report
<1>3. \A d \in Dependency : verdict[c][d] \in seen[c][d]
  BY <1>1 DEF VerdictIsSeen, Dependency
<1>4. verdict[c] \in [Dependency -> {"up", "down"}]
  BY <1>3 DEF Types
<1>5. DOMAIN answer' = Check /\ \A b \in Check : b # c => answer'[b] = answer[b]
  BY <1>2 DEF Types
<1>6. answer'[c] = Report(auth, verdict[c])
  BY <1>2 DEF Types
<1>7. PICK r : r = answer'[c]
  OBVIOUS
<1>8. Told(r) = verdict[c] /\ r.status = IF \A d \in Dependency : verdict[c][d] = "up" THEN 200 ELSE 503
  BY <1>4, <1>6, <1>7, AnswersTell
<1>9. Types' /\ LossIsSeen' /\ VerdictIsSeen'
  BY <1>1, <1>5 DEF Types, LossIsSeen, VerdictIsSeen, redisSide
<1>10. NowIsSeen'
  <2>1. ASSUME NEW b \in Check, answer'[b] = Null, pc[b] # "idle", NEW d \in Dependency
        PROVE  Found(d) \in seen[b][d]
    BY <1>1, <1>5, <2>1 DEF NowIsSeen
  <2> QED
    BY <1>1, <2>1 DEF NowIsSeen, Found, redisSide
<1>11. Lifecycle'
  BY <1>1, <1>5 DEF Lifecycle, redisSide
<1>12. AnswersHaveCause'
  <2>1. \A d \in Dependency : Told(r)[d] \in seen[c][d]
    BY <1>3, <1>8
  <2>2. r.status = IF \A d \in Dependency : Told(r)[d] = "up" THEN 200 ELSE 503
    BY <1>8
  <2> DEFINE Caused(q, v) == /\ \A d \in Dependency : Told(q)[d] \in v[d]
                            /\ q.status = IF \A d \in Dependency : Told(q)[d] = "up" THEN 200 ELSE 503
  <2>3. Caused(answer'[c], seen[c])
    BY <1>7, <2>1, <2>2
  <2>4. \A b \in Check : answer[b] # Null => Caused(answer[b], seen[b])
    BY DEF AnswersHaveCause, Told
  <2> HIDE DEF Caused
  <2>5. \A b \in Check : answer'[b] # Null => Caused(answer'[b], seen'[b])
    BY <1>1, <1>5, <2>3, <2>4
  <2> QED
    BY <2>5 DEF Caused, AnswersHaveCause, Told
<1> QED
  BY <1>9, <1>10, <1>11, <1>12

LEMMA NextIInv == IInv /\ [Next]_vars => IInv'
<1> SUFFICES ASSUME IInv, [Next]_vars PROVE IInv'
  OBVIOUS
<1>1. CASE Change
  BY <1>1, ChangeStep
<1>2. CASE serve \/ UNCHANGED vars
  <2>1. UNCHANGED <<server, pc, client, socket, verdict, answer, seen>>
    BY <1>2 DEF serve, vars, redisSide
  <2>2. Types' /\ LossIsSeen' /\ VerdictIsSeen'
    BY <2>1 DEF IInv, Types, LossIsSeen, VerdictIsSeen
  <2>3. NowIsSeen'
    BY <2>1 DEF IInv, NowIsSeen, Found
  <2>4. Lifecycle' /\ AnswersHaveCause'
    BY <2>1 DEF IInv, Lifecycle, AnswersHaveCause
  <2> QED
    BY <2>2, <2>3, <2>4 DEF IInv
<1>3. ASSUME NEW c \in Check, check(c) \/ Work(c) PROVE IInv'
  <2>1. CASE reply(c)
    BY <2>1, ReplyStep
  <2>2. CASE ~reply(c)
    BY <1>3, <2>2, CheckStep DEF Work
  <2> QED
    BY <2>1, <2>2
<1> QED
  BY <1>1, <1>2, <1>3 DEF Next

-----------------------------------------------------------------------------
(* The theorems.                                                           *)

\* The invariant holds of every behaviour of Spec.
THEOREM Invariance == Spec => []IInv
<1>1. Init => IInv
  BY InitIInv
<1>2. IInv /\ [Next]_vars => IInv'
  BY NextIInv
<1> QED
  BY <1>1, <1>2, PTL DEF Spec

\* HealthService.check tells of MySQL and of Redis what each was at some moment
\* of the check, and the status of the response is what it tells, whatever
\* goes down meanwhile and however the client of the check fares.
THEOREM AnswersHaveCauses == Spec => []AnswersHaveCause
<1>1. IInv => AnswersHaveCause
  BY DEF IInv
<1> QED
  BY <1>1, Invariance, PTL

-----------------------------------------------------------------------------
(* Types: how often a client tries to connect, and the shape of what the   *)
(* pipeline sends.                                                         *)

\* A client that has been given up, or is being quit, does not try again.
Tries ==
    \A c \in Check :
        /\ pc[c] \in {"idle", "connect"} => attempts[c] = 0
        /\ pc[c] = "ping" => attempts[c] <= MaxRetriesPerRequest
        /\ pc[c] = "quit" => client[c] = "ready"

ClientIInv == TypeOK /\ Tries

\* What a handler may come to.
Sound(o) ==
    IF o.threw # Null
    THEN /\ o.threw.status \in Failures
         /\ o.threw.status = 500 => o.threw.shape = "error"
         /\ catch(o.threw).errors # Null
    ELSE o.status \in Successes

\* The filter finds for each status that is thrown the name that HTTP has for it.
LEMMA CodesAreHttps == \A s \in Failures : <<s, resolveErrorCode(s)>> \in ErrorCodes
<1> SUFFICES ASSUME NEW s \in Failures PROVE <<s, resolveErrorCode(s)>> \in ErrorCodes
  OBVIOUS
<1>1. CASE s = 400
  <2>1. resolveErrorCode(s) = "BAD_REQUEST"
    BY <1>1 DEF resolveErrorCode
  <2> QED
    BY <1>1, <2>1 DEF ErrorCodes
<1>2. CASE s = 401
  <2>1. resolveErrorCode(s) = "UNAUTHORIZED"
    BY <1>2 DEF resolveErrorCode
  <2> QED
    BY <1>2, <2>1 DEF ErrorCodes
<1>3. CASE s = 403
  <2>1. resolveErrorCode(s) = "FORBIDDEN"
    BY <1>3 DEF resolveErrorCode
  <2> QED
    BY <1>3, <2>1 DEF ErrorCodes
<1>4. CASE s = 404
  <2>1. resolveErrorCode(s) = "NOT_FOUND"
    BY <1>4 DEF resolveErrorCode
  <2> QED
    BY <1>4, <2>1 DEF ErrorCodes
<1>5. CASE s = 409
  <2>1. resolveErrorCode(s) = "CONFLICT"
    BY <1>5 DEF resolveErrorCode
  <2> QED
    BY <1>5, <2>1 DEF ErrorCodes
<1>6. CASE s = 500
  <2>1. resolveErrorCode(s) = "INTERNAL_SERVER_ERROR"
    BY <1>6 DEF resolveErrorCode
  <2> QED
    BY <1>6, <2>1 DEF ErrorCodes
<1>7. CASE s = 503
  <2>1. resolveErrorCode(s) = "SERVICE_UNAVAILABLE"
    BY <1>7 DEF resolveErrorCode
  <2> QED
    BY <1>7, <2>1 DEF ErrorCodes
<1> QED
  BY <1>1, <1>2, <1>3, <1>4, <1>5, <1>6, <1>7 DEF Failures

\* Whatever a handler returns or throws, its client gets an answer of one of
\* the three shapes, with the status of a success or the status and the name
\* of a failure, and the details of a failure only if it was foreseen.
LEMMA ResponsesAreWellformed ==
    ASSUME NEW public \in BOOLEAN, NEW auth \in BOOLEAN, NEW o, Sound(o)
    PROVE  Wellformed(respond(public, auth, o))
<1>1. ASSUME NEW x, x.status \in Failures, x.status = 500 => x.shape = "error", catch(x).errors # Null
      PROVE  Wellformed(catch(x))
  <2>1. PICK e : e = [code |-> resolveErrorCode(x.status), extracted |-> extractErrorDetails(x)]
    OBVIOUS
  <2>2. catch(x) = [status |-> x.status, data |-> Null, meta |-> NoFields, errors |-> e]
    BY <2>1 DEF catch
  <2>3. PICK r : r = catch(x)
    OBVIOUS
  <2>4. /\ DOMAIN r = {"status", "data", "meta", "errors"} /\ r.data = Null /\ r.status = x.status
        /\ r.errors = e /\ e.code = resolveErrorCode(x.status) /\ e.extracted = extractErrorDetails(x)
    BY <2>1, <2>2, <2>3
  <2>5. <<r.status, r.errors.code>> \in ErrorCodes
    BY <1>1, <2>4, CodesAreHttps
  <2>6. r.status = 500 => Discreet(r.errors)
    <3> SUFFICES ASSUME r.status = 500 PROVE Discreet(r.errors)
      OBVIOUS
    <3>1. x.shape = "error"
      BY <1>1, <2>4
    <3>2. extractErrorDetails(x) = [message |-> "Internal server error", details |-> Null]
      BY <3>1 DEF extractErrorDetails
    <3> QED
      BY <2>4, <3>2, Zenon DEF Discreet
  <2>7. r.errors # Null
    BY <1>1, <2>3
  <2>8. Wellformed(r)
    BY <2>4, <2>5, <2>6, <2>7, Zenon DEF Wellformed
  <2> QED
    BY <2>3, <2>8
<1>2. ASSUME NEW s \in Successes, NEW d, NEW m PROVE Wellformed(createEnvelope(s, d, m))
  <2>1. PICK r : r = createEnvelope(s, d, m)
    OBVIOUS
  <2>2. DOMAIN r = {"status", "data", "meta", "errors"} /\ r.errors = Null /\ r.status = s
    BY <2>1 DEF createEnvelope
  <2>3. Wellformed(r)
    BY <1>2, <2>2 DEF Wellformed
  <2> QED
    BY <2>1, <2>3
<1>3. ASSUME NEW s \in Successes, NEW payload PROVE Wellformed(wrap(s, payload))
  <2>1. CASE payload.shape = "stream"
    <3>1. PICK r : r = [status |-> s, stream |-> payload.value]
      OBVIOUS
    <3>2. wrap(s, payload) = r
      BY <2>1, <3>1, Zenon DEF wrap
    <3>3. DOMAIN r = {"status", "stream"} /\ r.status = s
      BY <3>1
    <3>4. Wellformed(r)
      BY <3>3 DEF Wellformed
    <3> QED
      BY <3>2, <3>4
  <2>2. CASE payload.shape = "record" /\ isEnvelopeLike(payload.value)
    <3>1. wrap(s, payload) =
            createEnvelope(s, Field(payload.value, "data", Null), currentMeta(payload))
      <4>1. payload.shape # "stream"
        BY <2>2
      <4> QED
        BY <2>2, <4>1, Zenon DEF wrap
    <3> QED
      BY <1>2, <1>3, <3>1
  <2>3. CASE payload.shape # "stream" /\ ~(payload.shape = "record" /\ isEnvelopeLike(payload.value))
    <3>1. wrap(s, payload) = createEnvelope(s, payload.value, NoFields)
      BY <2>3, Zenon DEF wrap
    <3> QED
      BY <1>2, <1>3, <3>1
  <2> QED
    BY <2>1, <2>2, <2>3
<1>4. CASE ~canActivate(public, auth)
  <2>1. respond(public, auth, o) = catch(Unauthorized)
    BY <1>4, Zenon DEF respond
  <2>2. Unauthorized.status = 401
    BY DEF Unauthorized
  <2>3. Wellformed(catch(Unauthorized))
    BY <1>1, <2>2, NullAssumption DEF Failures
  <2> QED
    BY <2>1, <2>3
<1>5. CASE canActivate(public, auth) /\ o.threw # Null
  <2>1. respond(public, auth, o) = catch(o.threw)
    BY <1>5, Zenon DEF respond
  <2>2. Wellformed(catch(o.threw))
    BY <1>1, <1>5 DEF Sound
  <2> QED
    BY <2>1, <2>2
<1>6. CASE canActivate(public, auth) /\ o.threw = Null
  <2>1. respond(public, auth, o) = wrap(o.status, o.payload)
    BY <1>6, Zenon DEF respond
  <2>2. Wellformed(wrap(o.status, o.payload))
    BY <1>3, <1>6 DEF Sound
  <2> QED
    BY <2>1, <2>2
<1> QED
  BY <1>4, <1>5, <1>6

\* The handler of /health returns a 200 or throws a 503.
LEMMA OutcomeIsSound ==
    ASSUME NEW checks \in [Dependency -> {"up", "down"}]
    PROVE  Sound(outcome(checks))
<1>1. CASE status(checks) = "error"
  <2>1. outcome(checks).threw # Null /\ catch(outcome(checks).threw).errors # Null
    BY <1>1, NullAssumption
  <2>2. outcome(checks).threw.status = 503
    BY <1>1 DEF outcome
  <2> QED
    BY <2>1, <2>2 DEF Sound, Failures
<1>2. CASE status(checks) # "error"
  <2>1. outcome(checks).threw = Null /\ outcome(checks).status = 200
    BY <1>2 DEF outcome
  <2> QED
    BY <2>1 DEF Sound, Successes
<1> QED
  BY <1>1, <1>2

LEMMA InitClientIInv == Init => ClientIInv
<1> SUFFICES ASSUME Init PROVE ClientIInv
  OBVIOUS
<1>1. server["database"] # "loading" /\ server \in [Dependency -> {"up", "down", "loading"}]
  BY DEF Init, Dependency
<1>2. changes \in 0..Outages /\ attempts \in [Check -> 0..(MaxRetriesPerRequest + 1)]
  BY BoundsAssumption DEF Init
<1>3. TypeOK
  BY <1>1, <1>2 DEF Init, TypeOK, Dependency
<1> QED
  BY <1>3, BoundsAssumption DEF Init, ClientIInv, Tries

\* A step of a check towards its answer.
LEMMA ClientStep ==
    ASSUME IInv, ClientIInv, NEW c \in Check,
           check(c) \/ checkDatabase(c) \/ connected(c) \/ closed(c) \/ reconnect(c) \/ ping(c) \/ quit(c)
    PROVE  ClientIInv'
<1> USE DEF ClientIInv
<1>1. Types' /\ UNCHANGED <<server, changes, answer, other>>
  <2>1. Types'
    BY CheckStep DEF IInv
  <2> QED
    BY <2>1 DEF check, checkDatabase, connected, closed, reconnect, ping, quit
<1>2. /\ DOMAIN attempts' = Check /\ attempts[c] \in 0..(MaxRetriesPerRequest + 1)
      /\ \A b \in Check : b # c => attempts'[b] = attempts[b]
  BY DEF check, checkDatabase, connected, closed, reconnect, ping, quit, redisSide, TypeOK
<1>0. \A b \in Check : b # c => pc'[b] = pc[b] /\ client'[b] = client[b] /\ socket'[b] = socket[b]
  BY DEF check, checkDatabase, connected, closed, reconnect, ping, quit, release, redisSide, IInv, Types
<1> DEFINE Fine == /\ socket'[c] => client'[c] = "ready"
                   /\ attempts'[c] \in 0..(MaxRetriesPerRequest + 1)
                   /\ pc'[c] \in {"idle", "connect"} => attempts'[c] = 0
                   /\ pc'[c] = "ping" => attempts'[c] <= MaxRetriesPerRequest
                   /\ pc'[c] = "quit" => client'[c] = "ready"
<1> SUFFICES Fine
  <2> SUFFICES ASSUME Fine PROVE ClientIInv'
    OBVIOUS
  <2>1. attempts' \in [Check -> 0..(MaxRetriesPerRequest + 1)]
    <3>1. \A b \in Check : attempts'[b] \in 0..(MaxRetriesPerRequest + 1)
      BY <1>2 DEF TypeOK
    <3>2. attempts' = [b \in Check |-> attempts'[b]]
      BY <1>2 DEF check, checkDatabase, connected, closed, reconnect, ping, quit, redisSide, TypeOK
    <3> QED
      BY <3>1, <3>2
  <2>2. TypeOK'
    <3>1. \A b \in Check : socket'[b] => client'[b] = "ready"
      BY <1>0 DEF TypeOK
    <3>2. (\A b \in Check : answer[b] = Null \/ Wellformed(answer[b]))'
      BY <1>1 DEF TypeOK
    <3>3. (other = Null \/ Wellformed(other))'
      BY <1>1 DEF TypeOK
    <3> QED
      BY <1>1, <2>1, <3>1, <3>2, <3>3 DEF TypeOK, Types
  <2>3. Tries'
    BY <1>0, <1>2 DEF Tries
  <2> QED
    BY <2>2, <2>3
<1>3. MaxRetriesPerRequest \in Nat
  BY BoundsAssumption
<1>4. CASE check(c)
  BY <1>2, <1>3, <1>4 DEF check, TypeOK, Tries, IInv, Lifecycle
<1>5. CASE checkDatabase(c)
  BY <1>2, <1>5 DEF checkDatabase, redisSide, TypeOK, Tries
<1>6. CASE connected(c)
  BY <1>2, <1>3, <1>6 DEF connected, TypeOK, Tries, IInv, Types, Lifecycle
<1>7. CASE closed(c)
  <2>1. /\ pc[c] \in {"connect", "ping"} /\ socket' = socket /\ ~socket[c]
        /\ attempts'[c] = attempts[c] + 1 /\ attempts[c] <= MaxRetriesPerRequest
    BY <1>2, <1>3, <1>7 DEF closed, TypeOK, Tries, IInv, Types, Lifecycle
  <2>2. CASE GivesUp(c)
    <3>1. pc'[c] = "done"
      BY <1>7, <2>2 DEF closed, release, TypeOK
    <3> QED
      BY <1>2, <1>3, <2>1, <3>1
  <2>3. CASE ~GivesUp(c)
    <3>1. pc' = pc /\ pc[c] = "ping" /\ attempts'[c] % (MaxRetriesPerRequest + 1) # 0
      BY <1>7, <2>1, <2>3 DEF closed, GivesUp
    <3>2. (MaxRetriesPerRequest + 1) % (MaxRetriesPerRequest + 1) = 0
      BY <1>3
    <3>3. attempts'[c] <= MaxRetriesPerRequest
      BY <1>2, <1>3, <2>1, <3>1, <3>2
    <3> QED
      BY <1>2, <1>3, <2>1, <3>1, <3>3
  <2> QED
    BY <2>2, <2>3
<1>8. CASE reconnect(c)
  BY <1>2, <1>8 DEF reconnect, TypeOK, Tries
<1>9. CASE ping(c)
  <2>1. pc'[c] = "quit" /\ client'[c] = "ready" /\ attempts' = attempts
    BY <1>9 DEF ping, release, IInv, Types
  <2> QED
    BY <1>2, <2>1
<1>10. CASE quit(c)
  BY <1>2, <1>10 DEF quit, TypeOK, IInv, Types
<1> QED
  BY <1>4, <1>5, <1>6, <1>7, <1>8, <1>9, <1>10

LEMMA NextClientIInv == IInv /\ ClientIInv /\ [Next]_vars => ClientIInv'
<1> SUFFICES ASSUME IInv, ClientIInv, [Next]_vars PROVE ClientIInv'
  OBVIOUS
<1> USE DEF ClientIInv
<1>1. Types'
  BY NextIInv DEF IInv
<1>2. CASE Change
  <2>1. PICK d \in Dependency, s \in {"up", "down", "loading"} :
          /\ s = "loading" => d = "redis"
          /\ server' = [server EXCEPT ![d] = s]
          /\ socket' = IF d = "redis" /\ s = "down" THEN [c \in Check |-> FALSE] ELSE socket
    BY <1>2 DEF Change
  <2>2. UNCHANGED <<pc, client, attempts, verdict, answer, other>>
    BY <1>2 DEF Change
  <2>3. server'["database"] # "loading"
    BY <2>1 DEF TypeOK, Dependency
  <2>4. changes' \in 0..Outages
    BY <1>2, BoundsAssumption DEF Change, TypeOK
  <2>5. \A c \in Check : socket'[c] => client'[c] = "ready"
    BY <2>1, <2>2 DEF TypeOK
  <2>6. TypeOK'
    <3>1. (\A b \in Check : answer[b] = Null \/ Wellformed(answer[b]))'
      BY <2>2 DEF TypeOK
    <3>2. (other = Null \/ Wellformed(other))'
      BY <2>2 DEF TypeOK
    <3> QED
      BY <1>1, <2>2, <2>3, <2>4, <2>5, <3>1, <3>2 DEF TypeOK, Types
  <2> QED
    BY <2>2, <2>6 DEF Tries
<1>3. CASE serve
  <2>1. UNCHANGED <<server, changes, pc, client, socket, attempts, verdict, answer, seen>>
    BY <1>3 DEF serve, redisSide
  <2>2. Wellformed(other')
    <3>1. PICK o \in Outcomes, public \in BOOLEAN, auth \in BOOLEAN : other' = respond(public, auth, o)
      BY <1>3 DEF serve
    <3>2. Sound(o)
      BY OutcomesAssumption DEF Sound
    <3> QED
      BY <3>1, <3>2, ResponsesAreWellformed
  <2>3. (\A b \in Check : answer[b] = Null \/ Wellformed(answer[b]))'
    BY <2>1 DEF TypeOK
  <2>4. (other = Null \/ Wellformed(other))'
    BY <2>2
  <2>5. TypeOK'
    BY <1>1, <2>1, <2>3, <2>4 DEF TypeOK, Types
  <2> QED
    BY <2>1, <2>5 DEF Tries
<1>4. ASSUME NEW c \in Check, reply(c) PROVE ClientIInv'
  <2>1. UNCHANGED <<server, changes, pc, client, socket, attempts, verdict, other, seen>>
    BY <1>4 DEF reply, redisSide
  <2>2. PICK auth \in BOOLEAN : answer' = [answer EXCEPT ![c] = Report(auth, verdict[c])]
    BY <1>4 DEF reply, Report
  <2>3. verdict[c] \in [Dependency -> {"up", "down"}]
    <3>1. \A d \in Dependency : verdict[c][d] \in seen[c][d]
      BY <1>4 DEF reply, IInv, VerdictIsSeen, Dependency
    <3> QED
      BY <3>1 DEF IInv, Types
  <2>4. Wellformed(Report(auth, verdict[c]))
    BY <2>3, OutcomeIsSound, ResponsesAreWellformed DEF Report
  <2>5. \A b \in Check : answer'[b] = Null \/ Wellformed(answer'[b])
    BY <2>2, <2>4 DEF TypeOK, IInv, Types
  <2>6. (\A b \in Check : answer[b] = Null \/ Wellformed(answer[b]))'
    BY <2>5 DEF Wellformed
  <2>7. (other = Null \/ Wellformed(other))'
    BY <2>1 DEF TypeOK
  <2>8. TypeOK'
    BY <1>1, <2>1, <2>6, <2>7 DEF TypeOK, Types
  <2> QED
    BY <2>1, <2>8 DEF Tries
<1>5. ASSUME NEW c \in Check, check(c) \/ Work(c) PROVE ClientIInv'
  <2>1. CASE reply(c)
    BY <1>4, <2>1
  <2>2. CASE ~reply(c)
    BY <1>5, <2>2, ClientStep DEF Work
  <2> QED
    BY <2>1, <2>2
<1>6. CASE UNCHANGED vars
  <2>1. UNCHANGED <<server, changes, pc, client, socket, attempts, verdict, answer, other, seen>>
    BY <1>6 DEF vars, redisSide
  <2>2. (\A b \in Check : answer[b] = Null \/ Wellformed(answer[b]))'
    BY <2>1 DEF TypeOK
  <2>3. (other = Null \/ Wellformed(other))'
    BY <2>1 DEF TypeOK
  <2> QED
    BY <1>1, <2>1, <2>2, <2>3 DEF TypeOK, Types, Tries
<1> QED
  BY <1>2, <1>3, <1>5, <1>6 DEF Next

\* No client counts more attempts than one past its limit, a connection is a
\* ready client's only, and every response of the API, of whichever route, is
\* a stream or an envelope whose errors and data agree with its status: the
\* code of AllExceptionsFilter is the name that HTTP has for the status, that
\* of every exception thrown, and no 500 tells what went wrong.
THEOREM TypeCorrect == Spec => []TypeOK
<1>1. ClientIInv => TypeOK
  BY DEF ClientIInv
<1> QED
  BY <1>1, InitIInv, NextIInv, InitClientIInv, NextClientIInv, PTL DEF Spec

\* A check that has its answer holds no client and no connection to Redis.
ClientReleased == \A c \in Check : answer[c] # Null => client[c] = "end" /\ ~socket[c]

\* The finally of checkRedis releases the client whichever of connect, ping and
\* quit failed, and before the answer is sent.
THEOREM ClientsAreReleased == Spec => []ClientReleased
<1>1. IInv /\ TypeOK => ClientReleased
  BY DEF IInv, Lifecycle, TypeOK, ClientReleased
<1> QED
  BY <1>1, Invariance, TypeCorrect, PTL
=============================================================================
