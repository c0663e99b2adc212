------------------------------- MODULE Health -------------------------------
(***************************************************************************)
(* GET /health: HealthService asks MySQL and Redis in parallel, Redis over *)
(* a client of its own, and HealthController makes a 200 or a 503 of it,   *)
(* which HttpPipeline puts into an envelope. The client is ioredis':       *)
(*    wait -> connecting -> ready -> (connection lost) reconnecting        *)
(*                       -> (no connection) reconnecting -> connecting     *)
(* and on, by a timer, until quit or disconnect ends it. A request that    *)
(* has not been answered waits for the next connection; it is given up     *)
(* when MaxRetriesPerRequest + 1 attempts have failed since the last one.  *)
(* Both servers go down and come back. One that is up answers.             *)
(***************************************************************************)
EXTENDS HttpPipeline

CONSTANTS
    Check,                  \* requests for /health
    MaxRetriesPerRequest,   \* option of the client
    Outcomes,               \* what the handlers of other routes return or throw
    Outages                 \* bound: changes of the servers' states

ASSUME BoundsAssumption == MaxRetriesPerRequest \in Nat /\ Outages \in Nat

Dependency == {"database", "redis"}

VARIABLES
    server,         \* each dependency: "up", "down"; Redis also "loading"
    changes,        \* how often that changed
    pc,             \* checkRedis: "idle", "connect", "ping", "quit", "done"
    client,         \* status of its client
    socket,         \* whether the connection of a ready client still stands
    attempts,       \* retryAttempts
    verdict,        \* what a check has found out
    answer,         \* the response to a check
    other,          \* the last response of another route
    seen            \* history: what could be found out during the check

redisSide == <<pc, client, socket, attempts>>
vars == <<server, changes, redisSide, verdict, answer, other, seen>>

Found(d) == IF server[d] = "up" THEN "up" ELSE "down"

Init ==
    /\ server \in [Dependency -> {"up", "down"}]
    /\ changes = 0
    /\ pc = [c \in Check |-> "idle"]
    /\ client = [c \in Check |-> "wait"]
    /\ socket = [c \in Check |-> FALSE]
    /\ attempts = [c \in Check |-> 0]
    /\ verdict = [c \in Check |-> [d \in Dependency |-> Null]]
    /\ answer = [c \in Check |-> Null]
    /\ other = Null
    /\ seen = [c \in Check |-> [d \in Dependency |-> {}]]

\* A server goes down with its connections, comes back, or is done loading.
Change ==
    /\ changes < Outages
    /\ changes' = changes + 1
    /\ \E d \in Dependency, s \in {"up", "down", "loading"} :
         /\ s # server[d] /\ (s = "loading" => d = "redis")
         /\ server' = [server EXCEPT ![d] = s]
         /\ socket' = IF d = "redis" /\ s = "down" THEN [c \in Check |-> FALSE] ELSE socket
    /\ seen' = [c \in Check |->
                  IF pc[c] = "idle" \/ answer[c] # Null THEN seen[c]
                  ELSE [d \in Dependency |-> seen[c][d] \cup {Found(d)'}]]
    /\ UNCHANGED <<pc, client, attempts, verdict, answer, other>>

-----------------------------------------------------------------------------
(* HealthService                                                           *)

check(c) ==
    /\ pc[c] = "idle"
    /\ pc' = [pc EXCEPT ![c] = "connect"]
    /\ client' = [client EXCEPT ![c] = "connecting"]
    /\ seen' = [seen EXCEPT ![c] = [d \in Dependency |-> {Found(d)}]]
    /\ UNCHANGED <<server, changes, socket, attempts, verdict, answer, other>>

checkDatabase(c) ==
    /\ pc[c] # "idle" /\ verdict[c].database = Null
    /\ verdict' = [verdict EXCEPT ![c].database = Found("database")]
    /\ UNCHANGED <<server, changes, redisSide, answer, other, seen>>

\* Fault variant: only a client that is ready is released.
release_ReadyOnly(c, status) ==
    /\ pc' = [pc EXCEPT ![c] = IF status = "ready" THEN "quit" ELSE "done"]
    /\ client' = [client EXCEPT ![c] = status]

\* finally: quit, or disconnect, which stops the timer.
release(c, status) ==
    /\ pc' = [pc EXCEPT ![c] = IF status = "ready" THEN "quit" ELSE "done"]
    /\ client' = [client EXCEPT ![c] = IF status = "ready" THEN status ELSE "end"]

connected(c) ==
    /\ client[c] = "connecting" /\ server["redis"] # "down"
    /\ client' = [client EXCEPT ![c] = "ready"]
    /\ socket' = [socket EXCEPT ![c] = TRUE]
    /\ attempts' = [attempts EXCEPT ![c] = 0]
    /\ pc' = [pc EXCEPT ![c] = IF @ = "connect" THEN "ping" ELSE @]
    /\ UNCHANGED <<server, changes, verdict, answer, other, seen>>

GivesUp(c) == pc[c] = "connect" \/ (pc[c] = "ping" /\ attempts'[c] % (MaxRetriesPerRequest + 1) = 0)

\* The client loses its connection, or gets none, and sets its timer. connect
\* rejects the first time; ping by and by.
closed(c) ==
    /\ \/ client[c] = "connecting" /\ server["redis"] = "down"
       \/ client[c] = "ready" /\ ~socket[c] /\ pc[c] # "quit"
    /\ attempts' = [attempts EXCEPT ![c] = @ + 1]
    /\ IF GivesUp(c)
       THEN /\ verdict' = [verdict EXCEPT ![c].redis = "down"]
            /\ release(c, "reconnecting")
       ELSE /\ client' = [client EXCEPT ![c] = "reconnecting"]
            /\ UNCHANGED <<pc, verdict>>
    /\ UNCHANGED <<server, changes, socket, answer, other, seen>>

reconnect(c) ==
    /\ client[c] = "reconnecting"
    /\ client' = [client EXCEPT ![c] = "connecting"]
    /\ UNCHANGED <<server, changes, pc, socket, attempts, verdict, answer, other, seen>>

\* A Redis that is still loading answers with an error.
ping(c) ==
    /\ pc[c] = "ping" /\ client[c] = "ready" /\ socket[c]
    /\ verdict' = [verdict EXCEPT ![c].redis = Found("redis")]
    /\ release(c, "ready")
    /\ UNCHANGED <<server, changes, socket, attempts, answer, other, seen>>

\* quit is answered, or the connection goes first and disconnect follows.
quit(c) ==
    /\ pc[c] = "quit"
    /\ pc' = [pc EXCEPT ![c] = "done"]
    /\ client' = [client EXCEPT ![c] = "end"]
    /\ socket' = [socket EXCEPT ![c] = FALSE]
    /\ UNCHANGED <<server, changes, attempts, verdict, answer, other, seen>>

-----------------------------------------------------------------------------
(* HealthController, and the other routes.                                 *)

\* Fault variant: one dependency is enough.
status_Either(checks) == IF "up" \in {checks[d] : d \in Dependency} THEN "ok" ELSE "error"

status(checks) == IF \A d \in Dependency : checks[d] = "up" THEN "ok" ELSE "error"

outcome(checks) ==
    IF status(checks) = "error"
    THEN [threw |-> [shape |-> "message", status |-> 503,
                     body |-> [message |-> "Dependency health check failed", checks |-> checks]]]
    ELSE [threw |-> Null, status |-> 200,
          payload |-> [shape |-> "record", records |-> {"checks"},
                       value |-> [status |-> "ok", checks |-> checks]]]

\* Null, where nothing was thrown or there are no errors, is none of either.
ASSUME NullAssumption ==
    /\ catch(Unauthorized).errors # Null
    /\ \A checks \in [Dependency -> {"up", "down"}] :
         status(checks) = "error" =>
            outcome(checks).threw # Null /\ catch(outcome(checks).threw).errors # Null

\* The statuses of @HttpCode and of Nest's defaults, and those that are thrown.
Successes == {200, 201}
Failures == {400, 401, 403, 404, 409, 500, 503}

\* Handlers return a success and throw a failure. Nothing throws a 500: that
\* is what becomes of an error that is no HttpException.
ASSUME OutcomesAssumption ==
    \A o \in Outcomes :
        IF o.threw # Null
        THEN /\ o.threw.status \in Failures
             /\ o.threw.status = 500 => o.threw.shape = "error"
             /\ catch(o.threw).errors # Null
        ELSE o.status \in Successes

reply(c) ==
    /\ pc[c] = "done" /\ verdict[c].database # Null /\ answer[c] = Null
    /\ \E authenticated \in BOOLEAN :
         answer' = [answer EXCEPT ![c] = respond(TRUE, authenticated, outcome(verdict[c]))]
    /\ UNCHANGED <<server, changes, redisSide, verdict, other, seen>>

serve ==
    /\ \E o \in Outcomes, public, authenticated \in BOOLEAN :
         other' = respond(public, authenticated, o)
    /\ UNCHANGED <<server, changes, redisSide, verdict, answer, seen>>

Work(c) ==
    \/ checkDatabase(c) \/ connected(c) \/ closed(c) \/ reconnect(c) \/ ping(c) \/ quit(c) \/ reply(c)

Next == Change \/ serve \/ \E c \in Check : check(c) \/ Work(c)

Spec == Init /\ [][Next]_vars

\* Sockets, timers and queries go on; a server that is up answers and one that
\* is down refuses, or the time for connecting runs out.
FairSpec ==
    /\ Spec
    /\ \A c \in Check :
         /\ WF_vars(checkDatabase(c))
         /\ WF_vars(connected(c) \/ closed(c) \/ reconnect(c) \/ ping(c) \/ quit(c))
         /\ WF_vars(reply(c))

-----------------------------------------------------------------------------
(* Properties.                                                             *)

\* What a client may expect: each status of a failure with the name that HTTP
\* has for it, and a 500 that gives nothing away.
ErrorCodes ==
    { <<400, "BAD_REQUEST">>, <<401, "UNAUTHORIZED">>, <<403, "FORBIDDEN">>, <<404, "NOT_FOUND">>,
      <<409, "CONFLICT">>, <<500, "INTERNAL_SERVER_ERROR">>, <<503, "SERVICE_UNAVAILABLE">> }

Discreet(error) == error.extracted = [message |-> "Internal server error", details |-> Null]

\* A response is a stream or an envelope of a success, or the envelope of one
\* error without data.
Wellformed(r) ==
    \/ DOMAIN r = {"status", "stream"} /\ r.status \in Successes
    \/ /\ DOMAIN r = {"status", "data", "meta", "errors"}
       /\ IF r.errors = Null THEN r.status \in Successes
          ELSE /\ <<r.status, r.errors.code>> \in ErrorCodes
               /\ r.data = Null
               /\ r.status = 500 => Discreet(r.errors)

\* Types; a client has a connection only while it is ready.
TypeOK ==
    /\ server \in [Dependency -> {"up", "down", "loading"}] /\ server["database"] # "loading"
    /\ changes \in 0..Outages
    /\ pc \in [Check -> {"idle", "connect", "ping", "quit", "done"}]
    /\ client \in [Check -> {"wait", "connecting", "ready", "reconnecting", "end"}]
    /\ \A c \in Check : socket[c] => client[c] = "ready"
    /\ attempts \in [Check -> 0..(MaxRetriesPerRequest + 1)]
    /\ verdict \in [Check -> [Dependency -> {"up", "down", Null}]]
    /\ \A c \in Check : answer[c] = Null \/ Wellformed(answer[c])
    /\ other = Null \/ Wellformed(other)
    /\ seen \in [Check -> [Dependency -> SUBSET {"up", "down"}]]

\* The answer to a check tells of each dependency what it was at some moment of
\* the check, through whatever outages and new connections: no false alarm,
\* and no false comfort. It is a 200 if, and only if, it tells of none that it
\* is down, and with no regard for who asks.
AnswersHaveCause ==
    \A c \in Check :
        answer[c] # Null =>
            LET told == IF answer[c].status = 200 THEN answer[c].data.checks
                        ELSE answer[c].errors.extracted.details.checks
            IN  /\ \A d \in Dependency : told[d] \in seen[c][d]
                /\ answer[c].status = IF \A d \in Dependency : told[d] = "up" THEN 200 ELSE 503

\* A check is answered, and by then its client has been released, whichever of
\* connect, ping and quit fails and however often.
ChecksEnd == \A c \in Check : pc[c] = "connect" ~> answer[c] # Null /\ client[c] = "end"
=============================================================================
