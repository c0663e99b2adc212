---------------------------- MODULE HttpPipeline ----------------------------
(***************************************************************************)
(* What main.ts puts around every handler, as functions: the JWT guard in  *)
(* front, the response envelope behind it, the exception filter around     *)
(* both. A payload or the body of an exception has a shape, which is what  *)
(* the code finds out about it with typeof and instanceof:                 *)
(*    payload     "stream", "record" (no array), "other"                   *)
(*    exception   "error" (no HttpException); or, by its body, "text",     *)
(*                "texts" (a record whose message is an array), "message"  *)
(*                (a record whose message is a string), "bare" (another    *)
(*                record), "other"                                         *)
(* A record is a function from the names of its fields, of which records   *)
(* are those that hold a record in turn. The timestamp, path, method and   *)
(* status code in meta are left out.                                       *)
(***************************************************************************)
EXTENDS Naturals, Sequences, FiniteSets

CONSTANT Null

NoFields == [f \in {} |-> Null]

\* JwtAuthGuard
canActivate(public, authenticated) == public \/ authenticated

\* Fault variant: a table of codes that forgets the mismatch of a refresh token.
resolveErrorCode_NoForbidden(status) ==
    CASE status = 400 -> "BAD_REQUEST"
      [] status = 401 -> "UNAUTHORIZED"
      [] status = 404 -> "NOT_FOUND"
      [] status = 409 -> "CONFLICT"
      [] status = 503 -> "SERVICE_UNAVAILABLE"
      [] OTHER -> "INTERNAL_SERVER_ERROR"

\* HttpStatus[status], for the statuses of the exceptions that are thrown.
resolveErrorCode(status) ==
    CASE status = 400 -> "BAD_REQUEST"
      [] status = 401 -> "UNAUTHORIZED"
      [] status = 403 -> "FORBIDDEN"
      [] status = 404 -> "NOT_FOUND"
      [] status = 409 -> "CONFLICT"
      [] status = 503 -> "SERVICE_UNAVAILABLE"
      [] OTHER -> "INTERNAL_SERVER_ERROR"

cleanErrorDetails(fields) ==
    LET names == DOMAIN fields \ {"message", "statusCode", "error"}
    IN  IF names = {} THEN Null ELSE [f \in names |-> fields[f]]

extractErrorDetails(x) ==
    LET code == resolveErrorCode(x.status)
    IN  CASE x.shape = "error" -> [message |-> "Internal server error", details |-> Null]
          [] x.shape = "text" -> [message |-> x.body, details |-> Null]
          [] x.shape = "texts" ->
               [ message |-> IF x.body.message = <<>> THEN code ELSE Head(x.body.message),
                 details |-> x.body.message ]
          [] x.shape = "message" -> [message |-> x.body.message, details |-> cleanErrorDetails(x.body)]
          [] x.shape = "bare" -> [message |-> code, details |-> x.body]
          [] x.shape = "other" -> [message |-> code, details |-> Null]

catch(x) ==
    [status |-> x.status, data |-> Null, meta |-> NoFields,
     errors |-> [code |-> resolveErrorCode(x.status), extracted |-> extractErrorDetails(x)]]

isEnvelopeLike(fields) == Cardinality({"data", "meta", "errors"} \cap DOMAIN fields) >= 2

Field(fields, f, default) == IF f \in DOMAIN fields THEN fields[f] ELSE default

\* A meta that is no record is dropped.
currentMeta(payload) == IF "meta" \in payload.records THEN payload.value["meta"] ELSE NoFields

createEnvelope(status, data, meta) ==
    [status |-> status, data |-> data, meta |-> meta, errors |-> Null]

wrap(status, payload) ==
    CASE payload.shape = "stream" -> [status |-> status, stream |-> payload.value]
      [] payload.shape = "record" /\ isEnvelopeLike(payload.value) ->
           createEnvelope(status, Field(payload.value, "data", Null), currentMeta(payload))
      [] OTHER -> createEnvelope(status, payload.value, NoFields)

Unauthorized ==
    [shape |-> "message", status |-> 401, body |-> [message |-> "Unauthorized", statusCode |-> 401]]

\* What a client gets: outcome.threw is an exception or Null.
respond(public, authenticated, outcome) ==
    IF ~canActivate(public, authenticated) THEN catch(Unauthorized)
    ELSE IF outcome.threw # Null THEN catch(outcome.threw)
    ELSE wrap(outcome.status, outcome.payload)
=============================================================================
