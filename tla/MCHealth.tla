------------------------------ MODULE MCHealth ------------------------------
(***************************************************************************)
(* The instance of Health for TLC. MCOutcomes has a result of every shape  *)
(* and an exception of every status that the other controllers, the guards,*)
(* the pipes and the database yield, and the shapes of exceptions that the *)
(* filter provides for although nothing throws them yet.                   *)
(***************************************************************************)
EXTENDS Health, TLC

CONSTANTS Rows, Employee, Pdf   \* what TLC need not look into

Returned(status_, shape, value, records) ==
    [threw |-> Null, status |-> status_, payload |-> [shape |-> shape, value |-> value, records |-> records]]
Thrown(shape, status_, body) == [threw |-> [shape |-> shape, status |-> status_, body |-> body]]

Message(text, status_) == [message |-> text, error |-> "its name", statusCode |-> status_]

MCOutcomes ==
    { Returned(200, "stream", Pdf, {}),                                     \* a report
      Returned(200, "record", [data |-> Rows, meta |-> [total |-> 3]], {"meta"}),   \* employees
      Returned(201, "record", [employee |-> Employee], {"employee"}),       \* a new one
      Returned(200, "other", Null, {}),                                     \* nothing
      Thrown("error", 500, Null),                                           \* QueryFailedError
      Thrown("texts", 400, Message(<<"email must be an email">>, 400)),
      Thrown("message", 401, Message("Invalid email or password", 401)),
      Thrown("message", 403, Message("Refresh token mismatch", 403)),
      Thrown("message", 404, Message("Employee not found", 404)),
      Thrown("message", 409, Message("Email already registered", 409)) }
        \cup { Thrown("text", 404, "Not found"),
               Thrown("bare", 400, [reason |-> "no message"]),
               Thrown("other", 400, Null) }
=============================================================================
