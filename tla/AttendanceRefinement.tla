------------------------ MODULE AttendanceRefinement ------------------------
(***************************************************************************)
(* The transactions of Attendance implement the one-step requests of       *)
(* AttendanceLedger: a request takes effect when its COMMIT does, although *)
(* what it does was decided several statements earlier.                    *)
(***************************************************************************)
EXTENDS Attendance

Outcome(r) ==
    IF pc[r] = "idle" THEN "none"
    ELSE IF fate[r] # "open" THEN fate[r]
    ELSE IF pc[r] # "done" THEN "pending"
    ELSE IF status[r] \in {"notFound", "conflict"} THEN "refused"
    ELSE "failed"

outcomes == [r \in Request |-> Outcome(r)]

Ledger == INSTANCE AttendanceLedger WITH
    RowFor <- [c \in Call |-> KeyFor(c)],
    TimeFor <- [c \in Call |-> DatetimeColumn(c.occurredAt)],
    staff <- employees,
    ledger <- attendances,
    request <- call,
    outcome <- outcomes,
    notified <- queued

\* Every behaviour of the transactions, with deadlocks, faults and cascades, is
\* one of the ledger: checkIn and checkOut are linearizable at their COMMIT, and
\* a 404 or 409 is only answered when the ledger refuses at that moment.
LedgerSpec == Ledger!Spec
=============================================================================
