-------------------------- MODULE AttendanceLedger --------------------------
(***************************************************************************)
(* What the attendance API promises, with each request taking effect in    *)
(* one step: a check-in opens the employee's row of a day, a check-out     *)
(* closes it, a request the ledger does not admit at that moment is        *)
(* refused, and a request that fails on the way changes nothing. What is   *)
(* recorded may then be notified, once.                                    *)
(***************************************************************************)
CONSTANTS
    Request, Employee, Key, Call,
    NoTime,         \* a time not yet known
    NoCall,         \* a request not yet made
    RowFor,         \* RowFor[c]: the employee and day a call is about
    TimeFor         \* TimeFor[c]: the time a call puts on record

VARIABLES
    staff,          \* the employees there are
    ledger,         \* the row of each employee and day
    request,        \* what each request asked for
    outcome,        \* what became of it
    notified        \* the requests somebody is told about

vars == <<staff, ledger, request, outcome, notified>>

NoRow == [checkInAt |-> NoTime, checkOutAt |-> NoTime]

\* Which row accepts a call, and what the call makes of it.
Admits(row, c) ==
    \/ c.type = "check-in" /\ row = NoRow
    \/ c.type = "check-out" /\ row # NoRow /\ row.checkOutAt = NoTime

After(row, c) ==
    IF c.type = "check-in"
      THEN [checkInAt |-> TimeFor[c], checkOutAt |-> NoTime]
      ELSE [checkInAt |-> row.checkInAt, checkOutAt |-> TimeFor[c]]

Init ==
    /\ staff = {}
    /\ ledger = [k \in Key |-> NoRow]
    /\ request = [r \in Request |-> NoCall]
    /\ outcome = [r \in Request |-> "none"]
    /\ notified = {}

Accept(r, c) ==
    /\ outcome[r] = "none"
    /\ request' = [request EXCEPT ![r] = c]
    /\ outcome' = [outcome EXCEPT ![r] = "pending"]
    /\ UNCHANGED <<staff, ledger, notified>>

Admissible(c) == c.employeeId \in staff /\ Admits(ledger[RowFor[c]], c)

Record(r) ==
    LET k == RowFor[request[r]]
    IN  /\ outcome[r] = "pending"
        /\ Admissible(request[r])
        /\ ledger' = [ledger EXCEPT ![k] = After(ledger[k], request[r])]
        /\ outcome' = [outcome EXCEPT ![r] = "recorded"]
        /\ UNCHANGED <<staff, request, notified>>

Refuse(r) ==
    /\ outcome[r] = "pending"
    /\ ~Admissible(request[r])
    /\ outcome' = [outcome EXCEPT ![r] = "refused"]
    /\ UNCHANGED <<staff, ledger, request, notified>>

Pending == {r \in Request : outcome[r] = "pending"}
OnRecord == {r \in Request : outcome[r] \in {"recorded", "erased"}}

\* Several requests fail at once when the process dies, some of those on
\* record being notified by then.
Fail(R, N) ==
    /\ outcome' = [r \in Request |-> IF r \in R THEN "failed" ELSE outcome[r]]
    /\ notified' = notified \cup N
    /\ UNCHANGED <<staff, ledger, request>>

Notify(r) ==
    /\ r \in OnRecord
    /\ notified' = notified \cup {r}
    /\ UNCHANGED <<staff, ledger, request, outcome>>

Hire(e) ==
    /\ staff' = staff \cup {e}
    /\ UNCHANGED <<ledger, request, outcome, notified>>

\* An employee goes with every row and every record about them.
Dismiss(e) ==
    /\ e \in staff
    /\ staff' = staff \ {e}
    /\ ledger' = [k \in Key |-> IF k[1] = e THEN NoRow ELSE ledger[k]]
    /\ outcome' = [r \in Request |->
                     IF outcome[r] = "recorded" /\ request[r].employeeId = e
                       THEN "erased" ELSE outcome[r]]
    /\ UNCHANGED <<request, notified>>

Next ==
    \/ \E r \in Request :
          \/ \E c \in Call : Accept(r, c)
          \/ Record(r)
          \/ Refuse(r)
          \/ Notify(r)
    \/ \E R \in SUBSET Pending, N \in SUBSET OnRecord : Fail(R, N)
    \/ \E e \in Employee : Hire(e) \/ Dismiss(e)

Spec == Init /\ [][Next]_vars
=============================================================================
