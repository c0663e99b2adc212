----------------------------- MODULE Attendance -----------------------------
(***************************************************************************)
(* AttendanceService: check-in and check-out, each a database transaction  *)
(* (MySQL, InnoDB, REPEATABLE READ) followed by a job on the mail queue,   *)
(* beside the EmployeesService operations that insert and delete the       *)
(* employee a transaction is about.                                        *)
(*                                                                         *)
(* A request runs through the awaits of its handler, one pc value each:    *)
(*    idle -> employee    the employee row is about to be locked           *)
(*         -> attendance  the attendance row is about to be locked         *)
(*         -> save        the INSERT or UPDATE is about to be sent         *)
(*         -> commit      COMMIT is about to be sent                       *)
(*         -> notify      the mail job is about to be added                *)
(*         -> done        the client has its answer, or never will         *)
(* Between two of them any other request, an administrator's call, an      *)
(* InnoDB deadlock or a fault may come.                                    *)
(***************************************************************************)
EXTENDS Naturals, FiniteSets

CONSTANTS
    Request,        \* the HTTP requests of a behaviour, each sent once
    Employee,       \* employee ids: numbers, for the index orders them
    Instant,        \* the instants a check-in or check-out may be about
    DayLength,      \* ticks in a day
    UtcOffset,      \* the server's time zone: toDateOnly reads local fields
    TicksPerSecond, \* an instant is finer than a DATETIME column
    NoTime,         \* SQL NULL in a time column
    NoCall,         \* a request that has not arrived
    Faults          \* which of "database", "redis" and "crash" may happen

-----------------------------------------------------------------------------
\* The calendar day of an instant in the server's time zone.
toDateOnly(t) == (t + UtcOffset) \div DayLength

\* checkInAt and checkOutAt are DATETIME without fraction: MySQL rounds to the
\* nearest second, so 23:59:59.5 is stored as the next day's midnight.
DatetimeColumn(t) ==
    ((2 * t + TicksPerSecond) \div (2 * TicksPerSecond)) * TicksPerSecond

Date == {toDateOnly(t) : t \in Instant}
Stored == {DatetimeColumn(t) : t \in Instant}

\* The columns of UQ_attendance_employee_date, in the order of the index.
Key == Employee \X Date

NoRow == [checkInAt |-> NoTime, checkOutAt |-> NoTime]
Row == {NoRow} \cup [checkInAt : Stored, checkOutAt : Stored \cup {NoTime}]

Call == [type : {"check-in", "check-out"}, employeeId : Employee, occurredAt : Instant]

Pc == {"idle", "employee", "attendance", "save", "commit", "notify", "done"}

\* 201, 200, 404, 409, 500, and the client of a process that died.
Status == {"none", "created", "ok", "notFound", "conflict", "error", "lost"}

ASSUME EmployeeAssumption == Employee \subseteq Nat
ASSUME InstantAssumption == Instant \subseteq Nat
ASSUME CalendarAssumption ==
    /\ DayLength \in Nat \ {0}
    /\ TicksPerSecond \in Nat \ {0}
    /\ UtcOffset \in Nat
\* Ids are UUIDs and a Date has a first and a last instant.
ASSUME FiniteAssumption == IsFiniteSet(Employee) /\ IsFiniteSet(Instant)
ASSUME NoTimeAssumption == NoTime \notin Stored
ASSUME NoCallAssumption == NoCall \notin Call
ASSUME FaultsAssumption == Faults \subseteq {"database", "redis", "crash"}

-----------------------------------------------------------------------------
VARIABLES
    employees,      \* committed rows of table employees
    attendances,    \* committed rows of table attendances, by unique key
    pc,             \* where each request is
    call,           \* its dto
    gap,            \* keys its transaction holds an InnoDB gap lock over
    status,         \* the HTTP answer
    queued,         \* requests whose notification is a job of the mail queue
    fate            \* history: "open", "recorded" by a COMMIT, and "erased"
                    \* when the employee's deletion took the record along

vars == <<employees, attendances, pc, call, gap, status, queued, fate>>

Init ==
    /\ employees = {}
    /\ attendances = [k \in Key |-> NoRow]
    /\ pc = [r \in Request |-> "idle"]
    /\ call = [r \in Request |-> NoCall]
    /\ gap = [r \in Request |-> {}]
    /\ status = [r \in Request |-> "none"]
    /\ queued = {}
    /\ fate = [r \in Request |-> "open"]

KeyFor(c) == <<c.employeeId, toDateOnly(c.occurredAt)>>
KeyOf(r) == KeyFor(call[r])
IsCheckIn(r) == call[r].type = "check-in"

-----------------------------------------------------------------------------
(* Locks. They are released by COMMIT and ROLLBACK, so which row locks a   *)
(* transaction holds follows from its pc.                                  *)

InTransaction(r) == pc[r] \in {"employee", "attendance", "save", "commit"}
HoldsEmployee(r) == pc[r] \in {"attendance", "save", "commit"}
HoldsAttendance(r) == pc[r] \in {"save", "commit"}

\* Fault variant: the employee is read without its pessimistic lock.
EmployeeLockFree_NoLock(e) == TRUE

\* SELECT ... FOR UPDATE on the employee and DELETE of the employee both wait
\* for the holder of the row's exclusive lock.
EmployeeLockFree(e) ==
    \A r \in Request : HoldsEmployee(r) => call[r].employeeId # e

AttendanceLockFree(k) ==
    \A r \in Request : HoldsAttendance(r) /\ attendances[KeyOf(r)] # NoRow => KeyOf(r) # k

Before(j, k) == j[1] < k[1] \/ (j[1] = k[1] /\ j[2] < k[2])

\* The keys of the index: committed rows, and rows inserted by a transaction
\* that has yet to commit.
Indexed ==
    {k \in Key : attendances[k] # NoRow}
        \cup {KeyOf(r) : r \in {s \in Request : pc[s] = "commit"}}

\* What a locking read that finds no row locks: the gap of the index around
\* the key, up to the indexed keys on both sides. Gap locks never exclude each
\* other; an INSERT waits for those of other transactions.
GapAround(k) == {j \in Key \ Indexed : \A p \in Indexed : Before(p, j) <=> Before(p, k)}

WaitsFor(r, s) == s # r /\ IsCheckIn(r) /\ KeyOf(r) \in gap[s]
InsertAllowed(r) == \A s \in Request : ~WaitsFor(r, s)

-----------------------------------------------------------------------------
(* The handlers.                                                           *)

Goto(r, label) == pc' = [pc EXCEPT ![r] = label]

\* Fault variant: a transaction whose statement failed is left open.
Answer_NoRollback(r, s) ==
    /\ Goto(r, "done")
    /\ status' = [status EXCEPT ![r] = s]
    /\ UNCHANGED gap

\* The handler returns or throws; its transaction, if one is open, ends.
Answer(r, s) ==
    /\ Goto(r, "done")
    /\ status' = [status EXCEPT ![r] = s]
    /\ gap' = [gap EXCEPT ![r] = {}]

Receive(r) ==
    /\ pc[r] = "idle"
    /\ \E c \in Call : call' = [call EXCEPT ![r] = c]
    /\ Goto(r, "employee")
    /\ UNCHANGED <<employees, attendances, gap, status, queued, fate>>

LockEmployee(r) ==
    /\ pc[r] = "employee"
    /\ call[r].employeeId \in employees
    /\ EmployeeLockFree(call[r].employeeId)
    /\ Goto(r, "attendance")
    /\ UNCHANGED <<employees, attendances, call, gap, status, queued, fate>>

EmployeeNotFound(r) ==
    /\ pc[r] = "employee"
    /\ call[r].employeeId \notin employees
    /\ Answer(r, "notFound")
    /\ UNCHANGED <<employees, attendances, call, queued, fate>>

getEmployeeOrFail(r) == LockEmployee(r) \/ EmployeeNotFound(r)

\* Fault variants: no check for a missing check-in, for an earlier check-out, and
\* a lookup by employee alone.
Conflicts_NoCheckIn(r) ==
    LET row == attendances[KeyOf(r)]
    IN  IF IsCheckIn(r) THEN row # NoRow ELSE row.checkOutAt # NoTime
Conflicts_NoCheckOut(r) ==
    LET row == attendances[KeyOf(r)]
    IN  IF IsCheckIn(r) THEN row # NoRow ELSE row = NoRow
Conflicts_AnyDate(r) ==
    LET found == {k \in Key : k[1] = call[r].employeeId /\ attendances[k] # NoRow}
        row == attendances[KeyOf(r)]
    IN  IF IsCheckIn(r) THEN found # {} ELSE row = NoRow \/ row.checkOutAt # NoTime

\* The three ConflictExceptions: a second check-in, a check-out before the
\* check-in, a second check-out.
Conflicts(r) ==
    LET row == attendances[KeyOf(r)]
    IN  IF IsCheckIn(r) THEN row # NoRow ELSE row = NoRow \/ row.checkOutAt # NoTime

Conflict(r) ==
    /\ pc[r] = "attendance"
    /\ AttendanceLockFree(KeyOf(r))
    /\ Conflicts(r)
    /\ Answer(r, "conflict")
    /\ UNCHANGED <<employees, attendances, call, queued, fate>>

LockAttendance(r) ==
    /\ pc[r] = "attendance"
    /\ AttendanceLockFree(KeyOf(r))
    /\ ~Conflicts(r)
    /\ gap' = [gap EXCEPT ![r] =
                 IF attendances[KeyOf(r)] = NoRow THEN GapAround(KeyOf(r)) ELSE {}]
    /\ Goto(r, "save")
    /\ UNCHANGED <<employees, attendances, call, status, queued, fate>>

findAttendanceForUpdate(r) == Conflict(r) \/ LockAttendance(r)

\* UQ_attendance_employee_date, which the caller maps to the same 409.
DuplicateEntry(r) == IsCheckIn(r) /\ attendances[KeyOf(r)] # NoRow

\* Fault variant: the notification is queued inside the transaction.
save_EnqueuesEarly(r) ==
    /\ pc[r] = "save"
    /\ InsertAllowed(r)
    /\ Goto(r, "commit")
    /\ queued' = queued \cup {r}
    /\ UNCHANGED <<employees, attendances, call, gap, status, fate>>

save(r) ==
    /\ pc[r] = "save"
    /\ InsertAllowed(r)
    /\ IF DuplicateEntry(r)
         THEN Answer(r, "conflict")
         ELSE Goto(r, "commit") /\ UNCHANGED <<gap, status>>
    /\ UNCHANGED <<employees, attendances, call, queued, fate>>

\* Fault variant: a check-out saves a new entity in place of the one it read.
NewRow_Fresh(r) ==
    LET t == DatetimeColumn(call[r].occurredAt)
    IN  [checkInAt |-> t, checkOutAt |-> IF IsCheckIn(r) THEN NoTime ELSE t]

\* The row as the transaction writes it; a check-out updates one column.
NewRow(r) ==
    LET t == DatetimeColumn(call[r].occurredAt)
    IN  IF IsCheckIn(r)
          THEN [checkInAt |-> t, checkOutAt |-> NoTime]
          ELSE [checkInAt |-> attendances[KeyOf(r)].checkInAt, checkOutAt |-> t]

Record(r) ==
    /\ pc[r] = "commit"
    /\ attendances' = [attendances EXCEPT ![KeyOf(r)] = NewRow(r)]
    /\ fate' = [fate EXCEPT ![r] = "recorded"]
    /\ UNCHANGED <<employees, call, queued>>

Commit(r) ==
    /\ Record(r)
    /\ Goto(r, "notify")
    /\ gap' = [gap EXCEPT ![r] = {}]
    /\ UNCHANGED status

Success(r) == IF IsCheckIn(r) THEN "created" ELSE "ok"

\* Fault variant: only check-ins are notified.
enqueueAttendanceNotification_CheckInOnly(r) ==
    /\ pc[r] = "notify"
    /\ queued' = IF IsCheckIn(r) THEN queued \cup {r} ELSE queued
    /\ Answer(r, Success(r))
    /\ UNCHANGED <<employees, attendances, call, fate>>

\* The job's payload is a function of the request, so the request stands for it.
enqueueAttendanceNotification(r) ==
    /\ pc[r] = "notify"
    /\ queued' = queued \cup {r}
    /\ Answer(r, Success(r))
    /\ UNCHANGED <<employees, attendances, call, fate>>

-----------------------------------------------------------------------------
(* What goes wrong.                                                        *)

\* Two inserts that wait for each other's gap lock.
MutualWait(r) ==
    \E s \in Request : pc[s] = "save" /\ WaitsFor(r, s) /\ WaitsFor(s, r)

\* InnoDB rolls one of them back with ER_LOCK_DEADLOCK, which the handler
\* rethrows as a 500. Longer cycles of waits need no action of their own: see
\* WaitsEnd.
DeadlockVictim(r) ==
    /\ pc[r] = "save"
    /\ MutualWait(r)
    /\ Answer(r, "error")
    /\ UNCHANGED <<employees, attendances, call, queued, fate>>

\* A statement or the COMMIT fails (a lost connection, a lock wait timeout).
TransactionFails(r) ==
    /\ "database" \in Faults
    /\ InTransaction(r)
    /\ Answer(r, "error")
    /\ UNCHANGED <<employees, attendances, call, queued, fate>>

\* The COMMIT took effect and its reply was lost.
CommitUnacknowledged(r) ==
    /\ "database" \in Faults
    /\ Record(r)
    /\ Answer(r, "error")

\* Fault variant: the rejection is caught and only logged.
EnqueueFails_Swallowed(r) ==
    /\ "redis" \in Faults
    /\ pc[r] = "notify"
    /\ Answer(r, Success(r))
    /\ UNCHANGED <<employees, attendances, call, queued, fate>>

\* queue.add rejects, with or without the job having reached Redis.
EnqueueFails(r) ==
    /\ "redis" \in Faults
    /\ pc[r] = "notify"
    /\ queued' \in {queued, queued \cup {r}}
    /\ Answer(r, "error")
    /\ UNCHANGED <<employees, attendances, call, fate>>

\* The API process dies: MySQL rolls open transactions back, and of the jobs
\* being added some are on the queue already.
Crash ==
    LET Lost == {r \in Request : pc[r] \notin {"idle", "done"}}
    IN  /\ "crash" \in Faults
        /\ Lost # {}
        /\ pc' = [r \in Request |-> IF r \in Lost THEN "done" ELSE pc[r]]
        /\ status' = [r \in Request |-> IF r \in Lost THEN "lost" ELSE status[r]]
        /\ gap' = [r \in Request |-> {}]
        /\ \E J \in SUBSET {r \in Request : pc[r] = "notify"} : queued' = queued \cup J
        /\ UNCHANGED <<employees, attendances, call, fate>>

-----------------------------------------------------------------------------
(* EmployeesService, as far as it touches these tables.                    *)

\* create, and the INSERT that update's save issues when the employee it had
\* read is gone by then.
insertEmployee(e) ==
    /\ e \notin employees
    /\ employees' = employees \cup {e}
    /\ UNCHANGED <<attendances, pc, call, gap, status, queued, fate>>

\* Fault variant: a foreign key without ON DELETE CASCADE and without a check.
Cascade_None(e) == attendances

\* The foreign key deletes the employee's attendances along.
Cascade(e) == [k \in Key |-> IF k[1] = e THEN NoRow ELSE attendances[k]]

removeEmployee(e) ==
    /\ e \in employees
    /\ EmployeeLockFree(e)
    /\ employees' = employees \ {e}
    /\ attendances' = Cascade(e)
    /\ fate' = [r \in Request |->
                  IF fate[r] = "recorded" /\ call[r].employeeId = e
                    THEN "erased" ELSE fate[r]]
    /\ UNCHANGED <<pc, call, gap, status, queued>>

-----------------------------------------------------------------------------
\* What the process and the database do of themselves once a request is in.
Progress(r) ==
    \/ getEmployeeOrFail(r)
    \/ findAttendanceForUpdate(r)
    \/ save(r)
    \/ DeadlockVictim(r)
    \/ Commit(r)
    \/ enqueueAttendanceNotification(r)

Fault(r) == TransactionFails(r) \/ CommitUnacknowledged(r) \/ EnqueueFails(r)

Next ==
    \/ \E r \in Request : Receive(r) \/ Progress(r) \/ Fault(r)
    \/ \E e \in Employee : insertEmployee(e) \/ removeEmployee(e)
    \/ Crash

Spec == Init /\ [][Next]_vars

\* Every statement returns, InnoDB detects deadlocks, and the event loop runs
\* each continuation. Nothing makes a client or an administrator call.
FairSpec == Spec /\ \A r \in Request : WF_vars(Progress(r))

-----------------------------------------------------------------------------
(* Properties.                                                             *)

TypeOK ==
    /\ employees \subseteq Employee
    /\ attendances \in [Key -> Row]
    /\ pc \in [Request -> Pc]
    /\ call \in [Request -> Call \cup {NoCall}]
    /\ gap \in [Request -> SUBSET Key]
    /\ status \in [Request -> Status]
    /\ queued \subseteq Request
    /\ fate \in [Request -> {"open", "recorded", "erased"}]

Recorded(r) == fate[r] = "recorded"
EverRecorded(r) == fate[r] \in {"recorded", "erased"}
SameKind(r, s) == call[r].type = call[s].type /\ KeyOf(r) = KeyOf(s)

\* Of the check-ins (and of the check-outs) of an employee on a day, however
\* they interleave, at most one stands on record.
OneRecordPerDay ==
    \A r, s \in Request : Recorded(r) /\ Recorded(s) /\ SameKind(r, s) => r = s

\* The table says what the committed requests said and nothing else: a column
\* of a row is set exactly when a request on record is the one that set it.
TableMatchesRecords ==
    \A k \in Key :
        LET By(type) == {r \in Request : Recorded(r) /\ call[r].type = type /\ KeyOf(r) = k}
            Times(type) == {DatetimeColumn(call[r].occurredAt) : r \in By(type)}
            Column(t) == {t} \ {NoTime}
        IN  /\ Column(attendances[k].checkInAt) = Times("check-in")
            /\ Column(attendances[k].checkOutAt) = Times("check-out")

\* "Already checked in" is only said when another request has checked the
\* employee in for that day, even if its own client was never told so.
ConflictHasCause ==
    \A r \in Request :
        status[r] = "conflict" /\ IsCheckIn(r)
            => \E s \in Request \ {r} : EverRecorded(s) /\ SameKind(r, s)

\* The answer tells what happened: success means recorded and notified, and
\* 404 or 409 that the request left no trace. (500 says neither.)
AnswerMatchesRecord ==
    \A r \in Request :
        /\ status[r] \in {"created", "ok"} => EverRecorded(r) /\ r \in queued
        /\ status[r] \in {"notFound", "conflict"} => ~EverRecorded(r) /\ r \notin queued

\* No e-mail tells of a check-in or check-out that was rolled back.
NotifiedOnlyIfRecorded == \A r \in queued : EverRecorded(r)

\* A row of attendances always has its employee.
NoOrphans == \A k \in Key : attendances[k] # NoRow => k[1] \in employees

\* Between the locking read a transaction decides on and its COMMIT, nobody
\* else changes the row it decided on or deletes its employee.
DecisionStable ==
    [][\A r \in Request :
          HoldsAttendance(r) /\ pc'[r] \in {"save", "commit"}
              => /\ attendances'[KeyOf(r)] = attendances[KeyOf(r)]
                 /\ call[r].employeeId \in employees']_vars

\* The guards of what a transaction may do next.
MayGoOn(r) ==
    \/ /\ pc[r] = "employee"
       /\ call[r].employeeId \in employees => EmployeeLockFree(call[r].employeeId)
    \/ pc[r] = "attendance" /\ AttendanceLockFree(KeyOf(r))
    \/ pc[r] = "save" /\ (InsertAllowed(r) \/ MutualWait(r))
    \/ pc[r] = "commit"

\* Transactions never all wait for each other: of those that are open, one may
\* go on, or is in a two-way wait that InnoDB breaks. Row locks of employees,
\* row locks of attendances and gap locks together close no longer cycle.
WaitsEnd ==
    (\E r \in Request : InTransaction(r)) => \E r \in Request : MayGoOn(r)

\* Without faults every request is answered, whatever it has to wait for.
EveryRequestAnswered == \A r \in Request : pc[r] # "idle" ~> pc[r] = "done"

\* Without faults what is recorded is also notified.
RecordedIsNotified == \A r \in Request : Recorded(r) ~> r \in queued

\* Without faults a check-in is answered with a status attendance.controller.ts
\* documents: 201, 404 or 409.
OnlyDocumentedStatuses ==
    \A r \in Request :
        pc[r] = "done" /\ IsCheckIn(r) => status[r] \in {"created", "notFound", "conflict"}
=============================================================================
