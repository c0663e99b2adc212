-------------------------- MODULE AttendanceProofs --------------------------
(***************************************************************************)
(* Safety of Attendance for every set of requests, employees and instants, *)
(* and every subset of the faults.                                         *)
(*                                                                         *)
(* The argument: the employee's lock lets one transaction per employee     *)
(* past getEmployeeOrFail (LockExclusion), so the row a transaction has    *)
(* decided on (Decided) and the employee it found (StaffPresent) are still *)
(* the same when it commits. A check-in then commits into an absent row    *)
(* and a check-out into an open one, and since a row still carries what    *)
(* every request on record wrote (RowsTellRecords), none of the same kind  *)
(* can be on record already.                                               *)
(***************************************************************************)
EXTENDS Attendance, TLAPS

-----------------------------------------------------------------------------
(* The inductive invariant.                                                *)

Arrived == \A r \in Request : pc[r] # "idle" => call[r] \in Call

LockExclusion ==
    \A r, s \in Request :
        HoldsEmployee(r) /\ HoldsEmployee(s) /\ call[r].employeeId = call[s].employeeId
            => r = s

StaffPresent == \A r \in Request : HoldsEmployee(r) => call[r].employeeId \in employees

Decided == \A r \in Request : HoldsAttendance(r) => ~Conflicts(r)

Lifecycle ==
    \A r \in Request :
        /\ fate[r] # "open" => pc[r] \in {"notify", "done"}
        /\ pc[r] = "notify" => fate[r] # "open"
        /\ status[r] # "none" => pc[r] = "done"

RowsTellRecords ==
    \A r \in Request :
        Recorded(r) =>
            LET row == attendances[KeyOf(r)]
                t == DatetimeColumn(call[r].occurredAt)
            IN  IF IsCheckIn(r) THEN row.checkInAt = t ELSE row.checkOutAt = t

IInv ==
    /\ TypeOK
    /\ Arrived
    /\ LockExclusion
    /\ StaffPresent
    /\ Decided
    /\ Lifecycle
    /\ RowsTellRecords
    /\ NoOrphans
    /\ NotifiedOnlyIfRecorded
    /\ AnswerMatchesRecord
    /\ OneRecordPerDay

-----------------------------------------------------------------------------
(* Operators.                                                              *)

\* A call is about a key of the table, and a key is about its employee.
LEMMA KeyForType ==
    ASSUME NEW c \in Call
    PROVE  KeyFor(c) \in Key /\ KeyFor(c)[1] = c.employeeId
BY DEF Call, KeyFor, Key, Date

\* What a call stores is a time of the column, and no NULL.
LEMMA StoredTime ==
    ASSUME NEW c \in Call
    PROVE  DatetimeColumn(c.occurredAt) \in Stored /\ DatetimeColumn(c.occurredAt) # NoTime
BY NoTimeAssumption DEF Call, Stored

\* A row that is there has a check-in time, and one closed has both times.
LEMMA RowShape ==
    ASSUME NEW row \in Row
    PROVE  /\ row.checkInAt # NoTime <=> row # NoRow
           /\ row.checkOutAt # NoTime => row # NoRow
BY NoTimeAssumption DEF Row, NoRow

\* A request that has not conflicted writes a row of the table: a check-in an
\* open one, a check-out the same one, closed.
LEMMA NewRowType ==
    ASSUME NEW r \in Request, TypeOK, call[r] \in Call, ~Conflicts(r)
    PROVE  /\ NewRow(r) \in Row
           /\ NewRow(r) # NoRow
           /\ IsCheckIn(r) => /\ attendances[KeyOf(r)] = NoRow
                              /\ NewRow(r).checkInAt = DatetimeColumn(call[r].occurredAt)
           /\ ~IsCheckIn(r) => /\ attendances[KeyOf(r)] # NoRow
                               /\ attendances[KeyOf(r)].checkOutAt = NoTime
                               /\ NewRow(r).checkInAt = attendances[KeyOf(r)].checkInAt
                               /\ NewRow(r).checkOutAt = DatetimeColumn(call[r].occurredAt)
<1> DEFINE row == attendances[KeyOf(r)]
           t == DatetimeColumn(call[r].occurredAt)
<1>1. row \in Row
  BY KeyForType DEF TypeOK, KeyOf
<1>2. t \in Stored /\ t # NoTime
  BY StoredTime
<1>3. CASE IsCheckIn(r)
  <2>1. row = NoRow /\ NewRow(r) = [checkInAt |-> t, checkOutAt |-> NoTime]
    BY <1>3 DEF Conflicts, NewRow
  <2> QED
    BY <1>2, <1>3, <2>1 DEF Row, NoRow
<1>4. CASE ~IsCheckIn(r)
  <2>1. row # NoRow /\ row.checkOutAt = NoTime /\ NewRow(r) = [checkInAt |-> row.checkInAt, checkOutAt |-> t]
    BY <1>4 DEF Conflicts, NewRow
  <2>2. row \in [checkInAt : Stored, checkOutAt : Stored \cup {NoTime}]
    BY <1>1, <2>1 DEF Row
  <2>3. /\ NewRow(r) \in [checkInAt : Stored, checkOutAt : Stored \cup {NoTime}]
        /\ NewRow(r).checkInAt = row.checkInAt
        /\ NewRow(r).checkOutAt = t
    BY <1>2, <2>1, <2>2
  <2> QED
    BY <1>2, <1>4, <2>1, <2>3 DEF Row, NoRow
<1> QED
  BY <1>3, <1>4

-----------------------------------------------------------------------------
(* Initially, and step by step.                                            *)

LEMMA InitIInv == Init => IInv
<1> SUFFICES ASSUME Init PROVE IInv
  OBVIOUS
<1>1. TypeOK
  BY DEF Init, TypeOK, Row, Pc, Status
<1>2. Arrived /\ LockExclusion /\ StaffPresent /\ Decided
  BY DEF Init, Arrived, LockExclusion, StaffPresent, Decided, HoldsEmployee, HoldsAttendance
<1>3. Lifecycle /\ RowsTellRecords /\ NoOrphans
  BY DEF Init, Lifecycle, RowsTellRecords, NoOrphans, Recorded
<1>4. NotifiedOnlyIfRecorded /\ AnswerMatchesRecord /\ OneRecordPerDay
  BY DEF Init, NotifiedOnlyIfRecorded, AnswerMatchesRecord, OneRecordPerDay, Recorded
<1> QED
  BY <1>1, <1>2, <1>3, <1>4 DEF IInv

\* A request arrives.
LEMMA ReceiveStep ==
    ASSUME IInv, NEW r \in Request, Receive(r)
    PROVE  IInv'
<1> USE DEF IInv, Receive, Goto
<1>0. PICK c \in Call : call' = [call EXCEPT ![r] = c]
  OBVIOUS
<1>1. fate[r] = "open" /\ r \notin queued /\ status[r] = "none"
  BY DEF TypeOK, Lifecycle, NotifiedOnlyIfRecorded, EverRecorded
<1>2. \A s \in Request : s # r => /\ call'[s] = call[s]
                                  /\ pc'[s] = pc[s]
                                  /\ KeyOf(s)' = KeyOf(s)
                                  /\ IsCheckIn(s)' = IsCheckIn(s)
  BY <1>0 DEF TypeOK, KeyOf, IsCheckIn
<1>3. pc'[r] = "employee" /\ call'[r] = c
  BY <1>0 DEF TypeOK
<1>4. TypeOK' /\ Arrived'
  BY <1>0, <1>2, <1>3 DEF TypeOK, Arrived, Pc
<1>5. LockExclusion' /\ StaffPresent'
  BY <1>2, <1>3 DEF LockExclusion, StaffPresent, HoldsEmployee
<1>6. Decided'
  BY <1>2, <1>3 DEF Decided, HoldsAttendance, Conflicts
<1>7. Lifecycle'
  BY <1>1, <1>2, <1>3 DEF Lifecycle
<1>8. RowsTellRecords'
  BY <1>1, <1>2 DEF RowsTellRecords, Recorded
<1>9. NoOrphans' /\ NotifiedOnlyIfRecorded' /\ AnswerMatchesRecord'
  BY DEF NoOrphans, NotifiedOnlyIfRecorded, AnswerMatchesRecord, EverRecorded
<1>10. OneRecordPerDay'
  BY <1>1, <1>2 DEF OneRecordPerDay, Recorded, SameKind
<1> QED
  BY <1>4, <1>5, <1>6, <1>7, <1>8, <1>9, <1>10

\* A transaction goes one statement further, and changes nothing committed.
LEMMA StatementStep ==
    ASSUME IInv, NEW r \in Request, LockEmployee(r) \/ LockAttendance(r) \/ (save(r) /\ ~DuplicateEntry(r))
    PROVE  IInv'
<1> USE DEF IInv, Goto
<1>1. UNCHANGED <<employees, attendances, call, status, queued, fate>>
  BY DEF LockEmployee, LockAttendance, save
<1>2. /\ pc[r] \in {"employee", "attendance", "save"}
      /\ pc'[r] \in {"attendance", "save", "commit"}
      /\ pc' = [pc EXCEPT ![r] = pc'[r]]
  BY DEF TypeOK, LockEmployee, LockAttendance, save
<1>3. \A s \in Request : KeyOf(s)' = KeyOf(s) /\ IsCheckIn(s)' = IsCheckIn(s) /\ Conflicts(s)' = Conflicts(s)
  BY <1>1 DEF KeyOf, IsCheckIn, Conflicts
<1>4. gap' \in [Request -> SUBSET Key]
  BY DEF TypeOK, LockEmployee, LockAttendance, save, GapAround
<1>5. TypeOK' /\ Arrived'
  BY <1>1, <1>2, <1>4 DEF TypeOK, Arrived, Pc
<1>6. HoldsEmployee(r) \/ (call[r].employeeId \in employees /\ EmployeeLockFree(call[r].employeeId))
  BY DEF LockEmployee, LockAttendance, save, HoldsEmployee
<1>7. \A s \in Request : HoldsEmployee(s)' => s = r \/ HoldsEmployee(s)
  BY <1>2 DEF TypeOK, HoldsEmployee
<1>8. LockExclusion' /\ StaffPresent'
  BY <1>1, <1>6, <1>7 DEF LockExclusion, StaffPresent, EmployeeLockFree
<1>9. Decided'
  <2>1. HoldsAttendance(r)' => ~Conflicts(r)
    BY <1>2 DEF TypeOK, Decided, LockEmployee, LockAttendance, save, HoldsAttendance
  <2>2. \A s \in Request : HoldsAttendance(s)' => s = r \/ HoldsAttendance(s)
    BY <1>2 DEF TypeOK, HoldsAttendance
  <2> QED
    BY <1>3, <2>1, <2>2 DEF Decided
<1>10. Lifecycle'
  BY <1>1, <1>2 DEF TypeOK, Lifecycle
<1>11. RowsTellRecords' /\ NoOrphans' /\ NotifiedOnlyIfRecorded'
  BY <1>1, <1>3 DEF RowsTellRecords, Recorded, NoOrphans, NotifiedOnlyIfRecorded, EverRecorded
<1>12. AnswerMatchesRecord' /\ OneRecordPerDay'
  BY <1>1, <1>3 DEF AnswerMatchesRecord, EverRecorded, OneRecordPerDay, Recorded, SameKind
<1> QED
  BY <1>5, <1>8, <1>9, <1>10, <1>11, <1>12

\* Requests that are not on record end unsuccessfully.
LEMMA RollbackStep ==
    ASSUME IInv,
           NEW L \in SUBSET Request,
           pc' = [r \in Request |-> IF r \in L THEN "done" ELSE pc[r]],
           gap' \in [Request -> SUBSET Key],
           status' \in [Request -> Status],
           \A r \in Request \ L : status'[r] = status[r],
           \A r \in L : status'[r] \notin {"created", "ok"},
           \A r \in L : status'[r] \in {"notFound", "conflict"} => fate[r] = "open",
           \A r \in L : call[r] \in Call,
           queued \subseteq queued', queued' \subseteq Request,
           \A r \in queued' \ queued : r \in L /\ fate[r] # "open" /\ status'[r] \notin {"notFound", "conflict"},
           UNCHANGED <<employees, attendances, call, fate>>
    PROVE  IInv'
<1> USE DEF IInv
<1>1. \A r \in Request : KeyOf(r)' = KeyOf(r) /\ IsCheckIn(r)' = IsCheckIn(r) /\ Conflicts(r)' = Conflicts(r)
  BY DEF KeyOf, IsCheckIn, Conflicts
<1>2. \A r \in Request : /\ r \in L => pc'[r] = "done"
                         /\ r \notin L => pc'[r] = pc[r]
  OBVIOUS
<1>3. TypeOK' /\ Arrived'
  BY DEF TypeOK, Arrived, Pc
<1>4. \A r \in Request : /\ HoldsEmployee(r)' => HoldsEmployee(r)
                         /\ HoldsAttendance(r)' => HoldsAttendance(r)
  BY <1>2 DEF HoldsEmployee, HoldsAttendance
<1>5. LockExclusion' /\ StaffPresent' /\ Decided'
  BY <1>1, <1>4 DEF LockExclusion, StaffPresent, Decided
<1>6. Lifecycle'
  BY <1>2 DEF Lifecycle
<1>7. RowsTellRecords' /\ NoOrphans' /\ OneRecordPerDay'
  BY <1>1 DEF RowsTellRecords, Recorded, NoOrphans, OneRecordPerDay, SameKind
<1>8. NotifiedOnlyIfRecorded'
  BY DEF TypeOK, NotifiedOnlyIfRecorded, EverRecorded
<1>9. AnswerMatchesRecord'
  <2> SUFFICES ASSUME NEW r \in Request
               PROVE  /\ status'[r] \in {"created", "ok"} => EverRecorded(r) /\ r \in queued'
                      /\ status'[r] \in {"notFound", "conflict"} => ~EverRecorded(r) /\ r \notin queued'
    BY DEF AnswerMatchesRecord, EverRecorded
  <2>1. CASE r \in L
    BY <2>1 DEF NotifiedOnlyIfRecorded, EverRecorded
  <2>2. CASE r \notin L
    BY <2>2 DEF AnswerMatchesRecord
  <2> QED
    BY <2>1, <2>2
<1> QED
  BY <1>3, <1>5, <1>6, <1>7, <1>8, <1>9

\* A COMMIT: the row that was decided on is written.
LEMMA RecordStep ==
    ASSUME IInv, NEW r \in Request, Commit(r) \/ CommitUnacknowledged(r)
    PROVE  IInv'
<1> USE DEF IInv, Goto, Answer
<1>1. Record(r)
  BY DEF Commit, CommitUnacknowledged
<1> DEFINE k == KeyOf(r)
<1>2. /\ pc[r] = "commit" /\ call[r] \in Call /\ ~Conflicts(r) /\ fate[r] = "open"
      /\ r \notin queued /\ call[r].employeeId \in employees
      /\ k \in Key /\ k[1] = call[r].employeeId
  BY <1>1, KeyForType DEF Record, Arrived, Decided, Lifecycle, HoldsAttendance, HoldsEmployee,
     StaffPresent, NotifiedOnlyIfRecorded, EverRecorded, KeyOf, TypeOK
<1>3. /\ attendances' = [attendances EXCEPT ![k] = NewRow(r)]
      /\ fate' = [fate EXCEPT ![r] = "recorded"]
      /\ UNCHANGED <<employees, call, queued>>
  BY <1>1 DEF Record
<1>4. /\ pc'[r] \in {"notify", "done"}
      /\ pc' = [pc EXCEPT ![r] = pc'[r]]
      /\ gap' \in [Request -> SUBSET Key]
      /\ status' \in [Request -> Status]
      /\ status'[r] \in {"none", "error"} /\ (pc'[r] = "notify" => status'[r] = "none")
      /\ \A s \in Request : s # r => status'[s] = status[s]
  BY <1>2 DEF TypeOK, Status, Lifecycle, Commit, CommitUnacknowledged
<1>5. \A s \in Request : KeyOf(s)' = KeyOf(s) /\ IsCheckIn(s)' = IsCheckIn(s)
  BY <1>3 DEF KeyOf, IsCheckIn
<1>6. TypeOK' /\ Arrived'
  BY <1>2, <1>3, <1>4, NewRowType DEF TypeOK, Arrived, Pc
<1>7. \A s \in Request : /\ HoldsEmployee(s)' => s # r /\ HoldsEmployee(s)
                         /\ HoldsAttendance(s)' => s # r /\ HoldsAttendance(s)
  BY <1>4 DEF TypeOK, HoldsEmployee, HoldsAttendance
<1>8. LockExclusion' /\ StaffPresent'
  BY <1>3, <1>7 DEF LockExclusion, StaffPresent
<1>9. Decided'
  <2> SUFFICES ASSUME NEW s \in Request, HoldsAttendance(s)' PROVE ~Conflicts(s)'
    BY DEF Decided
  <2>1. s # r /\ HoldsAttendance(s) /\ call[s] \in Call
    BY <1>7 DEF Arrived, HoldsAttendance
  <2>2. call[s].employeeId # call[r].employeeId
    BY <1>2, <2>1 DEF LockExclusion, HoldsEmployee, HoldsAttendance
  <2>3. KeyOf(s) # k /\ KeyOf(s) \in Key
    BY <1>2, <2>1, <2>2, KeyForType DEF KeyOf
  <2>4. attendances'[KeyOf(s)] = attendances[KeyOf(s)]
    BY <1>3, <2>3 DEF TypeOK
  <2> QED
    BY <1>5, <2>1, <2>4 DEF Decided, Conflicts
<1>10. Lifecycle'
  BY <1>3, <1>4 DEF TypeOK, Lifecycle
<1>11. \A s \in Request : Recorded(s)' <=> s = r \/ Recorded(s)
  BY <1>3 DEF TypeOK, Recorded
<1>12. \A s \in Request : Recorded(s) => ~SameKind(r, s)
  <2> SUFFICES ASSUME NEW s \in Request, Recorded(s), SameKind(r, s) PROVE FALSE
    OBVIOUS
  <2>1. KeyOf(s) = k /\ (IsCheckIn(s) <=> IsCheckIn(r)) /\ call[s] \in Call
    BY DEF SameKind, IsCheckIn, Recorded, Lifecycle, Arrived
  <2>2. DatetimeColumn(call[s].occurredAt) # NoTime
    BY <2>1, StoredTime
  <2> QED
    BY <1>2, <2>1, <2>2, NewRowType DEF RowsTellRecords, NoRow
<1>13. RowsTellRecords'
  <2> SUFFICES ASSUME NEW s \in Request, Recorded(s)'
               PROVE  LET row == attendances'[KeyOf(s)]
                          t == DatetimeColumn(call[s].occurredAt)
                      IN  IF IsCheckIn(s) THEN row.checkInAt = t ELSE row.checkOutAt = t
    BY <1>3, <1>5 DEF RowsTellRecords
  <2>1. CASE s = r
    BY <1>2, <1>3, <2>1, NewRowType DEF TypeOK
  <2>2. CASE s # r
    <3>1. Recorded(s) /\ call[s] \in Call
      BY <1>11, <2>2 DEF Recorded, Lifecycle, Arrived
    <3>2. CASE KeyOf(s) # k
      BY <1>3, <3>1, <3>2, KeyForType DEF TypeOK, RowsTellRecords, KeyOf
    <3>3. CASE KeyOf(s) = k
      <4>1. IsCheckIn(s) # IsCheckIn(r)
        BY <1>2, <1>12, <3>1, <3>3 DEF SameKind, IsCheckIn, Call
      <4>2. attendances'[k] = NewRow(r)
        BY <1>2, <1>3 DEF TypeOK
      <4>3. DatetimeColumn(call[s].occurredAt) # NoTime
        BY <3>1, StoredTime
      <4> QED
        BY <1>2, <3>1, <3>3, <4>1, <4>2, <4>3, NewRowType DEF RowsTellRecords, NoRow
    <3> QED
      BY <3>2, <3>3
  <2> QED
    BY <2>1, <2>2
<1>14. NoOrphans'
  BY <1>2, <1>3 DEF NoOrphans, TypeOK
<1>15. NotifiedOnlyIfRecorded' /\ AnswerMatchesRecord'
  BY <1>2, <1>3, <1>4 DEF TypeOK, NotifiedOnlyIfRecorded, AnswerMatchesRecord, EverRecorded
<1>16. OneRecordPerDay'
  <2>1. \A s1, s2 \in Request : SameKind(s1, s2)' = SameKind(s1, s2)
    BY <1>3, <1>5 DEF SameKind
  <2>2. \A s \in Request : Recorded(s) => ~SameKind(s, r)
    BY <1>12 DEF SameKind
  <2> QED
    BY <1>11, <1>12, <2>1, <2>2 DEF OneRecordPerDay
<1> QED
  BY <1>6, <1>8, <1>9, <1>10, <1>13, <1>14, <1>15, <1>16

\* The mail job of a request on record is added, or adding it fails.
LEMMA EnqueueStep ==
    ASSUME IInv, NEW r \in Request, enqueueAttendanceNotification(r) \/ EnqueueFails(r)
    PROVE  IInv'
<1> USE DEF IInv
<1>1. /\ pc[r] = "notify" /\ fate[r] # "open"
      /\ pc' = [pc EXCEPT ![r] = "done"]
      /\ gap' = [gap EXCEPT ![r] = {}]
      /\ \E a \in {"created", "ok", "error"} :
            /\ status' = [status EXCEPT ![r] = a]
            /\ a # "error" => r \in queued'
      /\ queued' \in {queued, queued \cup {r}}
      /\ UNCHANGED <<employees, attendances, call, fate>>
  BY DEF enqueueAttendanceNotification, EnqueueFails, Answer, Goto, Success, Lifecycle
<1>2. \A s \in Request : KeyOf(s)' = KeyOf(s) /\ IsCheckIn(s)' = IsCheckIn(s) /\ Conflicts(s)' = Conflicts(s)
  BY <1>1 DEF KeyOf, IsCheckIn, Conflicts
<1>3. TypeOK' /\ Arrived'
  BY <1>1 DEF TypeOK, Arrived, Pc, Status
<1>4. \A s \in Request : /\ HoldsEmployee(s)' => HoldsEmployee(s)
                         /\ HoldsAttendance(s)' => HoldsAttendance(s)
  BY <1>1 DEF TypeOK, HoldsEmployee, HoldsAttendance
<1>5. LockExclusion' /\ StaffPresent' /\ Decided'
  BY <1>1, <1>2, <1>4 DEF LockExclusion, StaffPresent, Decided
<1>6. Lifecycle'
  BY <1>1 DEF TypeOK, Lifecycle
<1>7. RowsTellRecords' /\ NoOrphans' /\ OneRecordPerDay'
  BY <1>1, <1>2 DEF RowsTellRecords, Recorded, NoOrphans, OneRecordPerDay, SameKind
<1>8. NotifiedOnlyIfRecorded' /\ AnswerMatchesRecord'
  BY <1>1 DEF TypeOK, NotifiedOnlyIfRecorded, AnswerMatchesRecord, EverRecorded
<1> QED
  BY <1>3, <1>5, <1>6, <1>7, <1>8

\* An employee is inserted.
LEMMA InsertEmployeeStep ==
    ASSUME IInv, NEW e \in Employee, insertEmployee(e)
    PROVE  IInv'
BY DEF IInv, insertEmployee, TypeOK, Arrived, LockExclusion, StaffPresent, Decided, Lifecycle,
       RowsTellRecords, NoOrphans, NotifiedOnlyIfRecorded, AnswerMatchesRecord, OneRecordPerDay,
       HoldsEmployee, HoldsAttendance, Conflicts, KeyOf, IsCheckIn, Recorded, EverRecorded, SameKind

\* An employee is deleted with all rows, while no transaction holds the lock.
LEMMA RemoveEmployeeStep ==
    ASSUME IInv, NEW e \in Employee, removeEmployee(e)
    PROVE  IInv'
<1> USE DEF IInv
<1>1. /\ employees' = employees \ {e}
      /\ attendances' = [k \in Key |-> IF k[1] = e THEN NoRow ELSE attendances[k]]
      /\ EmployeeLockFree(e)
      /\ UNCHANGED <<pc, call, gap, status, queued>>
  BY DEF removeEmployee, Cascade
<1>2. \A r \in Request : fate'[r] = IF fate[r] = "recorded" /\ call[r].employeeId = e
                                   THEN "erased" ELSE fate[r]
  BY DEF removeEmployee
<1>3. \A r \in Request : KeyOf(r)' = KeyOf(r) /\ IsCheckIn(r)' = IsCheckIn(r)
  BY <1>1 DEF KeyOf, IsCheckIn
<1>4. \A r \in Request : call[r] \in Call /\ call[r].employeeId # e
                           => attendances'[KeyOf(r)] = attendances[KeyOf(r)]
  BY <1>1, KeyForType DEF KeyOf
<1>5. TypeOK' /\ Arrived'
  BY <1>1 DEF TypeOK, Arrived, Row, removeEmployee
<1>6. LockExclusion' /\ StaffPresent'
  BY <1>1 DEF LockExclusion, StaffPresent, HoldsEmployee, EmployeeLockFree
<1>7. Decided'
  <2> SUFFICES ASSUME NEW r \in Request, HoldsAttendance(r) PROVE ~Conflicts(r)'
    BY <1>1 DEF Decided, HoldsAttendance
  <2>1. call[r] \in Call /\ call[r].employeeId # e
    BY <1>1 DEF Arrived, EmployeeLockFree, HoldsEmployee, HoldsAttendance
  <2> QED
    BY <1>3, <1>4, <2>1 DEF Decided, Conflicts
<1>8. Lifecycle'
  BY <1>1, <1>2 DEF Lifecycle
<1>9. \A r \in Request : Recorded(r)' => Recorded(r) /\ call[r] \in Call /\ call[r].employeeId # e
  BY <1>2 DEF Recorded, Lifecycle, Arrived
<1>10. RowsTellRecords'
  BY <1>1, <1>3, <1>4, <1>9 DEF RowsTellRecords
<1>11. NoOrphans'
  BY <1>1 DEF NoOrphans, TypeOK
<1>12. NotifiedOnlyIfRecorded' /\ AnswerMatchesRecord'
  BY <1>1, <1>2 DEF TypeOK, NotifiedOnlyIfRecorded, AnswerMatchesRecord, EverRecorded
<1>13. OneRecordPerDay'
  BY <1>1, <1>3, <1>9 DEF OneRecordPerDay, SameKind
<1> QED
  BY <1>5, <1>6, <1>7, <1>8, <1>10, <1>11, <1>12, <1>13

\* A handler that gives up, as an instance of RollbackStep.
LEMMA AnswerStep ==
    ASSUME IInv, NEW r \in Request, NEW a \in {"notFound", "conflict", "error"},
           InTransaction(r), Answer(r, a),
           UNCHANGED <<employees, attendances, call, queued, fate>>
    PROVE  IInv'
<1>1. fate[r] = "open" /\ call[r] \in Call
  BY DEF IInv, InTransaction, Lifecycle, Arrived
<1>2. pc' = [s \in Request |-> IF s \in {r} THEN "done" ELSE pc[s]]
  BY DEF IInv, TypeOK, Answer, Goto
<1>3. /\ gap' \in [Request -> SUBSET Key]
      /\ status' \in [Request -> Status]
      /\ \A s \in Request \ {r} : status'[s] = status[s]
      /\ status'[r] = a
  BY DEF IInv, TypeOK, Answer, Status
<1>4. queued' \subseteq Request
  BY DEF IInv, TypeOK
<1>5. {r} \in SUBSET Request
  OBVIOUS
<1> QED
  BY <1>1, <1>2, <1>3, <1>4, <1>5, RollbackStep

\* The process dies, as an instance of RollbackStep.
LEMMA CrashStep ==
    ASSUME IInv, Crash
    PROVE  IInv'
<1> DEFINE L == {r \in Request : pc[r] \notin {"idle", "done"}}
<1>1. /\ pc' = [r \in Request |-> IF r \in L THEN "done" ELSE pc[r]]
      /\ status' = [r \in Request |-> IF r \in L THEN "lost" ELSE status[r]]
      /\ gap' = [r \in Request |-> {}]
      /\ UNCHANGED <<employees, attendances, call, fate>>
  BY DEF Crash
<1>2. PICK J \in SUBSET {r \in Request : pc[r] = "notify"} : queued' = queued \cup J
  BY DEF Crash
<1>3. gap' \in [Request -> SUBSET Key] /\ status' \in [Request -> Status]
  BY <1>1 DEF IInv, TypeOK, Status
<1>4. \A r \in L : call[r] \in Call /\ status'[r] = "lost"
  BY <1>1 DEF IInv, Arrived
<1>5. /\ queued \subseteq queued' /\ queued' \subseteq Request
      /\ \A r \in queued' \ queued : r \in L /\ fate[r] # "open"
  BY <1>2 DEF IInv, TypeOK, Lifecycle
<1>6. L \in SUBSET Request /\ \A r \in Request \ L : status'[r] = status[r]
  BY <1>1
<1> HIDE DEF L
<1> QED
  BY <1>1, <1>3, <1>4, <1>5, <1>6, RollbackStep

\* Every step of the system keeps the invariant.
LEMMA NextIInv == IInv /\ [Next]_vars => IInv'
<1> SUFFICES ASSUME IInv, [Next]_vars PROVE IInv'
  OBVIOUS
<1>1. ASSUME NEW r \in Request, Receive(r) PROVE IInv'
  BY <1>1, ReceiveStep
<1>2. ASSUME NEW r \in Request, getEmployeeOrFail(r) PROVE IInv'
  <2>1. CASE LockEmployee(r)
    BY <2>1, StatementStep
  <2>2. CASE EmployeeNotFound(r)
    BY <2>2, AnswerStep DEF EmployeeNotFound, InTransaction
  <2> QED
    BY <1>2, <2>1, <2>2 DEF getEmployeeOrFail
<1>3. ASSUME NEW r \in Request, findAttendanceForUpdate(r) PROVE IInv'
  <2>1. CASE LockAttendance(r)
    BY <2>1, StatementStep
  <2>2. CASE Conflict(r)
    BY <2>2, AnswerStep DEF Conflict, InTransaction
  <2> QED
    BY <1>3, <2>1, <2>2 DEF findAttendanceForUpdate
<1>4. ASSUME NEW r \in Request, save(r) PROVE IInv'
  <2>1. CASE DuplicateEntry(r)
    BY <1>4, <2>1, AnswerStep DEF save, InTransaction
  <2>2. CASE ~DuplicateEntry(r)
    BY <1>4, <2>2, StatementStep
  <2> QED
    BY <2>1, <2>2
<1>5. ASSUME NEW r \in Request, DeadlockVictim(r) \/ TransactionFails(r) PROVE IInv'
  BY <1>5, AnswerStep DEF DeadlockVictim, TransactionFails, InTransaction
<1>6. ASSUME NEW r \in Request, Commit(r) \/ CommitUnacknowledged(r) PROVE IInv'
  BY <1>6, RecordStep
<1>7. ASSUME NEW r \in Request, enqueueAttendanceNotification(r) \/ EnqueueFails(r) PROVE IInv'
  BY <1>7, EnqueueStep
<1>8. ASSUME NEW e \in Employee, insertEmployee(e) \/ removeEmployee(e) PROVE IInv'
  BY <1>8, InsertEmployeeStep, RemoveEmployeeStep
<1>9. CASE Crash
  BY <1>9, CrashStep
<1>10. CASE UNCHANGED vars
  BY <1>10 DEF vars, IInv, TypeOK, Arrived, LockExclusion, StaffPresent, Decided, Lifecycle,
     RowsTellRecords, NoOrphans, NotifiedOnlyIfRecorded, AnswerMatchesRecord, OneRecordPerDay,
     HoldsEmployee, HoldsAttendance, Conflicts, KeyOf, IsCheckIn, Recorded, EverRecorded, SameKind
<1> QED
  BY <1>1, <1>2, <1>3, <1>4, <1>5, <1>6, <1>7, <1>8, <1>9, <1>10 DEF Next, Progress, Fault

\* The invariant holds in every reachable state.
THEOREM Invariance == Spec => []IInv
BY InitIInv, NextIInv, PTL DEF Spec

-----------------------------------------------------------------------------
(* The theorems.                                                           *)

\* Every reachable state is well typed; in particular no row has a check-out
\* without a check-in.
THEOREM TypeCorrect == Spec => []TypeOK
BY Invariance, PTL DEF IInv

\* However many requests race, at most one check-in and one check-out of an
\* employee stand on record for a day.
THEOREM RecordsAreUnique == Spec => []OneRecordPerDay
BY Invariance, PTL DEF IInv

\* A success was recorded and notified, and a 404 or 409 left no trace.
THEOREM AnswersAreHonest == Spec => []AnswerMatchesRecord
BY Invariance, PTL DEF IInv

\* No mail job is about a transaction that was rolled back.
THEOREM NoPrematureMail == Spec => []NotifiedOnlyIfRecorded
BY Invariance, PTL DEF IInv

\* The lock on the employee keeps attendances from outliving their employee.
THEOREM RowsHaveEmployees == Spec => []NoOrphans
BY Invariance, PTL DEF IInv

-----------------------------------------------------------------------------
(* What a step may do to the table.                                        *)

\* Only a COMMIT and the deletion of an employee change attendances.
LEMMA TableSteps ==
    ASSUME IInv, [Next]_vars
    PROVE  \/ UNCHANGED attendances /\ \A e \in employees : e \in employees'
           \/ \E r \in Request : Commit(r) \/ CommitUnacknowledged(r)
           \/ \E e \in Employee : removeEmployee(e)
BY DEF Next, vars, Progress, Fault, Receive, getEmployeeOrFail, LockEmployee, EmployeeNotFound,
       findAttendanceForUpdate, Conflict, LockAttendance, save, enqueueAttendanceNotification,
       DeadlockVictim, TransactionFails, EnqueueFails, Crash, insertEmployee

\* A COMMIT touches the row of its own request, which was free for it.
LEMMA RecordEffect ==
    ASSUME IInv, NEW r \in Request, Commit(r) \/ CommitUnacknowledged(r)
    PROVE  /\ HoldsAttendance(r) /\ pc'[r] \notin {"save", "commit"}
           /\ call[r] \in Call /\ ~Conflicts(r)
           /\ KeyOf(r) \in Key
           /\ attendances' = [attendances EXCEPT ![KeyOf(r)] = NewRow(r)]
           /\ \A s \in Request : fate'[s] = IF s = r THEN "recorded" ELSE fate[s]
           /\ UNCHANGED <<employees, call>>
<1>1. Record(r)
  BY DEF Commit, CommitUnacknowledged
<1>2. HoldsAttendance(r) /\ call[r] \in Call /\ ~Conflicts(r)
  BY <1>1 DEF Record, HoldsAttendance, IInv, Arrived, Decided
<1>3. pc'[r] \notin {"save", "commit"}
  BY DEF Commit, CommitUnacknowledged, Answer, Goto, IInv, TypeOK
<1>4. KeyOf(r) \in Key
  BY <1>2, KeyForType DEF KeyOf
<1> QED
  BY <1>1, <1>2, <1>3, <1>4 DEF Record, IInv, TypeOK

\* Nothing a transaction has read for update changes before it ends.
THEOREM DecisionsAreStable == Spec => DecisionStable
<1> DEFINE Stable ==
      \A r \in Request :
          HoldsAttendance(r) /\ pc'[r] \in {"save", "commit"}
              => /\ attendances'[KeyOf(r)] = attendances[KeyOf(r)]
                 /\ call[r].employeeId \in employees'
<1>1. ASSUME IInv, [Next]_vars PROVE Stable
  <2> SUFFICES ASSUME NEW r \in Request, HoldsAttendance(r), pc'[r] \in {"save", "commit"}
               PROVE  /\ attendances'[KeyOf(r)] = attendances[KeyOf(r)]
                      /\ call[r].employeeId \in employees'
    OBVIOUS
  <2>1. /\ call[r] \in Call /\ HoldsEmployee(r) /\ call[r].employeeId \in employees
        /\ KeyOf(r) \in Key /\ KeyOf(r)[1] = call[r].employeeId
    BY <1>1, KeyForType DEF IInv, Arrived, StaffPresent, HoldsAttendance, HoldsEmployee, KeyOf
  <2>2. CASE UNCHANGED attendances /\ \A e \in employees : e \in employees'
    BY <2>1, <2>2
  <2>3. ASSUME NEW s \in Request, Commit(s) \/ CommitUnacknowledged(s)
        PROVE  /\ attendances'[KeyOf(r)] = attendances[KeyOf(r)]
               /\ call[r].employeeId \in employees'
    <3>1. /\ s # r /\ HoldsEmployee(s) /\ call[s] \in Call /\ KeyOf(s) \in Key
          /\ attendances' = [attendances EXCEPT ![KeyOf(s)] = NewRow(s)]
          /\ UNCHANGED employees
      BY <1>1, <2>3, RecordEffect DEF HoldsAttendance, HoldsEmployee
    <3>2. call[s].employeeId # call[r].employeeId
      BY <1>1, <2>1, <3>1 DEF IInv, LockExclusion
    <3>3. KeyOf(s) # KeyOf(r)
      BY <2>1, <3>1, <3>2, KeyForType DEF KeyOf
    <3> QED
      BY <1>1, <2>1, <3>1, <3>3 DEF IInv, TypeOK
  <2>4. ASSUME NEW e \in Employee, removeEmployee(e)
        PROVE  /\ attendances'[KeyOf(r)] = attendances[KeyOf(r)]
               /\ call[r].employeeId \in employees'
    BY <2>1, <2>4 DEF removeEmployee, EmployeeLockFree, Cascade
  <2> QED
    BY <1>1, <2>2, <2>3, <2>4, TableSteps
<1>2. Spec => [][Stable]_vars
  BY <1>1, Invariance, PTL DEF Spec
<1> QED
  BY <1>2 DEF DecisionStable

\* A row is never rewritten: it is inserted without a check-out, gets one once,
\* and goes only with its employee.
RowsMoveForward ==
    [][\A k \in Key :
          LET old == attendances[k]
              new == attendances'[k]
          IN  new # old =>
                \/ old = NoRow /\ new.checkOutAt = NoTime
                \/ old # NoRow /\ old.checkOutAt = NoTime /\ new.checkInAt = old.checkInAt
                \/ new = NoRow /\ k[1] \notin employees']_vars

\* A row only ever goes from absent to open to closed, or with its employee.
THEOREM RowsOnlyMoveForward == Spec => RowsMoveForward
<1> DEFINE Forward ==
      \A k \in Key :
          LET old == attendances[k]
              new == attendances'[k]
          IN  new # old =>
                \/ old = NoRow /\ new.checkOutAt = NoTime
                \/ old # NoRow /\ old.checkOutAt = NoTime /\ new.checkInAt = old.checkInAt
                \/ new = NoRow /\ k[1] \notin employees'
<1>1. ASSUME IInv, [Next]_vars PROVE Forward
  <2>1. CASE UNCHANGED attendances
    BY <2>1
  <2>2. ASSUME NEW r \in Request, Commit(r) \/ CommitUnacknowledged(r) PROVE Forward
    <3>1. /\ attendances' = [attendances EXCEPT ![KeyOf(r)] = NewRow(r)]
          /\ call[r] \in Call /\ ~Conflicts(r)
      BY <1>1, <2>2, RecordEffect
    <3>2. IsCheckIn(r) => NewRow(r).checkOutAt = NoTime
      BY DEF NewRow
    <3> QED
      BY <1>1, <3>1, <3>2, NewRowType DEF IInv, TypeOK
  <2>3. ASSUME NEW e \in Employee, removeEmployee(e) PROVE Forward
    BY <2>3 DEF removeEmployee, Cascade
  <2> QED
    BY <1>1, <2>1, <2>2, <2>3, TableSteps
<1>2. Spec => [][Forward]_vars
  BY <1>1, Invariance, PTL DEF Spec
<1> QED
  BY <1>2 DEF RowsMoveForward

-----------------------------------------------------------------------------
(* The table and the requests on record determine each other.              *)

\* Every time in the table was put there by a request on record.
RowsHaveAuthors ==
    \A k \in Key :
        /\ attendances[k].checkInAt # NoTime =>
              \E r \in Request : Recorded(r) /\ IsCheckIn(r) /\ KeyOf(r) = k
        /\ attendances[k].checkOutAt # NoTime =>
              \E r \in Request : Recorded(r) /\ ~IsCheckIn(r) /\ KeyOf(r) = k

\* A step keeps the author of every time it keeps.
LEMMA AuthorsStep ==
    ASSUME IInv, RowsHaveAuthors, [Next]_vars
    PROVE  RowsHaveAuthors'
<1>1. CASE UNCHANGED attendances /\ \A e \in employees : e \in employees'
  <2>1. ASSUME NEW r \in Request, Recorded(r)
        PROVE  Recorded(r)' /\ IsCheckIn(r)' = IsCheckIn(r) /\ KeyOf(r)' = KeyOf(r)
    <3>1. pc[r] # "idle"
      BY <2>1 DEF IInv, Lifecycle, Recorded
    <3>2. call'[r] = call[r]
      BY <3>1 DEF IInv, TypeOK, Next, vars, Progress, Fault, Receive, getEmployeeOrFail, LockEmployee,
         EmployeeNotFound, findAttendanceForUpdate, Conflict, LockAttendance, save, Commit,
         enqueueAttendanceNotification, DeadlockVictim, TransactionFails, CommitUnacknowledged, Record,
         EnqueueFails, Crash, insertEmployee, removeEmployee
    <3>3. CASE UNCHANGED fate
      BY <2>1, <3>2, <3>3 DEF Recorded, IsCheckIn, KeyOf
    <3>4. ASSUME NEW s \in Request, Commit(s) \/ CommitUnacknowledged(s)
          PROVE  Recorded(r)' /\ IsCheckIn(r)' = IsCheckIn(r) /\ KeyOf(r)' = KeyOf(r)
      BY <2>1, <3>2, <3>4, RecordEffect DEF Recorded, IsCheckIn, KeyOf
    <3>5. ASSUME NEW e \in Employee, removeEmployee(e) PROVE FALSE
      BY <1>1, <3>5 DEF removeEmployee
    <3> QED
      BY <3>3, <3>4, <3>5 DEF Next, vars, Progress, Fault, Receive, getEmployeeOrFail, LockEmployee,
         EmployeeNotFound, findAttendanceForUpdate, Conflict, LockAttendance, save,
         enqueueAttendanceNotification, DeadlockVictim, TransactionFails, EnqueueFails, Crash,
         insertEmployee
  <2> QED
    BY <1>1, <2>1 DEF RowsHaveAuthors
<1>2. ASSUME NEW r \in Request, Commit(r) \/ CommitUnacknowledged(r) PROVE RowsHaveAuthors'
  <2>1. /\ attendances' = [attendances EXCEPT ![KeyOf(r)] = NewRow(r)]
        /\ call[r] \in Call /\ ~Conflicts(r) /\ KeyOf(r) \in Key
    BY <1>2, RecordEffect
  <2>2. \A s \in Request : /\ Recorded(s)' <=> s = r \/ Recorded(s)
                           /\ IsCheckIn(s)' = IsCheckIn(s) /\ KeyOf(s)' = KeyOf(s)
    BY <1>2, RecordEffect DEF Recorded, IsCheckIn, KeyOf
  <2>3. IsCheckIn(r) => NewRow(r).checkOutAt = NoTime
    BY DEF NewRow
  <2>4. ASSUME NEW k \in Key
        PROVE  /\ attendances'[k].checkInAt # NoTime =>
                     \E s \in Request : Recorded(s)' /\ IsCheckIn(s) /\ KeyOf(s) = k
               /\ attendances'[k].checkOutAt # NoTime =>
                     \E s \in Request : Recorded(s)' /\ ~IsCheckIn(s) /\ KeyOf(s) = k
    <3>1. CASE k = KeyOf(r)
      <4>1. attendances'[k] = NewRow(r)
        BY <2>1, <3>1 DEF IInv, TypeOK
      <4> QED
        BY <2>1, <2>2, <2>3, <3>1, <4>1, NewRowType DEF IInv, RowsHaveAuthors
    <3>2. CASE k # KeyOf(r)
      BY <2>1, <2>2, <3>2 DEF IInv, TypeOK, RowsHaveAuthors
    <3> QED
      BY <3>1, <3>2
  <2> QED
    BY <2>2, <2>4 DEF RowsHaveAuthors
<1>3. ASSUME NEW e \in Employee, removeEmployee(e) PROVE RowsHaveAuthors'
  <2>1. \A r \in Request : /\ Recorded(r)' <=> Recorded(r) /\ call[r].employeeId # e
                           /\ IsCheckIn(r)' = IsCheckIn(r) /\ KeyOf(r)' = KeyOf(r)
    BY <1>3 DEF removeEmployee, Recorded, IsCheckIn, KeyOf
  <2>2. \A r \in Request : Recorded(r) => KeyOf(r)[1] = call[r].employeeId
    BY KeyForType DEF IInv, Lifecycle, Arrived, Recorded, KeyOf
  <2>3. attendances' = [k \in Key |-> IF k[1] = e THEN NoRow ELSE attendances[k]]
    BY <1>3 DEF removeEmployee, Cascade
  <2> QED
    BY <2>1, <2>2, <2>3 DEF RowsHaveAuthors, NoRow
<1> QED
  BY <1>1, <1>2, <1>3, TableSteps

\* Every time in the table has an author, in every reachable state.
LEMMA AuthorsInvariance == Spec => []RowsHaveAuthors
<1>1. Init => RowsHaveAuthors
  BY DEF Init, RowsHaveAuthors, NoRow
<1>2. IInv /\ RowsHaveAuthors /\ [Next]_vars => RowsHaveAuthors'
  BY AuthorsStep
<1> QED
  BY <1>1, <1>2, Invariance, PTL DEF Spec

\* The table is exactly what the requests on record say.
THEOREM TableIsFaithful == Spec => []TableMatchesRecords
<1>1. ASSUME IInv, RowsHaveAuthors PROVE TableMatchesRecords
  <2> SUFFICES ASSUME NEW k \in Key
               PROVE  /\ {attendances[k].checkInAt} \ {NoTime} =
                            {DatetimeColumn(call[r].occurredAt) : r \in {s \in Request :
                               Recorded(s) /\ call[s].type = "check-in" /\ KeyOf(s) = k}}
                      /\ {attendances[k].checkOutAt} \ {NoTime} =
                            {DatetimeColumn(call[r].occurredAt) : r \in {s \in Request :
                               Recorded(s) /\ call[s].type = "check-out" /\ KeyOf(s) = k}}
    BY DEF TableMatchesRecords
  <2>1. \A r \in Request : Recorded(r) =>
            /\ call[r] \in Call /\ DatetimeColumn(call[r].occurredAt) # NoTime
            /\ ~IsCheckIn(r) <=> call[r].type = "check-out"
    BY <1>1, StoredTime DEF IInv, Lifecycle, Arrived, Recorded, IsCheckIn, Call
  <2>2. \A r \in Request : Recorded(r) /\ KeyOf(r) = k =>
            /\ IsCheckIn(r) => attendances[k].checkInAt = DatetimeColumn(call[r].occurredAt)
            /\ ~IsCheckIn(r) => attendances[k].checkOutAt = DatetimeColumn(call[r].occurredAt)
    BY <1>1 DEF IInv, RowsTellRecords
  <2>3. {attendances[k].checkInAt} \ {NoTime} =
            {DatetimeColumn(call[r].occurredAt) : r \in {s \in Request :
               Recorded(s) /\ call[s].type = "check-in" /\ KeyOf(s) = k}}
    BY <1>1, <2>1, <2>2 DEF RowsHaveAuthors, IsCheckIn
  <2>4. {attendances[k].checkOutAt} \ {NoTime} =
            {DatetimeColumn(call[r].occurredAt) : r \in {s \in Request :
               Recorded(s) /\ call[s].type = "check-out" /\ KeyOf(s) = k}}
    BY <1>1, <2>1, <2>2 DEF RowsHaveAuthors, IsCheckIn
  <2> QED
    BY <2>3, <2>4
<1> QED
  BY <1>1, Invariance, AuthorsInvariance, PTL

\* A request keeps its dto, and once recorded stays recorded or erased.
LEMMA RequestSteps ==
    ASSUME IInv, [Next]_vars, NEW r \in Request, pc[r] # "idle"
    PROVE  call'[r] = call[r] /\ (EverRecorded(r) => EverRecorded(r)')
<1>1. call'[r] = call[r]
  BY DEF IInv, TypeOK, Next, vars, Progress, Fault, Receive, getEmployeeOrFail, LockEmployee,
     EmployeeNotFound, findAttendanceForUpdate, Conflict, LockAttendance, save, Commit,
     enqueueAttendanceNotification, DeadlockVictim, TransactionFails, CommitUnacknowledged, Record,
     EnqueueFails, Crash, insertEmployee, removeEmployee
<1>2. CASE UNCHANGED fate
  BY <1>1, <1>2 DEF EverRecorded
<1>3. ASSUME NEW s \in Request, Commit(s) \/ CommitUnacknowledged(s)
      PROVE  EverRecorded(r) => EverRecorded(r)'
  BY <1>3, RecordEffect DEF EverRecorded
<1>4. ASSUME NEW e \in Employee, removeEmployee(e) PROVE EverRecorded(r) => EverRecorded(r)'
  BY <1>4 DEF removeEmployee, EverRecorded
<1> QED
  BY <1>1, <1>2, <1>3, <1>4 DEF Next, vars, Progress, Fault, Receive, getEmployeeOrFail, LockEmployee,
     EmployeeNotFound, findAttendanceForUpdate, Conflict, LockAttendance, save,
     enqueueAttendanceNotification, DeadlockVictim, TransactionFails, EnqueueFails, Crash,
     insertEmployee

\* Who is newly answered with a conflict was held up by a row at its key.
LEMMA NewConflicts ==
    ASSUME IInv, [Next]_vars, NEW r \in Request, status[r] # "conflict", status'[r] = "conflict"
    PROVE  /\ pc[r] \in {"attendance", "save"} /\ call[r] \in Call
           /\ IsCheckIn(r) => attendances[KeyOf(r)] # NoRow
<1>1. Conflict(r) \/ (save(r) /\ DuplicateEntry(r))
  BY DEF IInv, TypeOK, Next, vars, Progress, Fault, Receive, getEmployeeOrFail, LockEmployee,
     EmployeeNotFound, findAttendanceForUpdate, Conflict, LockAttendance, save, Commit, Answer, Success,
     enqueueAttendanceNotification, DeadlockVictim, TransactionFails, CommitUnacknowledged, Record,
     EnqueueFails, Crash, insertEmployee, removeEmployee
<1> QED
  BY <1>1 DEF Conflict, save, Conflicts, DuplicateEntry, IInv, Arrived

\* A refused check-in has somebody else's check-in to thank for it.
THEOREM ConflictsHaveCauses == Spec => []ConflictHasCause
<1>1. Init => ConflictHasCause
  BY DEF Init, ConflictHasCause
<1>2. ASSUME IInv, RowsHaveAuthors, ConflictHasCause, [Next]_vars PROVE ConflictHasCause'
  <2> SUFFICES ASSUME NEW r \in Request, status'[r] = "conflict", IsCheckIn(r)'
               PROVE  \E s \in Request \ {r} : EverRecorded(s)' /\ SameKind(r, s)'
    BY DEF ConflictHasCause
  <2>1. pc[r] # "idle" /\ call[r] \in Call /\ call'[r] = call[r] /\ IsCheckIn(r)
    <3>1. pc[r] # "idle" /\ call[r] \in Call
      BY <1>2, NewConflicts DEF IInv, Lifecycle, Arrived
    <3>2. call'[r] = call[r]
      BY <1>2, <3>1, RequestSteps
    <3> QED
      BY <3>1, <3>2 DEF IsCheckIn
  <2>2. \E s \in Request \ {r} : EverRecorded(s) /\ SameKind(r, s)
    <3>1. CASE status[r] = "conflict"
      BY <1>2, <2>1, <3>1 DEF ConflictHasCause
    <3>2. CASE status[r] # "conflict"
      <4>1. pc[r] \in {"attendance", "save"} /\ attendances[KeyOf(r)] # NoRow
        BY <1>2, <2>1, <3>2, NewConflicts
      <4>2. KeyOf(r) \in Key /\ attendances[KeyOf(r)] \in Row
        BY <1>2, <2>1, KeyForType DEF KeyOf, IInv, TypeOK
      <4>3. attendances[KeyOf(r)].checkInAt # NoTime
        BY <4>1, <4>2, RowShape
      <4>4. PICK s \in Request : Recorded(s) /\ IsCheckIn(s) /\ KeyOf(s) = KeyOf(r)
        BY <1>2, <4>2, <4>3 DEF RowsHaveAuthors
      <4>5. s # r
        BY <1>2, <4>1, <4>4 DEF IInv, Lifecycle, Recorded
      <4> QED
        BY <2>1, <4>4, <4>5 DEF Recorded, EverRecorded, SameKind, IsCheckIn
    <3> QED
      BY <3>1, <3>2
  <2>3. PICK s \in Request \ {r} : EverRecorded(s) /\ SameKind(r, s)
    BY <2>2
  <2>4. EverRecorded(s)' /\ call'[s] = call[s]
    BY <1>2, <2>3, RequestSteps DEF EverRecorded, IInv, Lifecycle
  <2> QED
    BY <2>1, <2>3, <2>4 DEF SameKind, KeyOf
<1> QED
  BY <1>1, <1>2, Invariance, AuthorsInvariance, PTL DEF Spec
=============================================================================
