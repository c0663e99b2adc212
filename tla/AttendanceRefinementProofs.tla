--------------------- MODULE AttendanceRefinementProofs ---------------------
(***************************************************************************)
(* Attendance implements AttendanceLedger, for every value of the          *)
(* constants: under the inductive invariant of AttendanceProofs each step  *)
(* of the handlers is a step of the ledger or leaves it alone.             *)
(***************************************************************************)
EXTENDS AttendanceRefinement, AttendanceProofs

\* The ledger's view of a state and of a step.
LEMMA OutcomeByFate ==
    ASSUME IInv, NEW r \in Request
    PROVE  /\ fate[r] # "open" => Outcome(r) = fate[r]
           /\ pc[r] = "idle" => Outcome(r) = "none"
           /\ pc[r] \notin {"idle", "done"} /\ fate[r] = "open" => Outcome(r) = "pending"
           /\ pc[r] = "done" /\ fate[r] = "open" => Outcome(r) \in {"refused", "failed"}
           /\ Outcome(r) \in {"recorded", "erased"} => fate[r] = Outcome(r)
BY DEF IInv, TypeOK, Lifecycle, Outcome

\* A step that only moves request r on changes at most r's outcome.
LEMMA OutcomeStep ==
    ASSUME IInv, NEW r \in Request,
           \A s \in Request \ {r} : pc'[s] = pc[s] /\ status'[s] = status[s] /\ fate'[s] = fate[s]
    PROVE  outcomes' = [outcomes EXCEPT ![r] = Outcome(r)']
<1>1. \A s \in Request \ {r} : Outcome(s)' = Outcome(s)
  BY DEF Outcome
<1> QED
  BY <1>1 DEF outcomes

\* A step that moves no request on changes no outcome.
LEMMA NoOutcomeStep ==
    ASSUME UNCHANGED <<pc, status, fate>>
    PROVE  outcomes' = outcomes
BY DEF outcomes, Outcome

\* The call of a request, as the ledger reads it.
LEMMA LedgerReads ==
    ASSUME NEW r \in Request, call[r] \in Call
    PROVE  /\ [c \in Call |-> KeyFor(c)][call[r]] = KeyOf(r)
           /\ [c \in Call |-> DatetimeColumn(c.occurredAt)][call[r]] = DatetimeColumn(call[r].occurredAt)
           /\ Ledger!Admits(attendances[KeyOf(r)], call[r]) <=> ~Conflicts(r)
BY DEF KeyOf, Ledger!Admits, Ledger!NoRow, NoRow, Conflicts, IsCheckIn, Call

\* The empty tables are the empty ledger.
LEMMA LedgerInit == Init => Ledger!Init
BY DEF Init, Ledger!Init, Ledger!NoRow, NoRow, Outcome, outcomes

\* A request arrives: it is pending in the ledger.
LEMMA ReceiveAccepts ==
    ASSUME IInv, IInv', NEW r \in Request, Receive(r)
    PROVE  Ledger!Next
<1>1. PICK c \in Call : call' = [call EXCEPT ![r] = c]
  BY DEF Receive
<1>2. outcomes[r] = "none" /\ Outcome(r)' = "pending"
  BY OutcomeByFate DEF Receive, Goto, IInv, TypeOK, Lifecycle, Outcome, outcomes
<1>3. outcomes' = [outcomes EXCEPT ![r] = "pending"]
  BY <1>2, OutcomeStep DEF Receive, Goto, IInv, TypeOK
<1>4. Ledger!Accept(r, c)
  BY <1>1, <1>2, <1>3 DEF Ledger!Accept, Receive, outcomes
<1> QED
  BY <1>4 DEF Ledger!Next

\* A statement that succeeds is invisible.
LEMMA StatementStutters ==
    ASSUME IInv, NEW r \in Request,
           LockEmployee(r) \/ LockAttendance(r) \/ (save(r) /\ ~DuplicateEntry(r))
    PROVE  UNCHANGED Ledger!vars
<1>1. /\ UNCHANGED <<employees, attendances, call, status, queued, fate>>
      /\ pc[r] \notin {"idle", "done"} /\ pc'[r] \notin {"idle", "done"}
      /\ pc[r] # "notify"
      /\ \A s \in Request \ {r} : pc'[s] = pc[s]
  BY DEF LockEmployee, LockAttendance, save, Goto, IInv, TypeOK
<1>2. fate[r] = "open"
  BY <1>1 DEF IInv, Lifecycle
<1>3. Outcome(r)' = "pending" /\ Outcome(r) = "pending"
  BY <1>1, <1>2 DEF Outcome
<1>4. outcomes' = outcomes
  BY <1>1, <1>3, OutcomeStep DEF outcomes
<1> QED
  BY <1>1, <1>4 DEF Ledger!vars, outcomes

\* A 404 or 409 is the ledger's refusal at that moment.
LEMMA RefusalRefuses ==
    ASSUME IInv, NEW r \in Request,
           EmployeeNotFound(r) \/ Conflict(r) \/ (save(r) /\ DuplicateEntry(r))
    PROVE  Ledger!Next
<1>1. /\ UNCHANGED <<employees, attendances, call, queued, fate>>
      /\ pc[r] \in {"employee", "attendance", "save"}
      /\ pc'[r] = "done" /\ status'[r] \in {"notFound", "conflict"}
      /\ \A s \in Request \ {r} : pc'[s] = pc[s] /\ status'[s] = status[s]
  BY DEF EmployeeNotFound, Conflict, save, Answer, Goto, IInv, TypeOK
<1>2. fate[r] = "open" /\ call[r] \in Call
  BY <1>1 DEF IInv, Lifecycle, Arrived
<1>3. outcomes[r] = "pending" /\ Outcome(r)' = "refused"
  BY <1>1, <1>2 DEF Outcome, outcomes
<1>4. outcomes' = [outcomes EXCEPT ![r] = "refused"]
  BY <1>1, <1>3, OutcomeStep
<1>5. call[r].employeeId \notin employees \/ Conflicts(r)
  BY DEF EmployeeNotFound, Conflict, save, DuplicateEntry, Conflicts
<1>6. ~Ledger!Admissible(call[r])
  BY <1>2, <1>5, LedgerReads DEF Ledger!Admissible
<1>7. Ledger!Refuse(r)
  BY <1>1, <1>3, <1>4, <1>6 DEF Ledger!Refuse, outcomes
<1> QED
  BY <1>7 DEF Ledger!Next

\* A transaction that is rolled back for another reason fails in the ledger.
LEMMA FailureFails ==
    ASSUME IInv, NEW r \in Request, DeadlockVictim(r) \/ TransactionFails(r)
    PROVE  Ledger!Next
<1>1. /\ UNCHANGED <<employees, attendances, call, queued, fate>>
      /\ InTransaction(r) /\ pc'[r] = "done" /\ status'[r] = "error"
      /\ \A s \in Request \ {r} : pc'[s] = pc[s] /\ status'[s] = status[s]
  BY DEF DeadlockVictim, TransactionFails, Answer, Goto, IInv, TypeOK, InTransaction
<1>2. fate[r] = "open"
  BY <1>1 DEF IInv, Lifecycle, InTransaction
<1>3. outcomes[r] = "pending" /\ Outcome(r)' = "failed"
  BY <1>1, <1>2 DEF Outcome, outcomes, InTransaction
<1>4. outcomes' = [s \in Request |-> IF s \in {r} THEN "failed" ELSE outcomes[s]]
  BY <1>1, <1>3, OutcomeStep DEF outcomes
<1>5. Ledger!Fail({r}, {})
  BY <1>1, <1>4 DEF Ledger!Fail, outcomes
<1> QED
  BY <1>3, <1>5 DEF Ledger!Next, Ledger!Pending, Ledger!OnRecord

\* A COMMIT is where a request takes effect.
LEMMA CommitRecords ==
    ASSUME IInv, NEW r \in Request, Commit(r) \/ CommitUnacknowledged(r)
    PROVE  Ledger!Next
<1>1. /\ HoldsAttendance(r) /\ call[r] \in Call /\ ~Conflicts(r) /\ KeyOf(r) \in Key
      /\ attendances' = [attendances EXCEPT ![KeyOf(r)] = NewRow(r)]
      /\ \A s \in Request : fate'[s] = IF s = r THEN "recorded" ELSE fate[s]
      /\ UNCHANGED <<employees, call>>
  BY RecordEffect
<1>2. /\ pc'[r] # "idle" /\ UNCHANGED queued
      /\ \A s \in Request \ {r} : pc'[s] = pc[s] /\ status'[s] = status[s]
  BY DEF Commit, CommitUnacknowledged, Record, Answer, Goto, IInv, TypeOK
<1>3. outcomes[r] = "pending" /\ Outcome(r)' = "recorded"
  BY <1>1, <1>2 DEF Outcome, outcomes, HoldsAttendance, IInv, Lifecycle
<1>4. outcomes' = [outcomes EXCEPT ![r] = "recorded"]
  BY <1>1, <1>2, <1>3, OutcomeStep
<1>5. call[r].employeeId \in employees
  BY <1>1 DEF IInv, StaffPresent, HoldsEmployee, HoldsAttendance
<1>6. Ledger!Admissible(call[r])
  BY <1>1, <1>5, LedgerReads DEF Ledger!Admissible
<1>7. Ledger!After(attendances[KeyOf(r)], call[r]) = NewRow(r)
  BY <1>1, LedgerReads DEF Ledger!After, NewRow, IsCheckIn
<1>8. Ledger!Record(r)
  BY <1>1, <1>2, <1>3, <1>4, <1>6, <1>7, LedgerReads DEF Ledger!Record, outcomes
<1> QED
  BY <1>8 DEF Ledger!Next

\* The mail job is the ledger's notification; if it is not added, nothing shows.
LEMMA EnqueueNotifies ==
    ASSUME IInv, NEW r \in Request, enqueueAttendanceNotification(r) \/ EnqueueFails(r)
    PROVE  Ledger!Next \/ UNCHANGED Ledger!vars
<1>1. /\ pc[r] = "notify" /\ pc'[r] = "done"
      /\ queued' \in {queued, queued \cup {r}}
      /\ UNCHANGED <<employees, attendances, call, fate>>
      /\ \A s \in Request \ {r} : pc'[s] = pc[s] /\ status'[s] = status[s]
  BY DEF enqueueAttendanceNotification, EnqueueFails, Answer, Goto, IInv, TypeOK
<1>2. fate[r] \in {"recorded", "erased"}
  BY <1>1 DEF IInv, TypeOK, Lifecycle
<1>3. outcomes[r] = fate[r] /\ Outcome(r)' = fate[r]
  BY <1>1, <1>2 DEF Outcome, outcomes
<1>4. outcomes' = outcomes
  BY <1>1, <1>3, OutcomeStep DEF outcomes
<1>5. CASE queued' = queued
  BY <1>1, <1>4, <1>5 DEF Ledger!vars, outcomes
<1>6. CASE queued' = queued \cup {r}
  <2>1. Ledger!Notify(r)
    BY <1>1, <1>2, <1>3, <1>4, <1>6 DEF Ledger!Notify, Ledger!OnRecord, outcomes
  <2> QED
    BY <2>1 DEF Ledger!Next
<1> QED
  BY <1>1, <1>5, <1>6

\* A crash fails the requests in flight that are not on record.
LEMMA CrashFails ==
    ASSUME IInv, Crash
    PROVE  Ledger!Next
<1> DEFINE L == {r \in Request : pc[r] \notin {"idle", "done"}}
           F == {r \in L : fate[r] = "open"}
<1>1. /\ \A r \in Request : pc'[r] = IF r \in L THEN "done" ELSE pc[r]
      /\ \A r \in Request : status'[r] = IF r \in L THEN "lost" ELSE status[r]
      /\ UNCHANGED <<employees, attendances, call, fate>>
  BY DEF Crash
<1>2. PICK J \in SUBSET {r \in Request : pc[r] = "notify"} : queued' = queued \cup J
  BY DEF Crash
<1>3. \A r \in F : outcomes[r] = "pending" /\ Outcome(r)' = "failed"
  BY <1>1 DEF Outcome, outcomes
<1>4. \A r \in Request \ F : Outcome(r)' = outcomes[r]
  BY <1>1 DEF Outcome, outcomes, IInv, TypeOK
<1>5. \A r \in J : outcomes[r] \in {"recorded", "erased"}
  BY <1>2 DEF Outcome, outcomes, IInv, TypeOK, Lifecycle
<1>6. outcomes' = [r \in Request |-> IF r \in F THEN "failed" ELSE outcomes[r]]
  BY <1>3, <1>4 DEF outcomes
<1>7. F \in SUBSET Ledger!Pending /\ J \in SUBSET Ledger!OnRecord
  BY <1>3, <1>5 DEF Ledger!Pending, Ledger!OnRecord
<1> HIDE DEF L, F
<1>8. Ledger!Fail(F, J)
  BY <1>1, <1>2, <1>6 DEF Ledger!Fail, outcomes
<1> QED
  BY <1>7, <1>8 DEF Ledger!Next

\* Inserting and deleting an employee is hiring and dismissing one.
LEMMA StaffSteps ==
    ASSUME IInv, NEW e \in Employee, insertEmployee(e) \/ removeEmployee(e)
    PROVE  Ledger!Next
<1>1. CASE insertEmployee(e)
  <2>1. outcomes' = outcomes
    BY <1>1, NoOutcomeStep DEF insertEmployee
  <2>2. Ledger!Hire(e)
    BY <1>1, <2>1 DEF Ledger!Hire, insertEmployee, outcomes
  <2> QED
    BY <2>2 DEF Ledger!Next
<1>2. CASE removeEmployee(e)
  <2>1. \A r \in Request : outcomes[r] = "recorded" <=> fate[r] = "recorded"
    BY DEF outcomes, Outcome, IInv, TypeOK, Lifecycle
  <2>2. \A r \in Request : Outcome(r)' = IF outcomes[r] = "recorded" /\ call[r].employeeId = e
                                          THEN "erased" ELSE outcomes[r]
    BY <1>2, <2>1 DEF removeEmployee, outcomes, Outcome, IInv, TypeOK, Lifecycle
  <2>3. outcomes' = [r \in Request |-> IF outcomes[r] = "recorded" /\ call[r].employeeId = e
                                       THEN "erased" ELSE outcomes[r]]
    BY <2>2 DEF outcomes
  <2>4. Ledger!Dismiss(e)
    BY <1>2, <2>3 DEF Ledger!Dismiss, Ledger!NoRow, NoRow, removeEmployee, Cascade, outcomes
  <2> QED
    BY <2>4 DEF Ledger!Next
<1> QED
  BY <1>1, <1>2

\* Every step is a step of the ledger, or invisible to it.
LEMMA LedgerNext == IInv /\ IInv' /\ [Next]_vars => [Ledger!Next]_Ledger!vars
<1> SUFFICES ASSUME IInv, IInv', [Next]_vars PROVE Ledger!Next \/ UNCHANGED Ledger!vars
  OBVIOUS
<1>1. ASSUME NEW r \in Request, Progress(r) PROVE Ledger!Next \/ UNCHANGED Ledger!vars
  <2>1. CASE getEmployeeOrFail(r)
    BY <2>1, StatementStutters, RefusalRefuses DEF getEmployeeOrFail
  <2>2. CASE findAttendanceForUpdate(r)
    BY <2>2, StatementStutters, RefusalRefuses DEF findAttendanceForUpdate
  <2>3. CASE save(r)
    BY <2>3, StatementStutters, RefusalRefuses
  <2>4. CASE DeadlockVictim(r)
    BY <2>4, FailureFails
  <2>5. CASE Commit(r)
    BY <2>5, CommitRecords
  <2>6. CASE enqueueAttendanceNotification(r)
    BY <2>6, EnqueueNotifies
  <2> QED
    BY <1>1, <2>1, <2>2, <2>3, <2>4, <2>5, <2>6 DEF Progress
<1>2. ASSUME NEW r \in Request, Fault(r) PROVE Ledger!Next \/ UNCHANGED Ledger!vars
  BY <1>2, FailureFails, CommitRecords, EnqueueNotifies DEF Fault
<1>3. ASSUME NEW r \in Request, Receive(r) PROVE Ledger!Next
  BY <1>3, ReceiveAccepts
<1>4. ASSUME NEW e \in Employee, insertEmployee(e) \/ removeEmployee(e) PROVE Ledger!Next
  BY <1>4, StaffSteps
<1>5. CASE Crash
  BY <1>5, CrashFails
<1>6. CASE UNCHANGED vars
  <2>1. outcomes' = outcomes
    BY <1>6, NoOutcomeStep DEF vars
  <2> QED
    BY <1>6, <2>1 DEF vars, Ledger!vars, outcomes
<1> QED
  BY <1>1, <1>2, <1>3, <1>4, <1>5, <1>6 DEF Next

\* The handlers implement the ledger.
THEOREM Refinement == Spec => LedgerSpec
BY LedgerInit, LedgerNext, Invariance, PTL DEF Spec, LedgerSpec, Ledger!Spec
=============================================================================
