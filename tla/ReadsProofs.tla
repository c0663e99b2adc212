---------------------------- MODULE ReadsProofs ----------------------------
(***************************************************************************)
(* What Reads promises of reports and listings, for every number of        *)
(* employees, dates and changes.                                           *)
(***************************************************************************)
EXTENDS Reads, FiniteSetTheorems, TLAPS

-----------------------------------------------------------------------------
(* The inductive invariant: a report that has read one table is true of    *)
(* the steady, those who are neither gone nor came.                        *)

Steady == Employee \ (gone \cup came)

StartsUnread == pc = "start" => employees = Unread /\ attendances = NoRows
EndsRead == kind = "report" /\ pc = "done" => employees # Unread /\ attendances # NoRows
HasDate == kind = "report" => date \in Day
NowIsAMoment == kind = "report" /\ Reading => Statuses \in moments
EmployeesSteady ==
    kind = "report" /\ employees # Unread => \A e \in Steady : e \in employees <=> e \in staff
AttendancesWere ==
    kind = "report" /\ attendances # NoRows =>
        \E m \in moments : \A e \in Steady :
            m[e] = IF e \in staff THEN computeStatus(attendances[e]) ELSE "none"

IInv ==
    /\ TypeOK
    /\ StartsUnread
    /\ EndsRead
    /\ HasDate
    /\ NowIsAMoment
    /\ EmployeesSteady
    /\ AttendancesWere

-----------------------------------------------------------------------------
(* Operators.                                                              *)

LEMMA StatusType ==
    ASSUME NEW row \in Row
    PROVE  computeStatus(row) \in Status /\ (computeStatus(row) = "Absent" <=> row = "none")
<1>1. CASE row = "none"
  BY <1>1, Zenon DEF computeStatus, Status
<1>2. CASE row = "in"
  <2>1. computeStatus(row) = "Present"
    BY <1>2, Zenon DEF computeStatus
  <2> QED
    BY <1>2, <2>1 DEF Status
<1>3. CASE row = "out"
  <2>1. computeStatus(row) = "Left"
    BY <1>3, Zenon DEF computeStatus
  <2> QED
    BY <1>3, <2>1 DEF Status
<1> QED
  BY <1>1, <1>2, <1>3 DEF Row

LEMMA StatusesType ==
    ASSUME NEW S, NEW A \in [Employee -> [Day -> Row]], NEW d \in Day
    PROVE  [e \in Employee |-> IF e \in S THEN computeStatus(A[e][d]) ELSE "none"]
              \in [Employee -> Status \cup {"none"}]
<1>1. \A e \in Employee : A[e][d] \in Row
  OBVIOUS
<1> QED
  BY <1>1, StatusType

-----------------------------------------------------------------------------
(* The steps.                                                              *)

LEMMA InitIInv == Init => IInv
<1> SUFFICES ASSUME Init PROVE IInv
  OBVIOUS
<1> USE DEF Init
<1>1. createdAt \in [Employee -> 0..Clock]
  <2>1. CASE kind = "scan"
    BY <2>1
  <2>2. CASE kind # "scan"
    BY <2>2, BoundsAssumption
  <2> QED
    BY <2>1, <2>2
<1>2. zone \in Zones \cup {"utc"}
  <2>1. CASE kind = "listing"
    BY <2>1
  <2>2. CASE kind # "listing"
    BY <2>2
  <2> QED
    BY <2>1, <2>2
<1>3. /\ kind \in {"report", "scan", "listing"} /\ date \in Day \cup {NoDay} /\ limit \in Limits \cup {0}
      /\ kind = "report" => date \in Day
  <2>1. CASE kind = "report"
    BY <2>1
  <2>2. CASE kind = "scan"
    BY <2>2
  <2>3. CASE kind = "listing"
    BY <2>3
  <2> QED
    BY <2>1, <2>2, <2>3
<1>4. attendance \in [Employee -> [Day -> Row]] /\ \A e \in Employee, d \in Day : attendance[e][d] = "none"
  BY DEF Row
<1>5. /\ staff \subseteq {e \in Employee : createdAt[e] > 0} /\ changes \in 0..Changes
      /\ page \in Nat \ {0} /\ listed \in [Employee -> 0..2]
  BY BoundsAssumption
<1>6. TypeOK
  BY <1>1, <1>2, <1>3, <1>4, <1>5 DEF TypeOK, NoRows
<1> QED
  BY <1>3, <1>6 DEF IInv, StartsUnread, EndsRead, HasDate, NowIsAMoment, Reading, EmployeesSteady, AttendancesWere

\* The tables change in the way Recorded records it.
LEMMA ChangeStep ==
    ASSUME IInv, NEW arrived \in SUBSET Employee, NEW left \in SUBSET Employee, Recorded(arrived, left),
           createdAt' \in [Employee -> 0..Clock],
           staff' \subseteq {e \in Employee : createdAt'[e] > 0},
           attendance' \in [Employee -> [Day -> Row]],
           \A e \in Employee \ staff', d \in Day : attendance'[e][d] = "none",
           \A e \in Employee \ (arrived \cup left) : e \in staff' <=> e \in staff
    PROVE  IInv'
<1> USE DEF IInv
<1>1. /\ pc # "done" /\ pc' = pc
      /\ kind' = kind /\ zone' = zone /\ date' = date /\ limit' = limit
      /\ employees' = employees /\ attendances' = attendances
      /\ page' = page /\ listed' = listed
      /\ query' = query /\ listing' = listing /\ refused' = refused
  BY DEF Recorded, request, report, scan, answer
<1>2. changes' \in 0..Changes
  <2>1. changes' = changes + 1 /\ changes < Changes /\ changes \in 0..Changes
    BY DEF Recorded, TypeOK
  <2> QED
    BY <2>1, BoundsAssumption
<1>3. /\ came' \subseteq Employee /\ gone' \subseteq Employee /\ gone \subseteq gone' /\ came \subseteq came'
      /\ moments \subseteq moments'
  BY DEF Recorded, TypeOK
<1>4. Statuses' = [e \in Employee |-> IF e \in staff' THEN computeStatus(attendance'[e][date]) ELSE "none"]
  BY <1>1 DEF Statuses
<1>5. moments' \subseteq [Employee -> Status \cup {"none"}]
  <2>1. CASE kind = "report" /\ Reading
    <3>1. Statuses' \in [Employee -> Status \cup {"none"}]
      BY <1>4, <2>1, StatusesType DEF HasDate
    <3> QED
      BY <3>1 DEF Recorded, TypeOK
  <2>2. CASE ~(kind = "report" /\ Reading)
    BY <2>2 DEF Recorded, TypeOK
  <2> QED
    BY <2>1, <2>2
<1>6. TypeOK'
  BY <1>1, <1>2, <1>3, <1>5 DEF TypeOK, NoRows
<1>7. StartsUnread' /\ EndsRead' /\ HasDate'
  BY <1>1 DEF StartsUnread, EndsRead, HasDate, NoRows
<1>8. NowIsAMoment'
  BY <1>1 DEF NowIsAMoment, Recorded, Reading
<1>9. ASSUME pc # "start"
      PROVE  Steady' \subseteq Steady \ (arrived \cup left)
  <2>1. Reading
    BY <1>1, <1>9 DEF Reading, TypeOK
  <2> QED
    BY <2>1 DEF Recorded, Steady
<1>10. EmployeesSteady'
  BY <1>1, <1>9 DEF EmployeesSteady, StartsUnread, Steady
<1>11. AttendancesWere'
  <2> SUFFICES ASSUME kind = "report", attendances # NoRows
               PROVE  \E m \in moments' : \A e \in Steady' :
                         m[e] = IF e \in staff' THEN computeStatus(attendances[e]) ELSE "none"
    BY <1>1 DEF AttendancesWere, NoRows
  <2>1. pc # "start"
    BY DEF StartsUnread
  <2>2. PICK m \in moments : \A e \in Steady :
           m[e] = IF e \in staff THEN computeStatus(attendances[e]) ELSE "none"
    BY DEF AttendancesWere
  <2>3. \A e \in Steady' : e \in Steady /\ (e \in staff' <=> e \in staff)
    BY <1>9, <2>1 DEF Steady
  <2> QED
    BY <1>3, <2>2, <2>3
<1> QED
  BY <1>6, <1>7, <1>8, <1>10, <1>11

LEMMA TableStep ==
    ASSUME IInv, NEW e \in Employee,
           Hire(e) \/ Reinsert(e) \/ Dismiss(e) \/ \E d \in Day : Attend(e, d)
    PROVE  IInv'
<1> USE DEF IInv
<1>1. /\ createdAt \in [Employee -> 0..Clock] /\ staff \subseteq {x \in Employee : createdAt[x] > 0}
      /\ attendance \in [Employee -> [Day -> Row]]
      /\ \A x \in Employee \ staff, d \in Day : attendance[x][d] = "none"
  BY DEF TypeOK
<1>2. CASE Hire(e)
  <2>1. PICK t \in 1..Clock : createdAt' = [createdAt EXCEPT ![e] = t]
    <3>1. CASE kind = "scan"
      BY <1>2, <3>1 DEF Hire
    <3>2. CASE kind # "scan"
      <4>1. createdAt' = [createdAt EXCEPT ![e] = 1]
        BY <1>2, <3>2 DEF Hire
      <4>2. 1 \in 1..Clock
        BY BoundsAssumption
      <4> QED
        BY <4>1, <4>2
    <3> QED
      BY <3>1, <3>2
  <2>2. staff' = staff \cup {e} /\ attendance' = attendance /\ Recorded({e}, {})
    BY <1>2 DEF Hire
  <2>3. createdAt' \in [Employee -> 0..Clock] /\ staff' \subseteq {x \in Employee : createdAt'[x] > 0}
    BY <1>1, <2>1, <2>2
  <2> QED
    BY <1>1, <2>2, <2>3, ChangeStep
<1>3. CASE Reinsert(e)
  <2>1. /\ createdAt[e] > 0 /\ staff' = staff \cup {e} /\ createdAt' = createdAt /\ attendance' = attendance
        /\ Recorded({e}, {})
    BY <1>3 DEF Reinsert
  <2> QED
    BY <1>1, <2>1, ChangeStep
<1>4. CASE Dismiss(e)
  <2>1. /\ staff' = staff \ {e} /\ createdAt' = createdAt /\ Recorded({}, {e})
        /\ attendance' = [attendance EXCEPT ![e] = [d \in Day |-> "none"]]
    BY <1>4 DEF Dismiss
  <2>2. attendance' \in [Employee -> [Day -> Row]]
    BY <1>1, <2>1 DEF Row
  <2>3. \A x \in Employee \ staff', d \in Day : attendance'[x][d] = "none"
    BY <1>1, <2>1
  <2> QED
    BY <1>1, <2>1, <2>2, <2>3, ChangeStep
<1>5. CASE \E d \in Day : Attend(e, d)
  <2>1. PICK d \in Day : Attend(e, d)
    BY <1>5
  <2>2. PICK row \in {"in", "out"} : attendance' = [attendance EXCEPT ![e][d] = row]
    BY <2>1 DEF Attend
  <2>3. e \in staff /\ staff' = staff /\ createdAt' = createdAt /\ Recorded({}, {})
    BY <2>1 DEF Attend
  <2>4. attendance' \in [Employee -> [Day -> Row]] /\ \A x \in Employee : x # e => attendance'[x] = attendance[x]
    BY <1>1, <2>2 DEF Row
  <2>5. \A x \in Employee \ staff', y \in Day : attendance'[x][y] = "none"
    BY <1>1, <2>3, <2>4
  <2> QED
    BY <1>1, <2>3, <2>4, <2>5, ChangeStep
<1> QED
  BY <1>2, <1>3, <1>4, <1>5

LEMMA BeginStep == IInv /\ Begin => IInv'
<1> SUFFICES ASSUME IInv, Begin PROVE IInv'
  OBVIOUS
<1> USE DEF IInv
<1>1. /\ pc = "start" /\ pc' = "reading"
      /\ staff' = staff /\ createdAt' = createdAt /\ attendance' = attendance /\ changes' = changes
      /\ kind' = kind /\ zone' = zone /\ date' = date /\ limit' = limit
      /\ employees' = Unread /\ attendances' = NoRows
      /\ page' = page /\ listed' = listed /\ query' = query /\ listing' = listing /\ refused' = refused
      /\ gone' = gone /\ came' = came
      /\ moments' = IF kind = "report" THEN {Statuses} ELSE {}
  BY DEF Begin, tables, request, report, scan, answer, StartsUnread
<1>2. moments' \subseteq [Employee -> Status \cup {"none"}]
  <2>1. CASE kind = "report"
    <3>1. Statuses \in [Employee -> Status \cup {"none"}]
      BY <2>1, StatusesType DEF HasDate, Statuses, TypeOK
    <3> QED
      BY <1>1, <2>1, <3>1
  <2>2. CASE kind # "report"
    BY <1>1, <2>2
  <2> QED
    BY <2>1, <2>2
<1>3. TypeOK'
  BY <1>1, <1>2 DEF TypeOK, Unread, NoRows
<1>4. Statuses' = Statuses
  BY <1>1 DEF Statuses
<1>5. NowIsAMoment'
  BY <1>1, <1>4 DEF NowIsAMoment
<1>6. StartsUnread' /\ EndsRead' /\ HasDate' /\ EmployeesSteady' /\ AttendancesWere'
  BY <1>1 DEF StartsUnread, EndsRead, HasDate, EmployeesSteady, AttendancesWere, Unread, NoRows
<1> QED
  BY <1>3, <1>5, <1>6

\* A page or a listing: the variables of a report are not its business.
LEMMA OtherStep ==
    ASSUME IInv, findPage \/ count \/ findAll
    PROVE  IInv'
<1> USE DEF IInv
<1>1. /\ kind # "report" /\ pc \in {"reading", "count"} /\ pc' \in {"reading", "count", "done"}
      /\ staff' = staff /\ createdAt' = createdAt /\ attendance' = attendance /\ changes' = changes
      /\ kind' = kind /\ zone' = zone /\ date' = date /\ limit' = limit
      /\ employees' = employees /\ attendances' = attendances
      /\ moments' = moments /\ gone' = gone /\ came' = came
      /\ page' = page \/ page' = page + 1
  BY DEF findPage, count, findAll, NextPage, tables, request, report, scan, history
<1>2. listed' \in [Employee -> 0..2]
  <2>1. CASE findPage
    <3>1. PICK data : listed' = [e \in Employee |->
                          IF e \in data /\ listed[e] < 2 THEN listed[e] + 1 ELSE listed[e]]
      BY <2>1 DEF findPage
    <3>2. \A e \in Employee : listed[e] \in 0..2
      BY DEF TypeOK
    <3> QED
      BY <3>1, <3>2
  <2>2. CASE count \/ findAll
    BY <2>2 DEF count, findAll, scan, TypeOK
  <2> QED
    BY <2>1, <2>2
<1>3. refused' \in BOOLEAN /\ listing' \subseteq Employee \X Day
  <2>1. CASE findAll
    <3>1. PICK from \in Day \cup {NoDay}, to \in Day \cup {NoDay}, who \in SUBSET Employee :
            /\ refused' = ( /\ toDateOnly(from) # NoDay /\ toDateOnly(to) # NoDay
                            /\ toDateOnly(from) > toDateOnly(to) )
            /\ listing' = {row \in who \X Day :
                             /\ ~refused'
                             /\ attendance[row[1]][row[2]] # "none"
                             /\ Between(row[2], toDateOnly(from), toDateOnly(to))}
      BY <2>1 DEF findAll
    <3>2. refused' \in BOOLEAN
      BY <3>1
    <3>3. listing' \subseteq who \X Day
      BY <3>1
    <3> QED
      BY <3>2, <3>3
  <2>2. CASE findPage \/ count
    BY <2>2 DEF findPage, count, answer, TypeOK
  <2> QED
    BY <2>1, <2>2
<1>4. page' \in Nat \ {0}
  BY <1>1 DEF TypeOK
<1>5. TypeOK'
  BY <1>1, <1>2, <1>3, <1>4 DEF TypeOK, NoRows
<1> QED
  BY <1>1, <1>5 DEF StartsUnread, EndsRead, HasDate, NowIsAMoment, EmployeesSteady, AttendancesWere

LEMMA EmployeesStep == IInv /\ readEmployees => IInv'
<1> SUFFICES ASSUME IInv, readEmployees PROVE IInv'
  OBVIOUS
<1> USE DEF IInv
<1>1. /\ kind = "report" /\ pc = "reading" /\ employees = Unread /\ employees' = staff
      /\ pc' = IF attendances # NoRows THEN "done" ELSE pc
      /\ staff' = staff /\ createdAt' = createdAt /\ attendance' = attendance /\ changes' = changes
      /\ kind' = kind /\ zone' = zone /\ date' = date /\ limit' = limit /\ attendances' = attendances
      /\ page' = page /\ listed' = listed /\ query' = query /\ listing' = listing /\ refused' = refused
      /\ moments' = moments /\ gone' = gone /\ came' = came
  BY DEF readEmployees, tables, request, scan, answer, history
<1>2. TypeOK'
  BY <1>1 DEF TypeOK, NoRows
<1>3. staff # Unread
  BY DayAssumption DEF Unread, TypeOK
<1>4. StartsUnread' /\ EndsRead' /\ HasDate' /\ EmployeesSteady'
  BY <1>1, <1>3 DEF StartsUnread, EndsRead, HasDate, EmployeesSteady, Unread, NoRows
<1>5. Statuses' = Statuses
  BY <1>1 DEF Statuses
<1>6. NowIsAMoment' /\ AttendancesWere'
  BY <1>1, <1>5 DEF NowIsAMoment, AttendancesWere, Reading, Steady, NoRows
<1> QED
  BY <1>2, <1>4, <1>6

LEMMA AttendancesStep == IInv /\ readAttendances => IInv'
<1> SUFFICES ASSUME IInv, readAttendances PROVE IInv'
  OBVIOUS
<1> USE DEF IInv
<1>1. /\ kind = "report" /\ pc = "reading" /\ attendances = NoRows /\ attendances' = On(date)
      /\ pc' = IF employees # Unread THEN "done" ELSE pc
      /\ staff' = staff /\ createdAt' = createdAt /\ attendance' = attendance /\ changes' = changes
      /\ kind' = kind /\ zone' = zone /\ date' = date /\ limit' = limit /\ employees' = employees
      /\ page' = page /\ listed' = listed /\ query' = query /\ listing' = listing /\ refused' = refused
      /\ moments' = moments /\ gone' = gone /\ came' = came
  BY DEF readAttendances, tables, request, scan, answer, history
<1>2. date \in Day /\ On(date) \in [Employee -> Row]
  BY <1>1 DEF HasDate, On, TypeOK
<1>3. TypeOK'
  BY <1>1, <1>2 DEF TypeOK, NoRows
<1>4. Statuses' = Statuses /\ Statuses \in moments
  BY <1>1 DEF Statuses, NowIsAMoment, Reading
<1>5. \A e \in Employee : Statuses[e] = IF e \in staff THEN computeStatus(On(date)[e]) ELSE "none"
  BY DEF Statuses, On
<1>6. AttendancesWere'
  BY <1>1, <1>4, <1>5 DEF AttendancesWere, Steady
<1>7. On(date) # NoRows
  <2>1. PICK e \in Employee : TRUE
    BY EmployeeAssumption
  <2>2. On(date)[e] \in Row /\ NoRows[e] = "unread"
    BY <1>2 DEF NoRows
  <2> QED
    BY <2>2 DEF Row
<1>8. StartsUnread' /\ EndsRead' /\ HasDate' /\ EmployeesSteady' /\ NowIsAMoment'
  BY <1>1, <1>4, <1>7 DEF StartsUnread, EndsRead, HasDate, EmployeesSteady, NowIsAMoment, Reading,
                          Unread, NoRows, Steady
<1> QED
  BY <1>3, <1>6, <1>8

LEMMA NextIInv == IInv /\ [Next]_vars => IInv'
<1> SUFFICES ASSUME IInv, [Next]_vars PROVE IInv'
  OBVIOUS
<1>1. ASSUME NEW e \in Employee,
             Hire(e) \/ Reinsert(e) \/ Dismiss(e) \/ \E d \in Day : Attend(e, d)
      PROVE  IInv'
  BY <1>1, TableStep
<1>2. CASE Begin
  BY <1>2, BeginStep
<1>3. CASE readEmployees \/ readAttendances
  BY <1>3, EmployeesStep, AttendancesStep
<1>4. CASE findPage \/ count \/ findAll
  BY <1>4, OtherStep
<1>5. CASE UNCHANGED vars
  <2>1. /\ UNCHANGED <<staff, createdAt, attendance, changes, kind, zone, date, limit, pc>>
        /\ UNCHANGED <<employees, attendances, page, listed, query, listing, refused, moments, gone, came>>
    BY <1>5 DEF vars, tables, request, report, scan, answer, history
  <2>2. Statuses' = Statuses
    BY <2>1 DEF Statuses
  <2> QED
    BY <2>1, <2>2 DEF IInv, TypeOK, StartsUnread, EndsRead, HasDate, NowIsAMoment, EmployeesSteady,
                      AttendancesWere, Reading, Steady, NoRows
<1> QED
  BY <1>1, <1>2, <1>3, <1>4, <1>5 DEF Next

-----------------------------------------------------------------------------
(* The theorems.                                                           *)

\* The inductive invariant holds of every execution.
THEOREM Invariance == Spec => []IInv
<1> QED
  BY InitIInv, NextIInv, PTL DEF Spec

\* Types, and attendances of employees only.
THEOREM TypeCorrect == Spec => []TypeOK
<1>1. IInv => TypeOK
  BY DEF IInv
<1> QED
  BY <1>1, Invariance, PTL

\* Promise.all in getDailyAttendanceRows: in whatever order its two queries
\* run, and whatever changes between them, the report is true of one moment
\* for everybody who was neither removed nor inserted.
THEOREM ReportsAreOfOneMoment == Spec => []ReportShowsOneMoment
<1>1. IInv => ReportShowsOneMoment
  <2> SUFFICES ASSUME IInv, kind = "report", pc = "done" PROVE ReportShowsOneMoment
    BY DEF ReportShowsOneMoment
  <2> USE DEF IInv
  <2> DEFINE rows == getDailyAttendanceRows(employees, attendances)
  <2>1. employees # Unread /\ attendances # NoRows
    BY DEF EndsRead
  <2>2. PICK m \in moments : \A e \in Steady :
           m[e] = IF e \in staff THEN computeStatus(attendances[e]) ELSE "none"
    BY <2>1 DEF AttendancesWere
  <2>3. \A e \in Steady : e \in employees <=> e \in staff
    BY <2>1 DEF EmployeesSteady
  <2>4. DOMAIN rows = employees /\ \A e \in employees : rows[e] = computeStatus(attendances[e])
    BY DEF getDailyAttendanceRows
  <2>5. \A e \in Employee \ (gone \cup came) : (IF e \in DOMAIN rows THEN rows[e] ELSE "none") = m[e]
    BY <2>2, <2>3, <2>4 DEF Steady
  <2> QED
    BY <2>5 DEF ReportShowsOneMoment
<1> QED
  BY <1>1, Invariance, PTL

\* AttendanceService.findAll and ReportsService agree on who was there; on a
\* server whose zone is behind UTC, for dates that are one day apart.
THEOREM ListingsAgreeWithReports == Spec => ListingAgreesWithReport
<1> DEFINE Agrees ==
      kind = "listing" /\ pc' = "done" =>
          \A e \in staff, d \in Day :
            <<e, d>> \in listing' <=>
              /\ e \in query'.who
              /\ query'.from # NoDay => query'.from <= AskedAs(d)
              /\ query'.to # NoDay => AskedAs(d) <= query'.to
              /\ getDailyAttendanceRows(staff, On(d))[e] # "Absent"
<1>1. IInv /\ [Next]_vars => [Agrees]_vars
  <2> SUFFICES ASSUME IInv, Next, kind = "listing", pc' = "done", NEW e \in staff, NEW d \in Day
               PROVE  <<e, d>> \in listing' <=>
                        /\ e \in query'.who
                        /\ query'.from # NoDay => query'.from <= AskedAs(d)
                        /\ query'.to # NoDay => AskedAs(d) <= query'.to
                        /\ getDailyAttendanceRows(staff, On(d))[e] # "Absent"
    OBVIOUS
  <2>1. findAll
    BY DEF Next, Hire, Reinsert, Dismiss, Attend, Recorded, Begin, readEmployees, readAttendances, findPage, count
  <2>2. PICK from \in Day \cup {NoDay}, to \in Day \cup {NoDay}, who \in SUBSET Employee :
          /\ query' = [from |-> from, to |-> to, who |-> who]
          /\ refused' = ( /\ toDateOnly(from) # NoDay /\ toDateOnly(to) # NoDay
                          /\ toDateOnly(from) > toDateOnly(to) )
          /\ listing' = {row \in who \X Day :
                           /\ ~refused'
                           /\ attendance[row[1]][row[2]] # "none"
                           /\ Between(row[2], toDateOnly(from), toDateOnly(to))}
    BY <2>1 DEF findAll
  <2>3. \A x \in {from, to} :
          /\ toDateOnly(x) # NoDay <=> x # NoDay
          /\ x # NoDay => /\ x \in Nat \ {0} /\ toDateOnly(x) \in Nat
                          /\ toDateOnly(x) <= d <=> x <= AskedAs(d)
                          /\ d <= toDateOnly(x) <=> AskedAs(d) <= x
    <3> SUFFICES ASSUME NEW x \in {from, to}
                 PROVE  /\ toDateOnly(x) # NoDay <=> x # NoDay
                        /\ x # NoDay => /\ x \in Nat \ {0} /\ toDateOnly(x) \in Nat
                                        /\ toDateOnly(x) <= d <=> x <= AskedAs(d)
                                        /\ d <= toDateOnly(x) <=> AskedAs(d) <= x
      OBVIOUS
    <3>1. d \in Nat /\ (x # NoDay => x \in Nat \ {0}) /\ NoDay \notin Nat
      BY <2>2, DayAssumption
    <3> QED
      BY <3>1 DEF toDateOnly, AskedAs
  <2>4. /\ e \in Employee /\ attendance[e][d] \in Row
        /\ query'.who = who /\ query'.from = from /\ query'.to = to
    BY <2>2 DEF IInv, TypeOK
  <2>5. getDailyAttendanceRows(staff, On(d))[e] # "Absent" <=> attendance[e][d] # "none"
    BY <2>4, StatusType DEF getDailyAttendanceRows, On
  <2>6. <<e, d>> \in listing' <=>
          e \in who /\ ~refused' /\ attendance[e][d] # "none" /\ Between(d, toDateOnly(from), toDateOnly(to))
    BY <2>2
  <2>7. Between(d, toDateOnly(from), toDateOnly(to)) => ~refused'
    <3>1. d \in Nat
      BY DayAssumption
    <3> QED
      BY <2>2, <2>3, <3>1 DEF Between
  <2>8. Between(d, toDateOnly(from), toDateOnly(to)) <=>
          (from # NoDay => from <= AskedAs(d)) /\ (to # NoDay => AskedAs(d) <= to)
    <3>1. d \in Nat
      BY DayAssumption
    <3> QED
      BY <2>3, <3>1 DEF Between
  <2> QED
    BY <2>4, <2>5, <2>6, <2>7, <2>8
<1> QED
  BY <1>1, Invariance, PTL DEF Spec, ListingAgreesWithReport

-----------------------------------------------------------------------------
(* Scans. Of an employee with a creation time of his own, only the number  *)
(* of those created after him says on which page he is: as long as he has  *)
(* not been listed they fill the pages asked for (MissedAreBehind), and    *)
(* once he has been they do not (ListedAreBefore).                         *)

Newer(e) == {f \in staff : createdAt[f] > createdAt[e]}
Alone(e) == e \in staff \ (gone \cup came) /\ ~Tied(e)

\* How many rows the pages hold that have been asked for.
Asked == IF pc = "count" THEN page * limit ELSE Skip

HasLimit == kind = "scan" => limit \in Limits
FreshScan == pc = "start" => page = 1 /\ (\A e \in Employee : listed[e] = 0) /\ gone = {} /\ came = {}
MissedAreBehind ==
    kind = "scan" =>
        \A e \in Employee :
            Alone(e) /\ listed[e] = 0 /\ (\A f \in gone : ~(createdAt[f] > createdAt[e]))
                => pc # "done" /\ Cardinality(Newer(e)) >= Asked
ListedAreBefore ==
    kind = "scan" =>
        \A e \in Employee :
            Alone(e) /\ (\A f \in came : ~(createdAt[f] > createdAt[e]))
                => /\ listed[e] <= 1
                   /\ listed[e] = 1 /\ pc # "done" => Cardinality(Newer(e)) < Asked

ScanIInv == HasLimit /\ FreshScan /\ MissedAreBehind /\ ListedAreBefore

\* A page begins where the one before it ends.
LEMMA PageArithmetic ==
    ASSUME NEW p \in Nat \ {0}, NEW l \in Nat \ {0}
    PROVE  /\ (p - 1) * l \in Nat /\ p * l \in Nat
           /\ p * l = (p - 1) * l + l
           /\ ((p + 1) - 1) * l = p * l
           /\ (1 - 1) * l = 0
<1>1. PICK q \in Nat : p = q + 1
  <2>1. p - 1 \in Nat /\ p = (p - 1) + 1
    OBVIOUS
  <2> QED
    BY <2>1
<1>2. q * l \in Nat /\ (q + 1) * l = q * l + l /\ (1 - 1) * l = 0
  OBVIOUS
<1>3. p - 1 = q /\ (p + 1) - 1 = q + 1
  BY <1>1
<1> QED
  BY <1>1, <1>2, <1>3

\* The tables are finite.
LEMMA Finiteness == \A T \in SUBSET Employee : IsFiniteSet(T) /\ Cardinality(T) \in Nat
BY EmployeeAssumption, FS_Subset, FS_CardinalityType

\* Where a page stands to the number of those newer than an employee: it has
\* him only if they reach up to it and do not fill it, and if they reach up to
\* it and it has not, they fill it.
LEMMA PageOf ==
    ASSUME TypeOK, limit \in Nat \ {0}, NEW data \in Pages, NEW e \in staff,
           \A f \in staff \ {e} : createdAt[f] # createdAt[e]
    PROVE  /\ data \subseteq staff /\ Cardinality(data) \in Nat /\ Skip \in Nat
           /\ e \in data => Cardinality(Newer(e)) >= Skip /\ Cardinality(Newer(e)) < Skip + limit
           /\ e \notin data /\ Cardinality(Newer(e)) >= Skip
                => Cardinality(data) = limit /\ Cardinality(Newer(e)) >= Skip + limit
<1>1. data \subseteq staff
  BY DEF Pages
<1>2. PICK before \in SUBSET (staff \ data) :
        /\ Cardinality(data) <= limit
        /\ Cardinality(before) <= Skip
        /\ staff \ (before \cup data) # {} => Cardinality(data) = limit
        /\ data \cup (staff \ (before \cup data)) # {} => Cardinality(before) = Skip
        /\ \A b \in before, x \in data \cup (staff \ (before \cup data)) : createdAt[b] >= createdAt[x]
        /\ \A x \in data, y \in staff \ (before \cup data) : createdAt[x] >= createdAt[y]
  BY DEF Pages
<1>3. Skip \in Nat
  BY PageArithmetic DEF TypeOK, Skip
<1>4. \A f \in staff : createdAt[f] \in Nat
  BY BoundsAssumption DEF TypeOK
<1>5. /\ IsFiniteSet(before) /\ Cardinality(before) \in Nat
      /\ IsFiniteSet(data) /\ Cardinality(data) \in Nat
      /\ IsFiniteSet(Newer(e)) /\ Cardinality(Newer(e)) \in Nat /\ Newer(e) \subseteq staff
  BY <1>1, Finiteness DEF Newer, TypeOK
<1>6. IsFiniteSet(before \cup data) /\ Cardinality(before \cup data) = Cardinality(before) + Cardinality(data)
  <2>1. before \cap data = {}
    OBVIOUS
  <2>2. Cardinality(before \cap data) = 0
    BY <2>1, FS_EmptySet
  <2>3. /\ IsFiniteSet(before \cup data)
        /\ Cardinality(before \cup data) =
             Cardinality(before) + Cardinality(data) - Cardinality(before \cap data)
    BY <1>5, FS_Union, Zenon
  <2> QED
    BY <1>5, <2>2, <2>3
<1>7. CASE e \in data
  <2>1. before \in SUBSET Newer(e)
    BY <1>2, <1>4, <1>7 DEF Newer
  <2>2. Cardinality(before) = Skip /\ Cardinality(before) <= Cardinality(Newer(e))
    BY <1>2, <1>5, <1>7, <2>1, FS_Subset
  <2>3. Newer(e) \in SUBSET ((before \cup data) \ {e})
    BY <1>2, <1>4, <1>7 DEF Newer
  <2>4. /\ IsFiniteSet((before \cup data) \ {e})
        /\ Cardinality((before \cup data) \ {e}) = Cardinality(before \cup data) - 1
    BY <1>6, <1>7, FS_RemoveElement
  <2>5. Cardinality(Newer(e)) <= Cardinality((before \cup data) \ {e})
    BY <2>3, <2>4, FS_Subset
  <2> QED
    BY <1>1, <1>2, <1>3, <1>5, <1>6, <1>7, <2>2, <2>4, <2>5
<1>8. CASE e \notin data /\ e \in before
  <2>1. Newer(e) \in SUBSET (before \ {e})
    BY <1>2, <1>4, <1>8 DEF Newer
  <2>2. IsFiniteSet(before \ {e}) /\ Cardinality(before \ {e}) = Cardinality(before) - 1
    BY <1>5, <1>8, FS_RemoveElement
  <2>3. Cardinality(Newer(e)) <= Cardinality(before \ {e})
    BY <2>1, <2>2, FS_Subset
  <2> QED
    BY <1>1, <1>2, <1>3, <1>5, <1>8, <2>2, <2>3
<1>9. CASE e \notin data /\ e \notin before
  <2>1. before \cup data \in SUBSET Newer(e)
    BY <1>1, <1>2, <1>4, <1>9 DEF Newer
  <2>2. Cardinality(before \cup data) <= Cardinality(Newer(e))
    BY <1>5, <2>1, FS_Subset
  <2>3. Cardinality(data) = limit /\ Cardinality(before) = Skip
    BY <1>2, <1>9
  <2> QED
    BY <1>1, <1>3, <1>5, <1>6, <1>9, <2>2, <2>3
<1> QED
  BY <1>7, <1>8, <1>9

\* The tables change: a steady employee loses nobody newer unless he is among
\* the gone, and gets nobody newer unless he is among those who came.
LEMMA ScanTableStep ==
    ASSUME IInv, ScanIInv, NEW e \in Employee,
           Hire(e) \/ Reinsert(e) \/ Dismiss(e) \/ \E d \in Day : Attend(e, d)
    PROVE  ScanIInv'
<1> USE DEF IInv, ScanIInv
<1>1. /\ pc # "done" /\ kind' = kind /\ limit' = limit /\ pc' = pc /\ page' = page /\ listed' = listed
      /\ Skip' = Skip /\ Asked' = Asked
  BY DEF Hire, Reinsert, Dismiss, Attend, Recorded, request, scan, Skip, Asked
<1>2. TypeOK'
  BY TableStep
<1>3. HasLimit' /\ FreshScan'
  BY <1>1 DEF HasLimit, FreshScan, Hire, Reinsert, Dismiss, Attend, Recorded, Reading
<1> SUFFICES ASSUME kind = "scan" PROVE MissedAreBehind' /\ ListedAreBefore'
  BY <1>1, <1>3 DEF MissedAreBehind, ListedAreBefore
<1>4. \A x \in Employee : createdAt[x] \in Nat /\ createdAt'[x] \in Nat
  BY <1>2, BoundsAssumption DEF TypeOK
<1>5. CASE pc = "start"
  <2>1. Asked = 0
    BY <1>5, PageArithmetic, LimitsAssumption DEF FreshScan, Asked, Skip, HasLimit
  <2>2. \A x : Cardinality(Newer(x)') \in Nat
    BY <1>2, Finiteness DEF Newer, TypeOK
  <2> QED
    BY <1>1, <1>5, <2>1, <2>2 DEF FreshScan, MissedAreBehind, ListedAreBefore
<1>6. CASE pc # "start"
  <2>1. Reading
    BY <1>1, <1>6 DEF Reading, TypeOK
  <2>2. /\ staff' \subseteq staff \cup came' /\ staff \subseteq staff' \cup gone'
        /\ gone \subseteq gone' /\ came \subseteq came'
    BY <2>1 DEF Hire, Reinsert, Dismiss, Attend, Recorded
  <2>3. \A x \in Employee : createdAt[x] # 0 => createdAt'[x] = createdAt[x]
    BY DEF Hire, Reinsert, Dismiss, Attend, TypeOK
  <2>4. /\ staff \subseteq Employee /\ gone \subseteq Employee /\ came \subseteq Employee
        /\ staff' \subseteq Employee /\ \A x \in staff : createdAt[x] # 0
    BY <1>2 DEF TypeOK
  <2> SUFFICES ASSUME NEW x \in Employee, Alone(x)'
               PROVE  /\ listed[x] = 0 /\ (\A f \in gone' : ~(createdAt'[f] > createdAt'[x]))
                           => Cardinality(Newer(x))' >= Asked
                      /\ (\A f \in came' : ~(createdAt'[f] > createdAt'[x]))
                           => /\ listed[x] <= 1
                              /\ listed[x] = 1 => Cardinality(Newer(x))' < Asked
    BY <1>1 DEF MissedAreBehind, ListedAreBefore
  <2>5. x \in staff \ (gone \cup came) /\ createdAt'[x] = createdAt[x] /\ createdAt[x] # 0
    BY <2>2, <2>3, <2>4 DEF Alone
  <2>6. Alone(x)
    <3>1. \A f \in (staff \cup gone) \ {x} : createdAt[f] # createdAt[x]
      BY <2>2, <2>3, <2>4, <2>5 DEF Alone, Tied
    <3> QED
      BY <2>5, <3>1 DEF Alone, Tied
  <2>7. /\ IsFiniteSet(Newer(x)) /\ Cardinality(Newer(x)) \in Nat
        /\ IsFiniteSet(Newer(x)') /\ Cardinality(Newer(x)') \in Nat
    BY <1>2, Finiteness DEF Newer, TypeOK
  <2>8. listed[x] \in 0..2 /\ Asked \in Nat
    BY PageArithmetic, LimitsAssumption DEF TypeOK, Asked, Skip, HasLimit
  <2>9. ASSUME listed[x] = 0, \A f \in gone' : ~(createdAt'[f] > createdAt'[x])
        PROVE  Cardinality(Newer(x)') >= Asked
    <3>1. \A f \in gone : ~(createdAt[f] > createdAt[x])
      BY <1>4, <2>2, <2>3, <2>4, <2>5, <2>9
    <3>2. Newer(x) \in SUBSET Newer(x)'
      BY <1>4, <2>2, <2>3, <2>4, <2>5, <2>9 DEF Newer
    <3>3. Cardinality(Newer(x)) <= Cardinality(Newer(x)')
      BY <2>7, <3>2, FS_Subset
    <3>4. Cardinality(Newer(x)) >= Asked
      BY <2>6, <2>9, <3>1 DEF MissedAreBehind
    <3> QED
      BY <2>7, <2>8, <3>3, <3>4
  <2>10. ASSUME \A f \in came' : ~(createdAt'[f] > createdAt'[x])
         PROVE  listed[x] <= 1 /\ (listed[x] = 1 => Cardinality(Newer(x)') < Asked)
    <3>1. \A f \in came : ~(createdAt[f] > createdAt[x])
      BY <1>4, <2>2, <2>3, <2>4, <2>5, <2>10
    <3>2. Newer(x)' \in SUBSET Newer(x)
      BY <1>4, <2>2, <2>3, <2>4, <2>5, <2>10 DEF Newer
    <3>3. Cardinality(Newer(x)') <= Cardinality(Newer(x))
      BY <2>7, <3>2, FS_Subset
    <3>4. listed[x] <= 1 /\ (listed[x] = 1 => Cardinality(Newer(x)) < Asked)
      BY <1>1, <2>6, <3>1 DEF ListedAreBefore
    <3> QED
      BY <2>7, <2>8, <3>3, <3>4
  <2> QED
    BY <2>9, <2>10
<1> QED
  BY <1>5, <1>6

\* A page is read.
LEMMA FindPageStep == IInv /\ ScanIInv /\ findPage => ScanIInv'
<1> SUFFICES ASSUME IInv, ScanIInv, findPage PROVE ScanIInv'
  OBVIOUS
<1> USE DEF IInv, ScanIInv
<1>1. PICK data \in Pages :
        /\ listed' = [e \in Employee |-> IF e \in data /\ listed[e] < 2 THEN listed[e] + 1 ELSE listed[e]]
        /\ \/ /\ Cardinality(data) < limit /\ (data # {} \/ Skip = 0)
              /\ NextPage(Skip + Cardinality(data))
           \/ /\ Cardinality(data) = limit \/ (data = {} /\ Skip > 0)
              /\ pc' = "count" /\ UNCHANGED page
  BY DEF findPage
<1>2. /\ kind = "scan" /\ pc = "reading" /\ kind' = kind /\ limit' = limit
      /\ staff' = staff /\ createdAt' = createdAt /\ gone' = gone /\ came' = came
  BY DEF findPage, tables, request, history
<1>3. limit \in Nat \ {0} /\ page \in Nat \ {0} /\ Skip \in Nat /\ page * limit = Skip + limit /\ Asked = Skip
  BY <1>2, LimitsAssumption, PageArithmetic DEF HasLimit, TypeOK, Skip, Asked
<1>4. data \subseteq staff /\ Cardinality(data) \in Nat
  BY Finiteness DEF Pages, TypeOK
<1>5. /\ page' = page
      /\ pc' = "done" \/ (pc' = "count" /\ Asked' = Skip + limit)
      /\ Cardinality(data) = limit => pc' = "count"
  <2>1. CASE Cardinality(data) < limit /\ NextPage(Skip + Cardinality(data))
    <3>1. page * limit >= Skip + Cardinality(data) /\ Cardinality(data) # limit
      BY <1>3, <1>4, <2>1
    <3>2. pc' = "done" /\ page' = page
      BY <2>1, <3>1, Zenon DEF NextPage
    <3> QED
      BY <3>1, <3>2
  <2>2. CASE pc' = "count" /\ UNCHANGED page
    BY <1>2, <1>3, <2>2 DEF Asked
  <2> QED
    BY <1>1, <2>1, <2>2
<1>6. HasLimit' /\ FreshScan'
  BY <1>2, <1>5 DEF HasLimit, FreshScan
<1> SUFFICES ASSUME NEW e \in Employee, Alone(e)
             PROVE  /\ listed'[e] = 0 /\ (\A f \in gone : ~(createdAt[f] > createdAt[e]))
                         => pc' # "done" /\ Cardinality(Newer(e)) >= Asked'
                    /\ (\A f \in came : ~(createdAt[f] > createdAt[e]))
                         => /\ listed'[e] <= 1
                            /\ listed'[e] = 1 /\ pc' # "done" => Cardinality(Newer(e)) < Asked'
  <2>1. \A e : Newer(e)' = Newer(e) /\ Alone(e)' = Alone(e)
    BY <1>2 DEF Newer, Alone, Tied
  <2> QED
    BY <1>2, <1>6, <2>1 DEF MissedAreBehind, ListedAreBefore
<1>7. /\ Cardinality(Newer(e)) \in Nat
      /\ e \in data => Cardinality(Newer(e)) >= Skip /\ Cardinality(Newer(e)) < Skip + limit
      /\ e \notin data /\ Cardinality(Newer(e)) >= Skip
           => Cardinality(data) = limit /\ Cardinality(Newer(e)) >= Skip + limit
  <2>1. e \in staff /\ \A f \in staff \ {e} : createdAt[f] # createdAt[e]
    BY DEF Alone, Tied
  <2> QED
    BY <1>3, <2>1, PageOf, Finiteness DEF Newer, TypeOK
<1>8. listed[e] \in 0..2 /\ listed'[e] = IF e \in data /\ listed[e] < 2 THEN listed[e] + 1 ELSE listed[e]
  BY <1>1 DEF TypeOK
<1>9. ASSUME listed'[e] = 0, \A f \in gone : ~(createdAt[f] > createdAt[e])
      PROVE  pc' # "done" /\ Cardinality(Newer(e)) >= Asked'
  <2>1. e \notin data /\ listed[e] = 0
    BY <1>8, <1>9
  <2>2. Cardinality(Newer(e)) >= Skip
    BY <1>2, <1>3, <1>9, <2>1 DEF MissedAreBehind
  <2> QED
    BY <1>5, <1>7, <2>1, <2>2
<1>10. ASSUME \A f \in came : ~(createdAt[f] > createdAt[e])
       PROVE  /\ listed'[e] <= 1
              /\ listed'[e] = 1 /\ pc' # "done" => Cardinality(Newer(e)) < Asked'
  <2>1. listed[e] <= 1 /\ (listed[e] = 1 => Cardinality(Newer(e)) < Skip)
    BY <1>2, <1>3, <1>10 DEF ListedAreBefore
  <2> QED
    BY <1>3, <1>5, <1>7, <1>8, <2>1
<1> QED
  BY <1>9, <1>10

\* The total is counted: there is more where an employee is behind the pages.
LEMMA CountStep == IInv /\ ScanIInv /\ count => ScanIInv'
<1> SUFFICES ASSUME IInv, ScanIInv, count PROVE ScanIInv'
  OBVIOUS
<1> USE DEF IInv, ScanIInv
<1>1. /\ kind = "scan" /\ pc = "count" /\ NextPage(Cardinality(staff))
      /\ kind' = kind /\ limit' = limit /\ listed' = listed
      /\ staff' = staff /\ createdAt' = createdAt /\ gone' = gone /\ came' = came
  BY DEF count, tables, request, history
<1>2. /\ limit \in Nat \ {0} /\ page \in Nat \ {0} /\ page * limit \in Nat /\ ((page + 1) - 1) * limit = page * limit
      /\ Asked = page * limit
  BY <1>1, LimitsAssumption, PageArithmetic DEF HasLimit, TypeOK, Asked
<1>3. \/ pc' = "done" /\ page * limit >= Cardinality(staff)
      \/ pc' = "reading" /\ Asked' = Asked
  BY <1>1, <1>2 DEF NextPage, Asked, Skip
<1>4. \A e \in staff : Cardinality(Newer(e)) \in Nat /\ Cardinality(Newer(e)) < Cardinality(staff)
  <2> SUFFICES ASSUME NEW e \in staff
               PROVE  Cardinality(Newer(e)) \in Nat /\ Cardinality(Newer(e)) < Cardinality(staff)
    OBVIOUS
  <2>1. IsFiniteSet(staff) /\ Cardinality(staff) \in Nat /\ Cardinality(Newer(e)) \in Nat
    BY Finiteness DEF Newer, TypeOK
  <2>2. createdAt[e] \in Nat
    BY BoundsAssumption DEF TypeOK
  <2>3. Newer(e) \in SUBSET staff /\ Newer(e) # staff
    BY <2>2 DEF Newer
  <2>4. Cardinality(Newer(e)) <= Cardinality(staff) /\ Cardinality(Newer(e)) # Cardinality(staff)
    BY <2>1, <2>3, FS_Subset
  <2> QED
    BY <2>1, <2>4
<1>5. HasLimit' /\ FreshScan'
  BY <1>1, <1>3 DEF HasLimit, FreshScan
<1>6. \A e : Newer(e)' = Newer(e) /\ Alone(e)' = Alone(e)
  BY <1>1 DEF Newer, Alone, Tied
<1>7. MissedAreBehind'
  <2> SUFFICES ASSUME NEW e \in Employee, Alone(e), listed[e] = 0, \A f \in gone : ~(createdAt[f] > createdAt[e])
               PROVE  pc' # "done" /\ Cardinality(Newer(e)) >= Asked'
    BY <1>1, <1>6 DEF MissedAreBehind
  <2>1. Cardinality(Newer(e)) >= Asked /\ e \in staff
    BY <1>1 DEF MissedAreBehind, Alone
  <2>2. Cardinality(staff) \in Nat
    BY Finiteness DEF TypeOK
  <2> QED
    BY <1>2, <1>3, <1>4, <2>1, <2>2
<1>8. ListedAreBefore'
  <2> SUFFICES ASSUME NEW e \in Employee, Alone(e), \A f \in came : ~(createdAt[f] > createdAt[e])
               PROVE  /\ listed[e] <= 1
                      /\ listed[e] = 1 /\ pc' # "done" => Cardinality(Newer(e)) < Asked'
    BY <1>1, <1>6 DEF ListedAreBefore
  <2> QED
    BY <1>1, <1>3 DEF ListedAreBefore
<1> QED
  BY <1>5, <1>7, <1>8

LEMMA NextScanIInv == IInv /\ ScanIInv /\ [Next]_vars => ScanIInv'
<1> SUFFICES ASSUME IInv, ScanIInv, [Next]_vars PROVE ScanIInv'
  OBVIOUS
<1>1. ASSUME NEW e \in Employee,
             Hire(e) \/ Reinsert(e) \/ Dismiss(e) \/ \E d \in Day : Attend(e, d)
      PROVE  ScanIInv'
  BY <1>1, ScanTableStep
<1>2. CASE findPage \/ count
  BY <1>2, FindPageStep, CountStep
<1>3. CASE Begin
  <2>1. /\ pc = "start" /\ pc' = "reading"
        /\ UNCHANGED <<kind, limit, page, listed, staff, createdAt, gone, came>>
    BY <1>3 DEF Begin, tables, request, scan
  <2>2. \A e : Newer(e)' = Newer(e) /\ Cardinality(Newer(e)) \in Nat
    BY <2>1, Finiteness DEF Newer, IInv, TypeOK
  <2>3. kind = "scan" => Asked' = 0
    BY <2>1, LimitsAssumption, PageArithmetic DEF ScanIInv, FreshScan, HasLimit, Asked, Skip
  <2> QED
    BY <2>1, <2>2, <2>3 DEF ScanIInv, HasLimit, FreshScan, MissedAreBehind, ListedAreBefore
<1>4. CASE readEmployees \/ readAttendances \/ findAll
  BY <1>4 DEF readEmployees, readAttendances, findAll, request, scan, history, ScanIInv, HasLimit, FreshScan,
              MissedAreBehind, ListedAreBefore
<1>5. CASE UNCHANGED vars
  <2>1. UNCHANGED <<kind, limit, pc, page, listed, staff, createdAt, gone, came>>
    BY <1>5 DEF vars, tables, request, scan, history
  <2>2. Skip' = Skip /\ Asked' = Asked /\ \A e : Newer(e)' = Newer(e) /\ Alone(e)' = Alone(e)
    BY <2>1 DEF Skip, Asked, Newer, Alone, Tied
  <2> QED
    BY <2>1, <2>2 DEF ScanIInv, HasLimit, FreshScan, MissedAreBehind, ListedAreBefore
<1> QED
  BY <1>1, <1>2, <1>3, <1>4, <1>5 DEF Next

\* EmployeesService.findAll, page after page: an employee with a creation time
\* of his own who is there during the whole scan is missed only if somebody
\* newer was removed meanwhile, and listed twice only if somebody newer was
\* inserted, for any table, page size and sequence of changes.
THEOREM ScansListTheSteady == Spec => []ScanListsTheSteady
<1>1. Init => ScanIInv
  <2> SUFFICES ASSUME Init PROVE ScanIInv
    OBVIOUS
  <2>1. kind = "scan" => limit \in Limits
    BY DEF Init
  <2>2. pc = "start" /\ page = 1 /\ gone = {} /\ came = {} /\ \A e \in Employee : listed[e] = 0
    BY DEF Init
  <2>3. TypeOK
    BY InitIInv DEF IInv
  <2>4. kind = "scan" => Asked = 0
    BY <2>1, <2>2, LimitsAssumption, PageArithmetic DEF Asked, Skip
  <2>5. \A e : Cardinality(Newer(e)) \in Nat
    BY <2>3, Finiteness DEF Newer, TypeOK
  <2> QED
    BY <2>1, <2>2, <2>4, <2>5 DEF ScanIInv, HasLimit, FreshScan, MissedAreBehind, ListedAreBefore
<1>2. IInv /\ ScanIInv => ScanListsTheSteady
  <2> SUFFICES ASSUME IInv, ScanIInv, kind = "scan", pc = "done",
                      NEW e \in staff \ (gone \cup came), ~Tied(e)
               PROVE  /\ listed[e] = 0 => \E f \in gone : createdAt[f] > createdAt[e]
                      /\ listed[e] = 2 => \E f \in came : createdAt[f] > createdAt[e]
    BY DEF ScanListsTheSteady
  <2>1. e \in Employee /\ Alone(e)
    BY DEF IInv, TypeOK, Alone
  <2> QED
    BY <2>1 DEF ScanIInv, MissedAreBehind, ListedAreBefore
<1> QED
  BY <1>1, <1>2, InitIInv, NextIInv, NextScanIInv, PTL DEF Spec
=============================================================================
