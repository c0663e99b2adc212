------------------------------- MODULE Reads -------------------------------
(***************************************************************************)
(* The requests that only read, while employees and attendances change     *)
(* under them:                                                             *)
(*    report   ReportsService.getDailyAttendanceRows, two queries of one   *)
(*             Promise.all, in either order;                               *)
(*    scan     a client that asks EmployeesService.findAll for page after  *)
(*             page; each page is a query for its rows and, unless TypeORM *)
(*             can tell the total from a page that is not full, another    *)
(*             one for the count;                                          *)
(*    listing  AttendanceService.findAll, one query.                       *)
(* No two queries share a transaction.                                     *)
(***************************************************************************)
EXTENDS Naturals, FiniteSets

CONSTANTS
    Employee,   \* ids; one that was removed comes back only through an update
    Day,        \* consecutive dates, numbered
    NoDay,      \* a filter that is not given
    Limits,     \* page sizes clients ask for
    Zones,      \* where the server's clock may be, as seen from UTC
    Clock,      \* bound: values of createdAt are 1..Clock
    Changes     \* bound: changes of the tables in one execution

ASSUME EmployeeAssumption == Employee # {} /\ IsFiniteSet(Employee)
ASSUME DayAssumption == Day \subseteq Nat \ {0} /\ NoDay \notin Nat \cup Employee
ASSUME LimitsAssumption == Limits \subseteq Nat \ {0}
ASSUME ZonesAssumption == Zones \subseteq {"behind", "utc", "ahead"}
ASSUME BoundsAssumption == Clock \in Nat \ {0} /\ Changes \in Nat

Row == {"none", "in", "out"}    \* no row, checkOutAt is null, it is not
Status == {"Absent", "Present", "Left"}

VARIABLES
    staff, createdAt,       \* the table employees
    attendance,             \* the table attendances
    changes,                \* how often the tables have changed
    kind, zone, date, limit,    \* the request under study
    pc,                     \* "start", "reading", "count", "done"
    employees, attendances, \* report: what was read of the tables
    page, listed,           \* scan: the next page; how often, up to 2, one was listed
    query, listing, refused,    \* listing: the filters, the rows, the 400
    moments,                \* history: the statuses that held while reading
    gone, came              \* history: who was removed, or inserted, meanwhile

tables == <<staff, createdAt, attendance>>
request == <<kind, zone, date, limit>>
report == <<employees, attendances>>
scan == <<page, listed>>
answer == <<query, listing, refused>>
history == <<moments, gone, came>>
vars == <<tables, changes, request, pc, report, scan, answer, history>>

\* Of the employees, the attendances and the filters.
Unread == {NoDay}
NoRows == [e \in Employee |-> "unread"]

\* Dates matter to reports and listings only, and createdAt to scans.
Init ==
    /\ kind \in {"report", "scan", "listing"}
    /\ createdAt \in [Employee -> IF kind = "scan" THEN 0..Clock ELSE {0, 1}]
    /\ staff = {e \in Employee : createdAt[e] > 0}
    /\ attendance = [e \in Employee |-> [d \in Day |-> "none"]]
    /\ changes = 0
    /\ zone \in IF kind = "listing" THEN Zones ELSE {"utc"}
    /\ date \in IF kind = "report" THEN Day ELSE {NoDay}
    /\ limit \in IF kind = "scan" THEN Limits ELSE {0}
    /\ pc = "start"
    /\ employees = Unread /\ attendances = NoRows
    /\ page = 1
    /\ listed = [e \in Employee |-> 0]
    /\ query = Unread /\ listing = {} /\ refused = FALSE
    /\ moments = {} /\ gone = {} /\ came = {}

-----------------------------------------------------------------------------
(* What a report says.                                                     *)

computeStatus(row) ==
    CASE row = "none" -> "Absent"
      [] row = "in" -> "Present"
      [] row = "out" -> "Left"

On(d) == [e \in Employee |-> attendance[e][d]]

\* Fault variant: a join that loses the absent.
getDailyAttendanceRows_Joined(es, rows) ==
    [e \in {x \in es : rows[x] # "none"} |-> computeStatus(rows[e])]

getDailyAttendanceRows(es, rows) == [e \in es |-> computeStatus(rows[e])]

\* The statuses on the date of the report, if it were made now.
Statuses ==
    [e \in Employee |-> IF e \in staff THEN computeStatus(attendance[e][date]) ELSE "none"]

-----------------------------------------------------------------------------
(* The tables change.                                                      *)

Reading == pc \in {"reading", "count"}

\* The history of a change of the employees in came and gone.
Recorded(arrived, left) ==
    /\ changes < Changes /\ pc # "done"
    /\ changes' = changes + 1
    /\ came' = IF Reading THEN came \cup arrived ELSE came
    /\ gone' = IF Reading THEN gone \cup left ELSE gone
    /\ UNCHANGED <<request, pc, report, scan, answer>>
    /\ moments' = IF Reading /\ kind = "report" THEN moments \cup {Statuses'} ELSE moments

\* Any time: commits do not follow the order of their timestamps.
Hire(e) ==
    /\ createdAt[e] = 0
    /\ staff' = staff \cup {e}
    /\ \E t \in IF kind = "scan" THEN 1..Clock ELSE {1} : createdAt' = [createdAt EXCEPT ![e] = t]
    /\ UNCHANGED attendance
    /\ Recorded({e}, {})

\* save of an update that read the employee before he was removed.
Reinsert(e) ==
    /\ e \notin staff /\ createdAt[e] > 0
    /\ staff' = staff \cup {e}
    /\ UNCHANGED <<createdAt, attendance>>
    /\ Recorded({e}, {})

\* Fault variant: attendances are left behind.
Dismiss_NoCascade(e) ==
    /\ e \in staff
    /\ staff' = staff \ {e}
    /\ UNCHANGED <<createdAt, attendance>>
    /\ Recorded({}, {e})

Dismiss(e) ==
    /\ e \in staff
    /\ staff' = staff \ {e}
    /\ attendance' = [attendance EXCEPT ![e] = [d \in Day |-> "none"]]
    /\ UNCHANGED createdAt
    /\ Recorded({}, {e})

Attend(e, d) ==
    /\ kind # "scan"
    /\ e \in staff
    /\ \/ attendance[e][d] = "none" /\ attendance' = [attendance EXCEPT ![e][d] = "in"]
       \/ attendance[e][d] = "in" /\ attendance' = [attendance EXCEPT ![e][d] = "out"]
    /\ UNCHANGED <<staff, createdAt>>
    /\ Recorded({}, {})

-----------------------------------------------------------------------------
(* The requests.                                                           *)

Begin ==
    /\ pc = "start"
    /\ pc' = "reading"
    /\ moments' = IF kind = "report" THEN {Statuses} ELSE {}
    /\ UNCHANGED <<tables, changes, request, report, scan, answer, gone, came>>

readEmployees ==
    /\ kind = "report" /\ pc = "reading" /\ employees = Unread
    /\ employees' = staff
    /\ pc' = IF attendances # NoRows THEN "done" ELSE pc
    /\ UNCHANGED <<tables, changes, request, attendances, scan, answer, history>>

readAttendances ==
    /\ kind = "report" /\ pc = "reading" /\ attendances = NoRows
    /\ attendances' = On(date)
    /\ pc' = IF employees # Unread THEN "done" ELSE pc
    /\ UNCHANGED <<tables, changes, request, employees, scan, answer, history>>

\* Fault variant: pages are counted from 0.
Skip_FromZero == page * limit

Skip == (page - 1) * limit

\* The pages ORDER BY createdAt DESC admits: who is created at the same time
\* comes in any order, and in another one the next time.
Pages ==
    {data \in SUBSET staff :
        \E before \in SUBSET (staff \ data) :
            LET after == staff \ (before \cup data)
            IN  /\ Cardinality(data) <= limit
                /\ Cardinality(before) <= Skip
                /\ after # {} => Cardinality(data) = limit
                /\ data \cup after # {} => Cardinality(before) = Skip
                /\ \A b \in before, x \in data \cup after : createdAt[b] >= createdAt[x]
                /\ \A x \in data, y \in after : createdAt[x] >= createdAt[y]}

\* The client asks for more as long as the total says that there is more.
NextPage(total) ==
    IF page * limit >= total
    THEN pc' = "done" /\ UNCHANGED page
    ELSE pc' = "reading" /\ page' = page + 1

findPage ==
    /\ kind = "scan" /\ pc = "reading"
    /\ \E data \in Pages :
         /\ listed' = [e \in Employee |-> IF e \in data /\ listed[e] < 2 THEN listed[e] + 1 ELSE listed[e]]
         /\ \/ /\ Cardinality(data) < limit /\ (data # {} \/ Skip = 0)
               /\ NextPage(Skip + Cardinality(data))
            \/ /\ Cardinality(data) = limit \/ (data = {} /\ Skip > 0)
               /\ pc' = "count" /\ UNCHANGED page
    /\ UNCHANGED <<tables, changes, request, report, answer, history>>

count ==
    /\ kind = "scan" /\ pc = "count"
    /\ NextPage(Cardinality(staff))
    /\ UNCHANGED <<tables, changes, request, listed, report, answer, history>>

\* A date without a time is midnight in UTC, and is cut to a date again in the
\* server's zone.
toDateOnly(d) == IF d # NoDay /\ zone = "behind" THEN d - 1 ELSE d

\* Fault variant: dateTo is left out.
Between_Open(d, from, to) == (from # NoDay => d >= from) /\ (to # NoDay => d < to)

Between(d, from, to) == (from # NoDay => d >= from) /\ (to # NoDay => d <= to)

findAll ==
    /\ kind = "listing" /\ pc = "reading"
    /\ \E from, to \in Day \cup {NoDay}, who \in SUBSET Employee :
         LET dateFrom == toDateOnly(from)
             dateTo == toDateOnly(to)
         IN  /\ who = Employee \/ Cardinality(who) = 1
             /\ query' = [from |-> from, to |-> to, who |-> who]
             /\ refused' = (dateFrom # NoDay /\ dateTo # NoDay /\ dateFrom > dateTo)
             /\ listing' = {row \in who \X Day :
                              /\ ~refused'
                              /\ attendance[row[1]][row[2]] # "none"
                              /\ Between(row[2], dateFrom, dateTo)}
    /\ pc' = "done"
    /\ UNCHANGED <<tables, changes, request, report, scan, history>>

Next ==
    \/ \E e \in Employee : Hire(e) \/ Reinsert(e) \/ Dismiss(e) \/ \E d \in Day : Attend(e, d)
    \/ Begin \/ readEmployees \/ readAttendances \/ findPage \/ count \/ findAll

Spec == Init /\ [][Next]_vars

-----------------------------------------------------------------------------
(* Properties.                                                             *)

\* Types; an attendance belongs to an employee.
TypeOK ==
    /\ createdAt \in [Employee -> 0..Clock]
    /\ staff \subseteq {e \in Employee : createdAt[e] > 0}
    /\ attendance \in [Employee -> [Day -> Row]]
    /\ \A e \in Employee \ staff, d \in Day : attendance[e][d] = "none"
    /\ changes \in 0..Changes
    /\ kind \in {"report", "scan", "listing"}
    /\ zone \in Zones \cup {"utc"}
    /\ date \in Day \cup {NoDay}
    /\ limit \in Limits \cup {0}
    /\ pc \in {"start", "reading", "count", "done"}
    /\ employees = Unread \/ employees \subseteq Employee
    /\ attendances = NoRows \/ attendances \in [Employee -> Row]
    /\ page \in Nat \ {0}
    /\ listed \in [Employee -> 0..2]
    /\ listing \subseteq Employee \X Day
    /\ refused \in BOOLEAN
    /\ moments \subseteq [Employee -> Status \cup {"none"}]
    /\ gone \subseteq Employee /\ came \subseteq Employee

\* The two queries of a report see different tables, and it still is true of
\* one moment for everybody who was neither removed nor inserted meanwhile:
\* all are there, and with the status they had together.
ReportShowsOneMoment ==
    kind = "report" /\ pc = "done" =>
        LET rows == getDailyAttendanceRows(employees, attendances)
            Shown(e) == IF e \in DOMAIN rows THEN rows[e] ELSE "none"
        IN  \E m \in moments : \A e \in Employee \ (gone \cup came) : Shown(e) = m[e]

\* Somebody created at the same time as e.
Tied(e) == \E f \in (staff \cup gone) \ {e} : createdAt[f] = createdAt[e]

\* Who is there during the whole scan, with a time of his own, is missed only
\* if somebody newer was removed, and listed twice only if somebody newer was
\* inserted.
ScanListsTheSteady ==
    kind = "scan" /\ pc = "done" =>
        \A e \in staff \ (gone \cup came) :
            ~Tied(e) => /\ listed[e] = 0 => \E f \in gone : createdAt[f] > createdAt[e]
                        /\ listed[e] = 2 => \E f \in came : createdAt[f] > createdAt[e]

\* The date that a client has to ask for to be told of d: on a server behind
\* UTC the day after.
AskedAs(d) == IF zone = "behind" THEN d + 1 ELSE d

\* A listing of some dates has a row for whom the reports of these dates do not
\* call absent, and for nobody else; on a server behind UTC, of the dates one
\* day earlier, at both ends and without a refusal of its own.
ListingAgreesWithReport ==
    [][ kind = "listing" /\ pc' = "done" =>
          \A e \in staff, d \in Day :
            <<e, d>> \in listing' <=>
              /\ e \in query'.who
              /\ query'.from # NoDay => query'.from <= AskedAs(d)
              /\ query'.to # NoDay => AskedAs(d) <= query'.to
              /\ getDailyAttendanceRows(staff, On(d))[e] # "Absent" ]_vars
=============================================================================
