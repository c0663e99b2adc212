----------------------- MODULE AttendanceWaitsProofs -----------------------
(***************************************************************************)
(* The transactions of Attendance never all wait for each other, for every *)
(* set of requests and every finite set of employees and instants.         *)
(*                                                                         *)
(* Row locks are taken in one order, the employee's before the             *)
(* attendance's, so whoever waits for one waits for a transaction further  *)
(* on. That leaves the inserts that wait for gap locks. A gap lock covers  *)
(* a run of keys of the index without an indexed one in it (CleanGap,      *)
(* Convex), and the first gap locked over a key covers every later one     *)
(* that overlaps it or lies in one (Nested), for an insert that would      *)
(* split a locked gap waits. So an insert that waits for another one       *)
(* without a wait in return holds a strictly smaller gap than that one:    *)
(* those with a largest gap may insert, or are in a two-way wait.          *)
(***************************************************************************)
EXTENDS AttendanceProofs, FunctionTheorems, FiniteSetTheorems, WellFoundedInduction

-----------------------------------------------------------------------------
(* The inductive invariant.                                                *)

Inserting(r) == pc[r] = "save" /\ IsCheckIn(r)

\* Only a check-in that has found no row holds a gap lock, over its own key.
GapsOfInserts ==
    \A r \in Request : /\ gap[r] # {} => HoldsAttendance(r) /\ IsCheckIn(r)
                       /\ Inserting(r) => KeyOf(r) \in gap[r]

CleanGap == \A r \in Request : pc[r] = "save" => gap[r] \cap Indexed = {}

IsRun(g) == \A i, k \in g, j \in Key : Before(i, j) /\ Before(j, k) => j \in g

Convex == \A r \in Request : IsRun(gap[r])

Nests(g, h) == g \cap h = {} \/ g \subseteq h \/ h \subseteq g

Nested ==
    \A r, s \in Request : pc[r] = "save" /\ pc[s] = "save" => Nests(gap[r], gap[s])

WaitsIInv == GapsOfInserts /\ CleanGap /\ Convex /\ Nested

-----------------------------------------------------------------------------
(* The order of the index, and the gaps in it.                             *)

LEMMA DateType == Date \subseteq Nat
BY InstantAssumption, CalendarAssumption DEF Date, toDateOnly

\* The index orders its keys strictly and totally.
LEMMA BeforeOrder ==
    ASSUME NEW i \in Key, NEW j \in Key, NEW k \in Key
    PROVE  /\ ~Before(i, i)
           /\ Before(i, j) /\ Before(j, k) => Before(i, k)
           /\ i = j \/ Before(i, j) \/ Before(j, i)
<1>1. i = <<i[1], i[2]>> /\ j = <<j[1], j[2]>>
  BY DEF Key
<1>2. \A k0 \in Key : k0[1] \in Nat /\ k0[2] \in Nat
  BY EmployeeAssumption, DateType DEF Key
<1> QED
  BY <1>1, <1>2 DEF Before

\* The gap around a key that is not in the index is a run of such keys.
LEMMA GapIsARun ==
    ASSUME NEW k \in Key \ Indexed, Indexed \subseteq Key
    PROVE  /\ k \in GapAround(k)
           /\ GapAround(k) \subseteq Key
           /\ GapAround(k) \cap Indexed = {}
           /\ IsRun(GapAround(k))
<1>1. IsRun(GapAround(k))
  <2> SUFFICES ASSUME NEW i \in GapAround(k), NEW m \in GapAround(k), NEW j \in Key,
                      Before(i, j), Before(j, m)
               PROVE  j \in GapAround(k)
    BY DEF IsRun
  <2>1. \A p \in Indexed : p \in Key /\ (Before(p, i) <=> Before(p, k)) /\ (Before(p, m) <=> Before(p, k))
    BY DEF GapAround
  <2>2. i \in Key /\ m \in Key
    BY DEF GapAround
  <2>3. j \notin Indexed
    BY <2>1, <2>2, BeforeOrder
  <2>4. \A p \in Indexed : Before(p, j) <=> Before(p, k)
    BY <2>1, <2>2, BeforeOrder
  <2> QED
    BY <2>3, <2>4 DEF GapAround
<1> QED
  BY <1>1 DEF GapAround

\* A run of keys that are not in the index lies in the gap or outside it.
LEMMA GapCoversRuns ==
    ASSUME NEW k \in Key \ Indexed, Indexed \subseteq Key,
           NEW g \in SUBSET Key, g \cap Indexed = {}, IsRun(g)
    PROVE  g \cap GapAround(k) = {} \/ g \subseteq GapAround(k)
<1> SUFFICES ASSUME NEW x \in g \cap GapAround(k), NEW y \in g
             PROVE  y \in GapAround(k)
  OBVIOUS
<1>1. ASSUME NEW p \in Indexed PROVE Before(p, y) <=> Before(p, k)
  <2>1. p \in Key /\ p # x /\ p # y /\ (Before(p, x) <=> Before(p, k))
    BY <1>1 DEF GapAround
  <2>2. ASSUME Before(p, x), ~Before(p, y) PROVE FALSE
    BY <2>1, <2>2, <1>1, BeforeOrder DEF IsRun
  <2>3. ASSUME Before(p, y), ~Before(p, x) PROVE FALSE
    BY <2>1, <2>3, <1>1, BeforeOrder DEF IsRun
  <2> QED
    BY <2>1, <2>2, <2>3
<1> QED
  BY <1>1 DEF GapAround

-----------------------------------------------------------------------------
(* Step by step.                                                           *)

\* What is in the index is a key: its transaction has a call.
LEMMA IndexedType == IInv => Indexed \subseteq Key
BY KeyForType DEF IInv, Arrived, Indexed, KeyOf

LEMMA InitWaitsIInv == Init => WaitsIInv
BY DEF Init, WaitsIInv, GapsOfInserts, CleanGap, Convex, IsRun, Nested, Nests, Inserting, HoldsAttendance

\* Transactions end, and nothing new comes into the index.
LEMMA ReleaseStep ==
    ASSUME WaitsIInv,
           Indexed' \subseteq Indexed,
           \A r \in Request : HoldsAttendance(r)' =>
               pc'[r] = pc[r] /\ call'[r] = call[r] /\ gap'[r] = gap[r],
           \A r \in Request : ~HoldsAttendance(r)' => gap'[r] = {}
    PROVE  WaitsIInv'
<1>1. \A r \in Request : HoldsAttendance(r)' =>
          /\ pc'[r] = pc[r] /\ gap'[r] = gap[r] /\ HoldsAttendance(r)
          /\ IsCheckIn(r)' = IsCheckIn(r) /\ KeyOf(r)' = KeyOf(r)
  BY DEF HoldsAttendance, IsCheckIn, KeyOf
<1>2. GapsOfInserts'
  BY <1>1 DEF WaitsIInv, GapsOfInserts, Inserting, HoldsAttendance
<1>3. CleanGap'
  BY <1>1 DEF WaitsIInv, CleanGap, HoldsAttendance
<1>4. Convex'
  BY <1>1 DEF WaitsIInv, Convex, IsRun
<1>5. Nested'
  BY <1>1 DEF WaitsIInv, Nested, Nests, HoldsAttendance
<1> QED
  BY <1>2, <1>3, <1>4, <1>5 DEF WaitsIInv

\* The locking read: the gap it locks, if it locks one, is around its own key.
LEMMA LockStep ==
    ASSUME IInv, WaitsIInv, NEW r \in Request, LockAttendance(r)
    PROVE  WaitsIInv'
<1> DEFINE k == KeyOf(r)
<1>1. /\ pc[r] = "attendance" /\ ~Conflicts(r) /\ call[r] \in Call /\ k \in Key
      /\ pc' = [pc EXCEPT ![r] = "save"]
      /\ gap' = [gap EXCEPT ![r] = IF attendances[k] = NoRow THEN GapAround(k) ELSE {}]
      /\ UNCHANGED <<attendances, call>>
  BY KeyForType DEF LockAttendance, Goto, IInv, Arrived, KeyOf
<1>2. \A s \in Request : /\ IsCheckIn(s)' = IsCheckIn(s) /\ KeyOf(s)' = KeyOf(s)
                         /\ s # r => pc'[s] = pc[s] /\ gap'[s] = gap[s]
  BY <1>1 DEF IsCheckIn, KeyOf, IInv, TypeOK
<1>3. pc'[r] = "save" /\ gap[r] = {} /\ gap'[r] = IF attendances[k] = NoRow THEN GapAround(k) ELSE {}
  BY <1>1 DEF IInv, TypeOK, WaitsIInv, GapsOfInserts, HoldsAttendance
<1>4. Indexed' = Indexed /\ Indexed \subseteq Key
  BY <1>1, <1>2, <1>3, IndexedType DEF Indexed
<1>5. attendances[k] = NoRow <=> IsCheckIn(r)
  BY <1>1 DEF Conflicts
<1>6. IsCheckIn(r) => k \notin Indexed
  <2>1. ASSUME NEW s \in Request, pc[s] = "commit", KeyOf(s) = k PROVE FALSE
    <3>1. HoldsEmployee(s) /\ HoldsEmployee(r) /\ call[s] \in Call
      BY <1>1, <2>1 DEF HoldsEmployee, IInv, Arrived
    <3>2. call[s].employeeId = call[r].employeeId
      BY <1>1, <2>1, <3>1, KeyForType DEF KeyOf
    <3> QED
      BY <1>1, <2>1, <3>1, <3>2 DEF IInv, LockExclusion
  <2> QED
    BY <1>5, <2>1 DEF Indexed
<1>7. /\ gap'[r] # {} => IsCheckIn(r)
      /\ IsCheckIn(r) => k \in gap'[r]
      /\ gap'[r] \cap Indexed = {}
      /\ IsRun(gap'[r])
  <2>1. CASE IsCheckIn(r)
    BY <1>1, <1>3, <1>4, <1>5, <1>6, <2>1, GapIsARun
  <2>2. CASE ~IsCheckIn(r)
    BY <1>3, <1>5, <2>2 DEF IsRun
  <2> QED
    BY <2>1, <2>2
<1>8. ASSUME NEW s \in Request, s # r, pc[s] = "save" PROVE Nests(gap[s], gap'[r])
  <2>1. CASE IsCheckIn(r)
    <3>1. gap[s] \in SUBSET Key /\ gap[s] \cap Indexed = {} /\ IsRun(gap[s])
      BY <1>8 DEF IInv, TypeOK, WaitsIInv, CleanGap, Convex
    <3> QED
      BY <1>1, <1>3, <1>4, <1>5, <1>6, <2>1, <3>1, GapCoversRuns DEF Nests
  <2>2. CASE ~IsCheckIn(r)
    BY <1>3, <1>5, <2>2 DEF Nests
  <2> QED
    BY <2>1, <2>2
<1>9. GapsOfInserts'
  BY <1>2, <1>3, <1>7 DEF WaitsIInv, GapsOfInserts, Inserting, HoldsAttendance
<1>10. CleanGap'
  BY <1>2, <1>3, <1>4, <1>7 DEF WaitsIInv, CleanGap
<1>11. Convex'
  BY <1>2, <1>7 DEF WaitsIInv, Convex, IsRun
<1>12. Nested'
  <2> SUFFICES ASSUME NEW s \in Request, NEW t \in Request, pc'[s] = "save", pc'[t] = "save"
               PROVE  Nests(gap'[s], gap'[t])
    BY DEF Nested, Nests
  <2>1. CASE s = r \/ t = r
    BY <1>2, <1>8, <2>1 DEF Nests
  <2>2. CASE s # r /\ t # r
    BY <1>2, <2>2 DEF WaitsIInv, Nested
  <2> QED
    BY <2>1, <2>2
<1> QED
  BY <1>9, <1>10, <1>11, <1>12 DEF WaitsIInv

\* The INSERT: its key comes into the index, and into nobody else's gap.
LEMMA SaveStep ==
    ASSUME IInv, WaitsIInv, NEW r \in Request, save(r), ~DuplicateEntry(r)
    PROVE  WaitsIInv'
<1> DEFINE k == KeyOf(r)
<1>1. /\ pc[r] = "save" /\ InsertAllowed(r) /\ ~Conflicts(r) /\ call[r] \in Call /\ k \in Key
      /\ pc' = [pc EXCEPT ![r] = "commit"]
      /\ UNCHANGED <<attendances, call, gap>>
  BY KeyForType DEF save, Goto, IInv, Arrived, Decided, HoldsAttendance, KeyOf
<1>2. \A s \in Request : /\ IsCheckIn(s)' = IsCheckIn(s) /\ KeyOf(s)' = KeyOf(s) /\ gap'[s] = gap[s]
                         /\ s # r => pc'[s] = pc[s]
  BY <1>1 DEF IsCheckIn, KeyOf, IInv, TypeOK
<1>3. pc'[r] = "commit"
  BY <1>1 DEF IInv, TypeOK
<1>4. Indexed' = Indexed \cup {k}
  BY <1>1, <1>2, <1>3 DEF Indexed
<1>5. ASSUME NEW s \in Request, s # r, pc[s] = "save" PROVE k \notin gap[s]
  <2>1. CASE IsCheckIn(r)
    BY <1>1, <1>5, <2>1 DEF InsertAllowed, WaitsFor
  <2>2. CASE ~IsCheckIn(r)
    BY <1>1, <1>5, <2>2 DEF Conflicts, Indexed, WaitsIInv, CleanGap
  <2> QED
    BY <2>1, <2>2
<1>6. GapsOfInserts'
  BY <1>1, <1>2, <1>3 DEF WaitsIInv, GapsOfInserts, Inserting, HoldsAttendance
<1>7. CleanGap'
  BY <1>2, <1>3, <1>4, <1>5 DEF WaitsIInv, CleanGap
<1>8. Convex'
  BY <1>2 DEF WaitsIInv, Convex, IsRun
<1>9. Nested'
  BY <1>2, <1>3 DEF WaitsIInv, Nested, Nests
<1> QED
  BY <1>6, <1>7, <1>8, <1>9 DEF WaitsIInv

\* A step that leaves the table and the transactions past their locking reads
\* alone, but for those it ends.
LEMMA QuietStep ==
    ASSUME IInv, WaitsIInv, UNCHANGED attendances,
           \A r \in Request : HoldsAttendance(r)' =>
               pc'[r] = pc[r] /\ call'[r] = call[r] /\ gap'[r] = gap[r],
           \A r \in Request : ~HoldsAttendance(r)' => gap'[r] = {}
    PROVE  WaitsIInv'
<1>1. \A r \in Request : pc'[r] = "commit" => pc[r] = "commit" /\ KeyOf(r)' = KeyOf(r)
  BY DEF HoldsAttendance, KeyOf
<1>2. Indexed' \subseteq Indexed
  BY <1>1 DEF Indexed
<1> QED
  BY <1>2, ReleaseStep

\* One request ends, or stops short of its locking read.
LEMMA EndStep ==
    ASSUME IInv, WaitsIInv, NEW r \in Request,
           UNCHANGED attendances,
           \A s \in Request \ {r} : pc'[s] = pc[s] /\ call'[s] = call[s] /\ gap'[s] = gap[s],
           pc'[r] \notin {"save", "commit"}, gap'[r] = {}
    PROVE  WaitsIInv'
<1>1. \A s \in Request : HoldsAttendance(s)' => s # r
  BY DEF HoldsAttendance
<1>2. \A s \in Request : ~HoldsAttendance(s)' => gap'[s] = {}
  BY DEF HoldsAttendance, WaitsIInv, GapsOfInserts
<1> QED
  BY <1>1, <1>2, QuietStep

LEMMA CommitStep ==
    ASSUME IInv, WaitsIInv, NEW r \in Request, Commit(r) \/ CommitUnacknowledged(r)
    PROVE  WaitsIInv'
<1>1. /\ HoldsAttendance(r) /\ pc'[r] \notin {"save", "commit"} /\ KeyOf(r) \in Key
      /\ attendances' = [attendances EXCEPT ![KeyOf(r)] = NewRow(r)]
      /\ UNCHANGED call
  BY RecordEffect
<1>2. /\ pc[r] = "commit" /\ gap'[r] = {}
      /\ \A s \in Request \ {r} : pc'[s] = pc[s] /\ gap'[s] = gap[s]
  BY DEF Commit, CommitUnacknowledged, Record, Answer, Goto, IInv, TypeOK
<1>3. \A s \in Request : KeyOf(s)' = KeyOf(s)
  BY <1>1 DEF KeyOf
<1>4. Indexed' \subseteq Indexed
  BY <1>1, <1>2, <1>3 DEF Indexed, IInv, TypeOK
<1>5. \A s \in Request : HoldsAttendance(s)' => s # r
  BY <1>1 DEF HoldsAttendance
<1>6. \A s \in Request : ~HoldsAttendance(s)' => gap'[s] = {}
  BY <1>2 DEF HoldsAttendance, WaitsIInv, GapsOfInserts
<1> QED
  BY <1>1, <1>2, <1>4, <1>5, <1>6, ReleaseStep

\* The deletion of an employee takes rows out of the index only.
LEMMA RemoveStep ==
    ASSUME IInv, WaitsIInv, NEW e \in Employee, removeEmployee(e)
    PROVE  WaitsIInv'
<1>1. /\ attendances' = [k \in Key |-> IF k[1] = e THEN NoRow ELSE attendances[k]]
      /\ UNCHANGED <<pc, call, gap>>
  BY DEF removeEmployee, Cascade
<1>2. Indexed' \subseteq Indexed
  BY <1>1 DEF Indexed, KeyOf
<1> QED
  BY <1>1, <1>2, ReleaseStep DEF HoldsAttendance, WaitsIInv, GapsOfInserts

LEMMA CrashEndsWaits ==
    ASSUME IInv, WaitsIInv, Crash
    PROVE  WaitsIInv'
<1>1. \A r \in Request : ~HoldsAttendance(r)' /\ gap'[r] = {}
  BY DEF Crash, HoldsAttendance
<1> QED
  BY <1>1, QuietStep DEF Crash

LEMMA NextWaitsIInv ==
    ASSUME IInv, WaitsIInv, [Next]_vars
    PROVE  WaitsIInv'
<1>1. ASSUME NEW r \in Request, Receive(r) PROVE WaitsIInv'
  BY <1>1, EndStep DEF Receive, Goto, IInv, TypeOK, WaitsIInv, GapsOfInserts, HoldsAttendance
<1>2. ASSUME NEW r \in Request, LockEmployee(r) PROVE WaitsIInv'
  BY <1>2, EndStep DEF LockEmployee, Goto, IInv, TypeOK, WaitsIInv, GapsOfInserts, HoldsAttendance
<1>3. ASSUME NEW r \in Request, EmployeeNotFound(r) \/ Conflict(r) \/ (save(r) /\ DuplicateEntry(r))
      PROVE  WaitsIInv'
  BY <1>3, EndStep DEF EmployeeNotFound, Conflict, save, Answer, Goto, IInv, TypeOK
<1>4. ASSUME NEW r \in Request,
             DeadlockVictim(r) \/ enqueueAttendanceNotification(r) \/ TransactionFails(r) \/ EnqueueFails(r)
      PROVE  WaitsIInv'
  BY <1>4, EndStep DEF DeadlockVictim, enqueueAttendanceNotification, TransactionFails, EnqueueFails,
     Answer, Goto, IInv, TypeOK
<1>5. ASSUME NEW e \in Employee, insertEmployee(e) PROVE WaitsIInv'
  BY <1>5, QuietStep DEF insertEmployee, WaitsIInv, GapsOfInserts, HoldsAttendance
<1>6. CASE UNCHANGED vars
  BY <1>6, QuietStep DEF vars, WaitsIInv, GapsOfInserts, HoldsAttendance
<1> QED
  BY <1>1, <1>2, <1>3, <1>4, <1>5, <1>6, LockStep, SaveStep, CommitStep, RemoveStep, CrashEndsWaits
  DEF Next, Progress, Fault, getEmployeeOrFail, findAttendanceForUpdate

LEMMA WaitsInvariance == Spec => []WaitsIInv
<1>1. IInv /\ WaitsIInv /\ [Next]_vars => WaitsIInv'
  BY NextWaitsIInv
<1> QED
  BY <1>1, InitWaitsIInv, Invariance, PTL DEF Spec

-----------------------------------------------------------------------------
(* Who may go on.                                                          *)

LEMMA FiniteKey == IsFiniteSet(Key)
<1> DEFINE day == [t \in Instant |-> toDateOnly(t)]
<1>1. day \in Surjection(Instant, Date)
  BY Fun_IsSurj DEF Date
<1>2. IsFiniteSet(Date)
  BY <1>1, FS_Surjection, FiniteAssumption
<1> QED
  BY <1>2, FS_Product, FiniteAssumption DEF Key

\* Of finitely many keys, every choice of sets has one no other contains.
LEMMA LargestExists ==
    ASSUME NEW D, IsFiniteSet(D), NEW G \in SUBSET (SUBSET D), G # {}
    PROVE  \E g \in G : \A h \in G : g \subseteq h => g = h
<1> DEFINE T == {D \ g : g \in G}
<1>1. IsWellFoundedOn(StrictSubsetOrdering(D), SUBSET D)
  BY FS_StrictSubsetOrderingWellFounded, FS_FiniteSubsetsOfFinite
<1>2. T \subseteq SUBSET D
  OBVIOUS
<1>3. T # {}
  <2>1. PICK g \in G : TRUE
    OBVIOUS
  <2>2. \E x \in T : x = D \ g
    BY <2>1
  <2> QED
    BY <2>2
<1>4. PICK x \in T : \A y \in T : ~(<<y, x>> \in StrictSubsetOrdering(D))
  BY <1>1, <1>2, <1>3, WFMin
<1>5. PICK g \in G : x = D \ g
  BY <1>4
<1>6. ASSUME NEW h \in G, g \subseteq h, g # h PROVE FALSE
  <2>1. D \ h \in T /\ D \ h \subseteq x /\ D \ h # x
    BY <1>5, <1>6
  <2> QED
    BY <1>4, <2>1 DEF StrictSubsetOrdering
<1> QED
  BY <1>5, <1>6

\* Whoever waits for an employee's row waits for a transaction past its lock.
LEMMA EmployeeWaits ==
    ASSUME IInv, NEW r \in Request, pc[r] = "employee", ~MayGoOn(r)
    PROVE  \E s \in Request : HoldsEmployee(s)
BY DEF MayGoOn, EmployeeLockFree

\* Nobody waits for a row of attendances: the employee's lock came first.
LEMMA AttendanceIsFree ==
    ASSUME IInv, NEW r \in Request, pc[r] = "attendance"
    PROVE  MayGoOn(r)
<1>1. ASSUME NEW s \in Request, HoldsAttendance(s), KeyOf(s) = KeyOf(r) PROVE FALSE
  <2>1. HoldsEmployee(s) /\ HoldsEmployee(r) /\ call[s] \in Call /\ call[r] \in Call
    BY <1>1 DEF HoldsEmployee, HoldsAttendance, IInv, Arrived
  <2>2. call[s].employeeId = call[r].employeeId
    BY <1>1, <2>1, KeyForType DEF KeyOf
  <2>3. s = r
    BY <2>1, <2>2 DEF IInv, LockExclusion
  <2> QED
    BY <1>1, <2>3 DEF HoldsAttendance
<1> QED
  BY <1>1 DEF MayGoOn, AttendanceLockFree

\* An insert that waits has a larger gap in its way, or a wait in return.
LEMMA InsertWaits ==
    ASSUME WaitsIInv, NEW r \in Request, pc[r] = "save", ~MayGoOn(r),
           \A s \in Request : pc[s] # "commit"
    PROVE  \E s \in Request : pc[s] = "save" /\ gap[r] \subseteq gap[s] /\ gap[r] # gap[s]
<1>1. PICK s \in Request : WaitsFor(r, s)
  BY DEF MayGoOn, InsertAllowed
<1>2. IsCheckIn(r) /\ KeyOf(r) \in gap[s] /\ KeyOf(r) \in gap[r]
  BY <1>1 DEF WaitsFor, WaitsIInv, GapsOfInserts, Inserting
<1>3. pc[s] = "save" /\ IsCheckIn(s) /\ KeyOf(s) \in gap[s]
  BY <1>2 DEF WaitsIInv, GapsOfInserts, Inserting, HoldsAttendance
<1>4. ~WaitsFor(s, r)
  BY <1>1, <1>3 DEF MayGoOn, MutualWait
<1>5. KeyOf(s) \notin gap[r]
  BY <1>1, <1>3, <1>4 DEF WaitsFor
<1>6. Nests(gap[r], gap[s])
  BY <1>3 DEF WaitsIInv, Nested
<1> QED
  BY <1>2, <1>3, <1>5, <1>6 DEF Nests

\* Transactions never all wait for each other: one may go on, or is in a
\* two-way wait, which InnoDB breaks.
THEOREM WaitsDoEnd == Spec => []WaitsEnd
<1>1. ASSUME IInv, WaitsIInv PROVE WaitsEnd
  <2> SUFFICES ASSUME \E r \in Request : InTransaction(r), \A r \in Request : ~MayGoOn(r)
               PROVE  FALSE
    BY DEF WaitsEnd
  <2> DEFINE Saving == {r \in Request : pc[r] = "save"}
             Gaps == {gap[r] : r \in Saving}
  <2>1. \A r \in Request : pc[r] # "commit" /\ pc[r] # "attendance"
    BY <1>1, AttendanceIsFree DEF MayGoOn
  <2>2. Saving # {}
    BY <1>1, <2>1, EmployeeWaits DEF InTransaction, HoldsEmployee
  <2>3. Gaps \subseteq SUBSET Key /\ Gaps # {}
    <3>1. Gaps \subseteq SUBSET Key
      BY <1>1 DEF IInv, TypeOK
    <3>2. \A r \in Saving : gap[r] \in Gaps
      OBVIOUS
    <3> QED
      BY <2>2, <3>1, <3>2
  <2>4. PICK g \in Gaps : \A h \in Gaps : g \subseteq h => g = h
    <3>1. Gaps \in SUBSET (SUBSET Key)
      BY <2>3
    <3> HIDE DEF Gaps
    <3> QED
      BY <2>3, <3>1, FiniteKey, LargestExists
  <2>5. PICK r \in Saving : g = gap[r]
    BY <2>4
  <2>6. PICK s \in Request : pc[s] = "save" /\ gap[r] \subseteq gap[s] /\ gap[r] # gap[s]
    BY <1>1, <2>1, <2>5, InsertWaits
  <2>7. gap[s] \in Gaps
    BY <2>6
  <2> QED
    BY <2>4, <2>5, <2>6, <2>7
<1> QED
  BY <1>1, Invariance, WaitsInvariance, PTL

-----------------------------------------------------------------------------
(* What waiting leads to.                                                  *)

\* How many awaits a request at p has to go at most.
ToGo ==
    [p \in Pc |-> IF p = "idle" THEN 6 ELSE IF p = "employee" THEN 5
                  ELSE IF p = "attendance" THEN 4 ELSE IF p = "save" THEN 3
                  ELSE IF p = "commit" THEN 2 ELSE IF p = "notify" THEN 1 ELSE 0]

\* Requests go forward only, and their own steps take them further.
RequestsAdvance ==
    [][\A r \in Request :
          /\ pc'[r] # pc[r] => ToGo[pc'[r]] < ToGo[pc[r]]
          /\ Progress(r) => pc'[r] # pc[r]]_vars

\* No handler retries and no step takes another request back, so a request that
\* may always go on in the end has its answer.
THEOREM NobodyGoesBack == Spec => RequestsAdvance
<1> DEFINE Advance ==
      \A r \in Request : /\ pc'[r] # pc[r] => ToGo[pc'[r]] < ToGo[pc[r]]
                         /\ Progress(r) => pc'[r] # pc[r]
<1>1. ASSUME IInv, [Next]_vars PROVE Advance
  <2>1. pc \in [Request -> Pc]
    BY <1>1 DEF IInv, TypeOK
  <2>2. ASSUME NEW r \in Request, NEW p \in Pc, pc' = [pc EXCEPT ![r] = p], ToGo[p] < ToGo[pc[r]]
        PROVE  \A s \in Request : pc'[s] # pc[s] => ToGo[pc'[s]] < ToGo[pc[s]]
    BY <2>1, <2>2
  <2>3. ASSUME NEW r \in Request, Receive(r) \/ Progress(r) \/ Fault(r)
        PROVE  \A s \in Request : pc'[s] # pc[s] => ToGo[pc'[s]] < ToGo[pc[s]]
    <3>1. \E p \in Pc : pc' = [pc EXCEPT ![r] = p] /\ ToGo[p] < ToGo[pc[r]]
      BY <2>1, <2>3 DEF Receive, Progress, Fault, getEmployeeOrFail, LockEmployee, EmployeeNotFound,
         findAttendanceForUpdate, Conflict, LockAttendance, save, Commit, enqueueAttendanceNotification,
         DeadlockVictim, TransactionFails, CommitUnacknowledged, Record, EnqueueFails, Answer, Goto,
         InTransaction, ToGo, Pc
    <3> QED
      BY <2>2, <3>1
  <2>4. ASSUME NEW r \in Request, Progress(r) PROVE pc'[r] # pc[r]
    BY <2>1, <2>4 DEF Progress, getEmployeeOrFail, LockEmployee, EmployeeNotFound,
       findAttendanceForUpdate, Conflict, LockAttendance, save, Commit, enqueueAttendanceNotification,
       DeadlockVictim, Record, Answer, Goto
  <2>5. Crash => \A s \in Request : pc'[s] # pc[s] => ToGo[pc'[s]] < ToGo[pc[s]]
    BY <2>1 DEF Crash, ToGo, Pc
  <2>6. (UNCHANGED vars \/ \E e \in Employee : insertEmployee(e) \/ removeEmployee(e)) => UNCHANGED pc
    BY DEF vars, insertEmployee, removeEmployee
  <2> QED
    BY <1>1, <2>3, <2>4, <2>5, <2>6 DEF Next
<1>2. Spec => [][Advance]_vars
  BY <1>1, Invariance, PTL DEF Spec
<1> QED
  BY <1>2 DEF RequestsAdvance

\* Without faults a 500 is a deadlock with another employee's check-in.
ErrorIsDeadlock ==
    Faults = {} =>
        \A r \in Request :
            status[r] = "error" =>
                /\ IsCheckIn(r)
                /\ \E s \in Request : /\ pc[s] # "idle" /\ IsCheckIn(s)
                                      /\ call[s].employeeId # call[r].employeeId

\* Without faults only a check-in is ever answered with a 500, and only beside
\* a check-in of somebody else: requests about one employee never deadlock.
THEOREM ErrorsAreDeadlocks == Spec => []ErrorIsDeadlock
<1>1. Init => ErrorIsDeadlock
  BY DEF Init, ErrorIsDeadlock
<1>2. ASSUME IInv, ErrorIsDeadlock, [Next]_vars, Faults = {} PROVE ErrorIsDeadlock'
  <2> SUFFICES ASSUME NEW r \in Request, status'[r] = "error"
               PROVE  /\ IsCheckIn(r)'
                      /\ \E s \in Request : /\ pc'[s] # "idle" /\ IsCheckIn(s)'
                                            /\ call'[s].employeeId # call'[r].employeeId
    BY DEF ErrorIsDeadlock
  <2>1. status[r] = "error" \/ DeadlockVictim(r)
    BY <1>2 DEF IInv, TypeOK, Next, vars, Progress, Fault, Receive, getEmployeeOrFail, LockEmployee,
       EmployeeNotFound, findAttendanceForUpdate, Conflict, LockAttendance, save, Commit, Answer, Success,
       enqueueAttendanceNotification, DeadlockVictim, TransactionFails, CommitUnacknowledged,
       EnqueueFails, Crash, insertEmployee, removeEmployee
  <2>2. /\ pc[r] # "idle" /\ IsCheckIn(r)
        /\ \E s \in Request : pc[s] # "idle" /\ IsCheckIn(s) /\ call[s].employeeId # call[r].employeeId
    <3>1. CASE status[r] = "error"
      BY <1>2, <3>1 DEF ErrorIsDeadlock, IInv, Lifecycle
    <3>2. CASE DeadlockVictim(r)
      <4>1. PICK s \in Request : pc[s] = "save" /\ WaitsFor(r, s) /\ WaitsFor(s, r)
        BY <3>2 DEF DeadlockVictim, MutualWait
      <4>2. s # r /\ IsCheckIn(r) /\ IsCheckIn(s) /\ pc[r] = "save"
        BY <3>2, <4>1 DEF DeadlockVictim, WaitsFor
      <4>3. call[s].employeeId # call[r].employeeId
        BY <1>2, <4>1, <4>2 DEF IInv, LockExclusion, HoldsEmployee
      <4> QED
        BY <4>1, <4>2, <4>3
    <3> QED
      BY <2>1, <3>1, <3>2
  <2>3. PICK s \in Request : pc[s] # "idle" /\ IsCheckIn(s) /\ call[s].employeeId # call[r].employeeId
    BY <2>2
  <2>4. call'[r] = call[r] /\ call'[s] = call[s]
    BY <1>2, <2>2, <2>3, RequestSteps
  <2>5. pc'[s] # "idle"
    BY <1>2, <2>3 DEF IInv, TypeOK, Next, vars, Progress, Fault, Receive, getEmployeeOrFail, LockEmployee,
       EmployeeNotFound, findAttendanceForUpdate, Conflict, LockAttendance, save, Commit, Answer, Goto,
       enqueueAttendanceNotification, DeadlockVictim, TransactionFails, CommitUnacknowledged, Record,
       EnqueueFails, Crash, insertEmployee, removeEmployee
  <2> QED
    BY <2>2, <2>3, <2>4, <2>5 DEF IsCheckIn
<1>3. IInv /\ ErrorIsDeadlock /\ [Next]_vars => ErrorIsDeadlock'
  BY <1>2 DEF ErrorIsDeadlock
<1> QED
  BY <1>1, <1>3, Invariance, PTL DEF Spec
=============================================================================
