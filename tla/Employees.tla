----------------------------- MODULE Employees -----------------------------
(***************************************************************************)
(* EmployeesService over TypeORM's repository: create, findById, update    *)
(* and remove. A handler takes no lock and opens no transaction of its     *)
(* own, and save is two things: a SELECT of the row as it is now, outside  *)
(* any transaction, and an INSERT or UPDATE of what differs. So an update  *)
(* reads the employee twice and writes what it made of the first read:     *)
(*    idle -> find     findById is about to read the employee              *)
(*         -> load     save is about to read it again                      *)
(*         -> update   the UPDATE of the columns that differ, or           *)
(*         -> insert   the INSERT, when save found no row                  *)
(*         -> done     the client has its answer                           *)
(* The employee that request r creates gets the id r.                      *)
(***************************************************************************)

CONSTANTS
    Request,    \* the HTTP requests of a behaviour, each sent once
    Seed,       \* ids of the employees there are at the beginning
    Column,     \* the columns a dto can name
    Unique,     \* those with a unique index
    Value,      \* what is written into them
    Null,       \* an explicit null, which the PATCH dto lets through
    Absent,     \* a column the dto does not name
    Patch,      \* the bodies of the PATCH requests
    Faults      \* which of "database" may fail

ASSUME IdAssumption == Request \cap Seed = {}
ASSUME ColumnAssumption == Unique \subseteq Column
ASSUME ValueAssumption == Null \notin Value /\ Absent \notin Value /\ Null # Absent
ASSUME FaultsAssumption == Faults \subseteq {"database"}

Id == Request \cup Seed
Row == [Column -> Value]

\* No row, in table and handlers alike, and a dto that names nothing.
NoRow == [c \in Column |-> Absent]

Dto == [Column -> Value \cup {Null, Absent}]
Entity == [Column -> Value \cup {Null}]

ASSUME RowAssumption == Column # {}
ASSUME PatchAssumption == Patch \subseteq Dto

Call == [type : {"create", "get", "update", "remove"}, id : Id, dto : Dto]
NoCall == [type |-> "none", id |-> Null, dto |-> NoRow]

Pc == {"idle", "get", "find", "load", "update", "insert", "delete", "done"}

\* 201, 200 or 204, 404, 409, 500
Status == {"none", "created", "ok", "notFound", "conflict", "error"}

VARIABLES
    rows,       \* table employees, by id
    pc, call, status,
    entity,     \* the employee in the handler's hands
    changed,    \* the columns its UPDATE is about to set
    seen        \* history: who had finished when a request came

vars == <<rows, pc, call, status, entity, changed, seen>>

Clash(row, i, c) == \E j \in Id \ {i} : rows[j] # NoRow /\ rows[j][c] = row[c]

Init ==
    /\ rows \in [Id -> Row \cup {NoRow}]
    /\ \A i \in Id : rows[i] # NoRow <=> i \in Seed
    /\ \A i \in Seed, c \in Unique : ~Clash(rows[i], i, c)
    /\ pc = [r \in Request |-> "idle"]
    /\ call = [r \in Request |-> NoCall]
    /\ status = [r \in Request |-> "none"]
    /\ entity = [r \in Request |-> NoRow]
    /\ changed = [r \in Request |-> {}]
    /\ seen = [r \in Request |-> {}]

Is(r, type) == call[r].type = type
Target(r) == call[r].id
Exists(i) == rows[i] # NoRow
Succeeded(r) == status[r] \in {"created", "ok"}

-----------------------------------------------------------------------------
(* What clients can send. They know the seeds and the employees whose      *)
(* creation was answered; r itself is an id that belongs to nobody.        *)

Known(r) == Seed \cup {s \in Request : Is(s, "create") /\ Succeeded(s)} \cup {r}

Asks(type, i, dto) == [type |-> type, id |-> i, dto |-> dto]

Calls(r) ==
    {Asks("create", r, dto) : dto \in Row}
        \cup {Asks("update", i, dto) : i \in Known(r), dto \in Patch}
        \cup {Asks(type, i, NoRow) : type \in {"get", "remove"}, i \in Known(r)}

FirstStep(type) ==
    CASE type = "create" -> "insert"
      [] type = "get" -> "get"
      [] type = "update" -> "find"
      [] type = "remove" -> "delete"

Receive(r) ==
    /\ pc[r] = "idle"
    /\ \E c \in Calls(r) :
         /\ call' = [call EXCEPT ![r] = c]
         /\ pc' = [pc EXCEPT ![r] = FirstStep(c.type)]
         /\ entity' = [entity EXCEPT ![r] = IF c.type = "create" THEN c.dto ELSE NoRow]
    /\ seen' = [seen EXCEPT ![r] = {s \in Request : pc[s] = "done"}]
    /\ UNCHANGED <<rows, status, changed>>

-----------------------------------------------------------------------------
(* The handlers.                                                           *)

Goto(r, label) == pc' = [pc EXCEPT ![r] = label] /\ UNCHANGED status

\* The handler returns or throws, and its employee is gone.
Answer(r, s) ==
    /\ pc' = [pc EXCEPT ![r] = "done"]
    /\ status' = [status EXCEPT ![r] = s]
    /\ entity' = [entity EXCEPT ![r] = NoRow]
    /\ changed' = [changed EXCEPT ![r] = {}]

findById(r) ==
    /\ pc[r] = "get"
    /\ Answer(r, IF Exists(Target(r)) THEN "ok" ELSE "notFound")
    /\ UNCHANGED <<rows, call, seen>>

\* Fault variant: the fields of the employee win over those of the dto.
Merge_Swapped(row, dto) == row

\* Fault variant: PATCH read as PUT, a column the dto leaves out gets a default.
Merge_Put(row, dto) ==
    [c \in Column |-> IF dto[c] = Absent THEN CHOOSE v \in Value : TRUE ELSE dto[c]]

\* Object.assign(employee, dto)
Merge(row, dto) == [c \in Column |-> IF dto[c] = Absent THEN row[c] ELSE dto[c]]

\* update up to the save.
find(r) ==
    /\ pc[r] = "find"
    /\ IF Exists(Target(r))
         THEN /\ entity' = [entity EXCEPT ![r] = Merge(rows[Target(r)], call[r].dto)]
              /\ Goto(r, "load")
              /\ UNCHANGED changed
         ELSE Answer(r, "notFound")
    /\ UNCHANGED <<rows, call, seen>>

Differing(r) == {c \in Column : entity[r][c] # rows[Target(r)][c]}

\* The SELECT of save: an entity with an id is compared with its row, and
\* inserted if there is none. An entity like its row is not written.
load(r) ==
    /\ pc[r] = "load"
    /\ \/ /\ Exists(Target(r)) /\ Differing(r) = {}
          /\ Answer(r, "ok")
       \/ /\ Exists(Target(r)) /\ Differing(r) # {}
          /\ changed' = [changed EXCEPT ![r] = Differing(r)]
          /\ Goto(r, "update")
          /\ UNCHANGED entity
       \/ /\ ~Exists(Target(r))
          /\ Goto(r, "insert")
          /\ UNCHANGED <<entity, changed>>
    /\ UNCHANGED <<rows, call, seen>>

Store(i, row) == rows' = [rows EXCEPT ![i] = row]

\* Fault variant: no unique index.
Taken_NoIndex(r, columns) == FALSE

Taken(r, columns) == \E c \in columns \cap Unique : Clash(entity[r], Target(r), c)

\* The row an UPDATE leaves: none, if there is none.
Updated(r) ==
    IF Exists(Target(r))
      THEN [c \in Column |-> IF c \in changed[r] THEN entity[r][c] ELSE rows[Target(r)][c]]
      ELSE NoRow

InsertAllowed(r) == entity[r] \in Row /\ ~Exists(Target(r)) /\ ~Taken(r, Column)
UpdateAllowed(r) ==
    Exists(Target(r)) => /\ \A c \in changed[r] : entity[r][c] # Null
                         /\ ~Taken(r, changed[r])

\* An INSERT or UPDATE up to its COMMIT, and the answer a in case it succeeds.
Write(r, a) ==
    /\ \/ pc[r] = "insert" /\ InsertAllowed(r) /\ Store(Target(r), entity[r])
       \/ pc[r] = "update" /\ UpdateAllowed(r) /\ Store(Target(r), Updated(r))
    /\ Answer(r, a)
    /\ UNCHANGED <<call, seen>>

\* The last step of create and of update.
save(r) == Write(r, IF Is(r, "create") THEN "created" ELSE "ok")

\* Fault variant: the error of a null column is mapped to a 409 as well.
NullWritten_Never(r) == FALSE

\* ER_BAD_NULL_ERROR comes before ER_DUP_ENTRY and is not mapped.
NullWritten(r) ==
    \/ pc[r] = "insert" /\ \E c \in Column : entity[r][c] = Null
    \/ pc[r] = "update" /\ \E c \in changed[r] : entity[r][c] = Null

\* The statement is rejected: handleUniqueConstraintError.
saveRejected(r) ==
    /\ \/ pc[r] = "insert" /\ ~InsertAllowed(r)
       \/ pc[r] = "update" /\ ~UpdateAllowed(r)
    /\ Answer(r, IF NullWritten(r) THEN "error" ELSE "conflict")
    /\ UNCHANGED <<rows, call, seen>>

\* Fault variant: the number of affected rows is not looked at.
Deletion_Unchecked(i) == "ok"

Deletion(i) == IF Exists(i) THEN "ok" ELSE "notFound"

\* Fault variant: the criteria are empty, and every row goes.
Delete_All(r, a) ==
    /\ pc[r] = "delete"
    /\ rows' = [i \in Id |-> NoRow]
    /\ Answer(r, a)
    /\ UNCHANGED <<call, seen>>

\* Fault variant: a soft deletion that no SELECT knows of.
Delete_Soft(r, a) ==
    /\ pc[r] = "delete"
    /\ Answer(r, a)
    /\ UNCHANGED <<rows, call, seen>>

Delete(r, a) ==
    /\ pc[r] = "delete"
    /\ Store(Target(r), NoRow)
    /\ Answer(r, a)
    /\ UNCHANGED <<call, seen>>

remove(r) == Delete(r, Deletion(Target(r)))

-----------------------------------------------------------------------------
(* What goes wrong.                                                        *)

\* A statement fails and has no effect.
StatementFails(r) ==
    /\ "database" \in Faults
    /\ pc[r] \notin {"idle", "done"}
    /\ Answer(r, "error")
    /\ UNCHANGED <<rows, call, seen>>

\* A statement takes effect and its reply is lost.
ReplyLost(r) ==
    /\ "database" \in Faults
    /\ Write(r, "error") \/ Delete(r, "error")

Next ==
    \E r \in Request :
        \/ Receive(r)
        \/ findById(r) \/ find(r) \/ load(r) \/ save(r) \/ saveRejected(r) \/ remove(r)
        \/ StatementFails(r) \/ ReplyLost(r)

Spec == Init /\ [][Next]_vars

-----------------------------------------------------------------------------
(* Properties. A request follows another if it came when the other had     *)
(* been answered; two requests overlap if neither follows the other.       *)

\* Types, the unique indexes, and a NOT NULL in every row.
TypeOK ==
    /\ rows \in [Id -> Row \cup {NoRow}]
    /\ \A i \in Id, c \in Unique : Exists(i) => ~Clash(rows[i], i, c)
    /\ pc \in [Request -> Pc]
    /\ call \in [Request -> Call \cup {NoCall}]
    /\ status \in [Request -> Status]
    /\ entity \in [Request -> Entity \cup {NoRow}]
    /\ changed \in [Request -> SUBSET Column]
    /\ seen \in [Request -> SUBSET Request]

Arrived(r) == pc[r] # "idle"
Follows(s, r) == r \in seen[s]
Overlap(r, s) == Arrived(r) /\ Arrived(s) /\ ~Follows(s, r) /\ ~Follows(r, s)

Names(r, c) == call[r].dto[c] # Absent
Writes(r, type, i) == Is(r, type) /\ Target(r) = i

\* The updates of an employee that overlap r, other than r.
OverlappingUpdates(r, i) == {x \in Request \ {r} : Writes(x, "update", i) /\ Overlap(x, r)}
OverlappingWrites(r, i) ==
    OverlappingUpdates(r, i)
        \cup {x \in Request \ {r} : Writes(x, "remove", i) /\ Overlap(x, r)}

\* What a successful update named is in the row as long as the employee is
\* there and no other update named the column since, or overlapped this one: a
\* later update writes back nothing that it did not name.
UpdatesStand ==
    \A u \in Request, c \in Column :
        LET i == Target(u)
        IN  Is(u, "update") /\ Succeeded(u) /\ Names(u, c) /\ Exists(i) =>
                \/ rows[i][c] = call[u].dto[c]
                \/ OverlappingUpdates(u, i) # {}
                \/ \E x \in Request : Writes(x, "update", i) /\ Follows(x, u) /\ Names(x, c)

\* A removed employee comes back only by an update that overlapped the removal:
\* any other request that comes later is answered 404.
RemovedStaysRemoved ==
    \A d, s \in Request :
        /\ Is(d, "remove") /\ Succeeded(d)
        /\ Target(s) = Target(d) /\ Follows(s, d) /\ Succeeded(s)
        => OverlappingUpdates(d, Target(d)) # {}

\* Two removals of an employee both succeed only if an update overlapped one of
\* them.
RemovedOnce ==
    \A d, e \in Request :
        /\ d # e
        /\ Is(d, "remove") /\ Succeeded(d) /\ Is(e, "remove") /\ Succeeded(e)
        /\ Target(d) = Target(e)
        => OverlappingUpdates(d, Target(d)) \cup OverlappingUpdates(e, Target(e)) # {}

\* An employee a client knows is not found only if a removal of it came first.
MissingHasCause ==
    \A r \in Request :
        /\ status[r] = "notFound"
        /\ Target(r) \in Seed \/ Follows(r, Target(r))
        => \E d \in Request \ {r} : Writes(d, "remove", Target(r)) /\ Arrived(d) /\ ~Follows(d, r)

\* A 409 is about a unique column the request named, unless another write of
\* the same employee overlapped and made it write back what it had read.
ConflictIsAboutTheDto ==
    [][\A r \in Request :
         status[r] # "conflict" /\ status'[r] = "conflict" =>
             \/ \E c \in Unique : Names(r, c) /\ Clash(call[r].dto, Target(r), c)
             \/ OverlappingWrites(r, Target(r)) # {}]_vars

\* A write changes a column nobody named in that request only when another
\* write of the same employee overlapped it.
OnlyNamedColumnsChange ==
    [][\A r \in Request, c \in Column :
         LET i == Target(r)
         IN  /\ pc[r] = "update" /\ pc'[r] = "done" /\ rows'[i][c] # rows[i][c]
             => Names(r, c) \/ OverlappingWrites(r, i) # {}]_vars
=============================================================================
