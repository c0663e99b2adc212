--------------------------- MODULE EmployeesProofs ---------------------------
(***************************************************************************)
(* Proofs about Employees, for every set of requests, employees, columns,  *)
(* values and bodies, with and without faults.                             *)
(***************************************************************************)
EXTENDS Employees, TLAPS

-----------------------------------------------------------------------------
(* The inductive invariant.                                                *)

\* How the variables of a request fit together.
Lifecycle ==
    \A r \in Request :
        /\ pc[r] = "idle" => call[r] = NoCall
        /\ pc[r] # "idle" => call[r] \in Call
        /\ pc[r] # "done" <=> status[r] = "none"
        /\ pc[r] = "get" => Is(r, "get")
        /\ pc[r] \in {"find", "load", "update"} => Is(r, "update")
        /\ pc[r] = "delete" => Is(r, "remove")
        /\ pc[r] = "insert" => Is(r, "create") \/ Is(r, "update")
        /\ pc[r] \in {"load", "update", "insert"} => entity[r] \in Entity
        /\ \A s \in seen[r] : pc[s] = "done"

Underway(r) == pc[r] \in {"load", "update", "insert"}

\* An id that is a request's belongs to the employee that the request creates,
\* and nobody else names it before the creation was answered.
IdsOfCreations ==
    \A r \in Request :
        /\ Is(r, "create") => /\ Target(r) = r
                              /\ pc[r] = "insert" => entity[r] = call[r].dto /\ entity[r] \in Row
        /\ Exists(r) => Is(r, "create") /\ pc[r] = "done"
        /\ Is(r, "update") /\ Underway(r) => Target(r) # r
        /\ \A s \in Request \ {r} :
              Arrived(r) /\ Target(r) = s => Is(s, "create") /\ Succeeded(s)

\* An employee that was there and is not was removed.
MissingWasRemoved ==
    \A i \in Id :
        /\ ~Exists(i)
        /\ i \in Seed \/ (i \in Request /\ Is(i, "create") /\ Succeeded(i))
        => \E d \in Request : Writes(d, "remove", i) /\ pc[d] = "done"

\* An employee removed and there again, or found by a later request, was
\* written back by an update that overlapped the removal.
ComesBackByOverlap ==
    \A d \in Request :
        Is(d, "remove") /\ Succeeded(d) /\ OverlappingUpdates(d, Target(d)) = {} =>
            /\ ~Exists(Target(d))
            /\ \A s \in Request : Target(s) = Target(d) /\ Follows(s, d) => ~Succeeded(s) /\ ~Underway(s)

\* What an update has in hand: what its dto names, and the rest as the row has
\* it, as long as nobody else writes the employee.
HandHoldsRowOf(r) ==
    LET i == Target(r)
    IN  /\ \A c \in Column : Names(r, c) => entity[r][c] = call[r].dto[c]
        /\ OverlappingWrites(r, i) = {} =>
              /\ pc[r] # "insert" /\ Exists(i)
              /\ \A c \in Column : ~Names(r, c) => entity[r][c] = rows[i][c]
        /\ pc[r] = "update" /\ OverlappingUpdates(r, i) = {} /\ Exists(i) =>
              \A c \in Column \ changed[r] : entity[r][c] = rows[i][c]

HandHoldsRow == \A r \in Request : Is(r, "update") /\ Underway(r) => HandHoldsRowOf(r)

\* A later update that does not name the column has in hand what u wrote.
LaterHandHolds(u, x, c) ==
    \/ entity[x][c] = call[u].dto[c]
    \/ OverlappingUpdates(u, Target(u)) # {}
    \/ \E y \in Request : Writes(y, "update", Target(u)) /\ Follows(y, u) /\ Names(y, c)

LaterHandsHold ==
    \A u, x \in Request, c \in Column :
        /\ Is(u, "update") /\ Succeeded(u) /\ Names(u, c)
        /\ Writes(x, "update", Target(u)) /\ Follows(x, u) /\ Underway(x) /\ ~Names(x, c)
        => LaterHandHolds(u, x, c)

IInv ==
    /\ TypeOK
    /\ Lifecycle
    /\ IdsOfCreations
    /\ MissingWasRemoved
    /\ ComesBackByOverlap
    /\ HandHoldsRow
    /\ LaterHandsHold
    /\ UpdatesStand
    /\ RemovedStaysRemoved
    /\ RemovedOnce
    /\ MissingHasCause

USE DEF Exists, Is, Target, Succeeded, Writes, Names, Arrived, Follows, Underway

-----------------------------------------------------------------------------
(* Operators.                                                              *)

\* A row that is there is not the absence of one.
LEMMA RowsAreThere == ASSUME NEW row \in Row PROVE row # NoRow
BY RowAssumption, ValueAssumption DEF Row, NoRow

\* Once a request has arrived, its call and what it saw stay as they are, so
\* who overlaps it does too.
LEMMA SameHistory ==
    ASSUME call' = call, seen' = seen, \A s \in Request : Arrived(s)' <=> Arrived(s)
    PROVE  \A r \in Request, i \in Id :
              /\ OverlappingUpdates(r, i)' = OverlappingUpdates(r, i)
              /\ OverlappingWrites(r, i)' = OverlappingWrites(r, i)
BY DEF OverlappingUpdates, OverlappingWrites, Overlap

\* Two requests of which neither is answered overlap.
LEMMA PendingOverlap ==
    ASSUME Lifecycle, NEW r \in Request, NEW s \in Request,
           Arrived(r), Arrived(s), pc[r] # "done", pc[s] # "done"
    PROVE  Overlap(r, s)
BY DEF Lifecycle, Overlap

\* Requests that neither follows the other, and so with any that is pending.
LEMMA OverlapIsMutual ==
    ASSUME NEW r \in Request, NEW s \in Request
    PROVE  Overlap(r, s) <=> Overlap(s, r)
BY DEF Overlap

\* A request that asks something is there and names an id.
LEMMA AskedIsThere ==
    ASSUME Lifecycle, NEW r \in Request, ~Is(r, "none")
    PROVE  Arrived(r) /\ Target(r) \in Id /\ call[r] \in Call
BY DEF Lifecycle, NoCall, Call

LEMMA InitIInv == Init => IInv
<1> SUFFICES ASSUME Init PROVE IInv
  OBVIOUS
<1>1. TypeOK
  BY DEF Init, TypeOK, Pc, Status
<1>2. Lifecycle /\ IdsOfCreations
  BY IdAssumption DEF Init, Lifecycle, IdsOfCreations, NoCall, Id
<1>3. MissingWasRemoved /\ ComesBackByOverlap /\ HandHoldsRow /\ LaterHandsHold
  BY DEF Init, MissingWasRemoved, ComesBackByOverlap, HandHoldsRow, LaterHandsHold, NoCall
<1>4. UpdatesStand /\ RemovedStaysRemoved /\ RemovedOnce /\ MissingHasCause
  BY DEF Init, UpdatesStand, RemovedStaysRemoved, RemovedOnce, MissingHasCause, NoCall
<1> QED
  BY <1>1, <1>2, <1>3, <1>4 DEF IInv

-----------------------------------------------------------------------------
(* The steps, one lemma per kind.                                          *)

\* A request arrives.
LEMMA ReceiveStep ==
    ASSUME IInv, NEW r \in Request, Receive(r)
    PROVE  IInv'
<1> USE DEF IInv
<1>1. PICK c \in Calls(r) :
        /\ call' = [call EXCEPT ![r] = c]
        /\ pc' = [pc EXCEPT ![r] = FirstStep(c.type)]
        /\ entity' = [entity EXCEPT ![r] = IF c.type = "create" THEN c.dto ELSE NoRow]
  BY DEF Receive
<1>2. /\ pc[r] = "idle" /\ call[r] = NoCall /\ status[r] = "none"
      /\ seen' = [seen EXCEPT ![r] = {s \in Request : pc[s] = "done"}]
      /\ rows' = rows /\ status' = status /\ changed' = changed
  BY DEF Receive, Lifecycle
<1>3. /\ c \in Call
      /\ c.id = r \/ c.id \in Seed \/ \E s \in Request \ {r} : c.id = s /\ Is(s, "create") /\ Succeeded(s)
      /\ c.type = "create" => c.id = r /\ c.dto \in Row
      /\ c.type # "create" => c.dto \in Dto
  BY <1>2, PatchAssumption, IdAssumption DEF Calls, Asks, Known, Call, Id, Dto, Row, NoRow, NoCall
<1>4. /\ pc'[r] \in {"insert", "get", "find", "delete"}
      /\ pc'[r] = "insert" <=> c.type = "create"
      /\ pc'[r] = "get" <=> c.type = "get"
      /\ pc'[r] = "find" <=> c.type = "update"
      /\ pc'[r] = "delete" <=> c.type = "remove"
  BY <1>1, <1>3 DEF FirstStep, Call, TypeOK
<1>5. /\ \A s \in Request : s # r => /\ call'[s] = call[s] /\ pc'[s] = pc[s] /\ entity'[s] = entity[s]
                                     /\ seen'[s] = seen[s]
      /\ call'[r] = c /\ seen'[r] = {s \in Request : pc[s] = "done"}
      /\ entity'[r] = IF c.type = "create" THEN c.dto ELSE NoRow
  BY <1>1, <1>2 DEF TypeOK
<1>6. \A s \in Request, i \in Id :
        s # r => /\ OverlappingUpdates(s, i) \subseteq OverlappingUpdates(s, i)'
                 /\ OverlappingWrites(s, i) \subseteq OverlappingWrites(s, i)'
  BY <1>2, <1>5 DEF OverlappingUpdates, OverlappingWrites, Overlap, TypeOK
<1>17. \A s \in Request : call[s].type \in {"update", "remove"} => s # r /\ Arrived(s) /\ Target(s) \in Id
  BY <1>2, AskedIsThere DEF NoCall
<1>18. ~Is(r, "create") /\ ~Exists(r) /\ \A s \in Request : Arrived(s) => Target(s) # r
  BY <1>2 DEF IdsOfCreations, NoCall
<1>7. TypeOK'
  BY <1>1, <1>2, <1>3, <1>4 DEF TypeOK, Pc, Row, Entity, Clash
<1>8. Lifecycle'
  <2>1. pc'[r] = "insert" => entity'[r] \in Entity
    BY <1>3, <1>4, <1>5 DEF Row, Entity
  <2> QED
    BY <1>2, <1>3, <1>4, <1>5, <2>1 DEF Lifecycle, TypeOK
<1>9. IdsOfCreations'
  BY <1>2, <1>3, <1>4, <1>5, <1>18, IdAssumption DEF IdsOfCreations, TypeOK
<1>10. MissingWasRemoved'
  BY <1>2, <1>4, <1>5 DEF MissingWasRemoved, Lifecycle, TypeOK
<1>11. ComesBackByOverlap'
  <2> SUFFICES ASSUME NEW d \in Request, Is(d, "remove")', Succeeded(d)', OverlappingUpdates(d, Target(d))' = {}
               PROVE  /\ ~Exists(Target(d))'
                      /\ \A s \in Request : (Target(s) = Target(d) /\ Follows(s, d))' => ~Succeeded(s)' /\ ~Underway(s)'
    BY DEF ComesBackByOverlap
  <2>1. d # r /\ Is(d, "remove") /\ Succeeded(d) /\ OverlappingUpdates(d, Target(d)) = {}
    BY <1>2, <1>5, <1>6, <1>17
  <2>2. ~Succeeded(r)' /\ (Target(r) = Target(d) => ~Underway(r))'
    BY <1>2, <1>3, <1>4, <1>5, <1>17, <1>18, <2>1
  <2> QED
    BY <1>2, <1>5, <2>1, <2>2 DEF ComesBackByOverlap
<1>12. HandHoldsRow'
  <2> SUFFICES ASSUME NEW s \in Request, Is(s, "update")', Underway(s)'
               PROVE  HandHoldsRowOf(s)'
    BY DEF HandHoldsRow
  <2>1. s # r /\ Is(s, "update") /\ Underway(s) /\ Target(s) \in Id
    BY <1>4, <1>5, <1>17
  <2>2. HandHoldsRowOf(s)
    BY <2>1 DEF HandHoldsRow
  <2>3. /\ pc'[s] = pc[s] /\ call'[s] = call[s] /\ entity'[s] = entity[s] /\ rows' = rows
        /\ changed' = changed
        /\ OverlappingWrites(s, Target(s))' = {} => OverlappingWrites(s, Target(s)) = {}
        /\ OverlappingUpdates(s, Target(s))' = {} => OverlappingUpdates(s, Target(s)) = {}
    BY <1>2, <1>5, <1>6, <2>1
  <2> QED
    BY <2>2, <2>3 DEF HandHoldsRowOf
<1>13. LaterHandsHold'
  <2> SUFFICES ASSUME NEW u \in Request, NEW x \in Request, NEW c0 \in Column,
                      Is(u, "update")', Succeeded(u)', Names(u, c0)', Writes(x, "update", Target(u))',
                      Follows(x, u)', Underway(x)', ~Names(x, c0)'
               PROVE  LaterHandHolds(u, x, c0)'
    BY DEF LaterHandsHold
  <2>1. u # r /\ x # r /\ Target(u) \in Id
    BY <1>2, <1>4, <1>5, <1>17
  <2>2. LaterHandHolds(u, x, c0)
    BY <1>2, <1>5, <2>1 DEF LaterHandsHold
  <2> QED
    BY <1>2, <1>5, <1>6, <1>17, <2>1, <2>2 DEF LaterHandHolds
<1>14. UpdatesStand'
  BY <1>2, <1>4, <1>5, <1>6, <1>17 DEF UpdatesStand, Lifecycle, TypeOK, NoCall
<1>15. RemovedStaysRemoved' /\ RemovedOnce'
  <2>1. \A d \in Request : (Is(d, "remove") /\ Succeeded(d))' =>
          /\ d # r /\ Is(d, "remove") /\ Succeeded(d) /\ Target(d)' = Target(d)
          /\ OverlappingUpdates(d, Target(d)) \subseteq OverlappingUpdates(d, Target(d))'
    BY <1>2, <1>5, <1>6, <1>17
  <2>2. \A s \in Request : Succeeded(s)' =>
          s # r /\ Succeeded(s) /\ Target(s)' = Target(s) /\ seen'[s] = seen[s]
    BY <1>2, <1>5
  <2>3. RemovedStaysRemoved'
    BY <2>1, <2>2 DEF RemovedStaysRemoved
  <2>4. RemovedOnce'
    BY <2>1 DEF RemovedOnce
  <2> QED
    BY <2>3, <2>4
<1>16. MissingHasCause'
  BY <1>2, <1>4, <1>5 DEF MissingHasCause, Lifecycle, TypeOK
<1> QED
  BY <1>7, <1>8, <1>9, <1>10, <1>11, <1>12, <1>13, <1>14, <1>15, <1>16

\* What a step of r's handler leaves alone.
LEMMA OthersStay ==
    ASSUME TypeOK, NEW r \in Request, NEW label \in Pc \ {"idle"}, pc[r] # "idle",
           pc' = [pc EXCEPT ![r] = label], UNCHANGED <<call, seen>>,
           \/ UNCHANGED status
           \/ \E a \in Status : status' = [status EXCEPT ![r] = a]
    PROVE  /\ \A s \in Request : s # r => pc'[s] = pc[s] /\ status'[s] = status[s]
           /\ pc'[r] = label
           /\ \A s \in Request, i \in Id :
                 /\ OverlappingUpdates(s, i)' = OverlappingUpdates(s, i)
                 /\ OverlappingWrites(s, i)' = OverlappingWrites(s, i)
<1>1. /\ \A s \in Request : s # r => pc'[s] = pc[s] /\ status'[s] = status[s]
      /\ pc'[r] = label
  BY DEF TypeOK
<1>2. \A s \in Request : Arrived(s)' <=> Arrived(s)
  BY <1>1
<1> QED
  BY <1>1, <1>2, SameHistory

\* A handler answers and has written nothing.
LEMMA ReplyStep ==
    ASSUME IInv, NEW r \in Request, NEW a \in Status \ {"none"},
           pc[r] \notin {"idle", "done"}, Answer(r, a), UNCHANGED <<rows, call, seen>>,
           a = "notFound" => ~Exists(Target(r)),
           a \in {"ok", "created"} =>
               /\ a = "ok" /\ Exists(Target(r))
               /\ pc[r] = "get" \/ (pc[r] = "load" /\ Differing(r) = {})
    PROVE  IInv'
<1> USE DEF IInv
<1>1. /\ pc' = [pc EXCEPT ![r] = "done"] /\ status' = [status EXCEPT ![r] = a]
      /\ entity' = [entity EXCEPT ![r] = NoRow] /\ changed' = [changed EXCEPT ![r] = {}]
      /\ rows' = rows /\ call' = call /\ seen' = seen
  BY DEF Answer
<1>2. /\ \A s \in Request : s # r => /\ pc'[s] = pc[s] /\ status'[s] = status[s]
                                     /\ entity'[s] = entity[s] /\ changed'[s] = changed[s]
      /\ pc'[r] = "done" /\ status'[r] = a
      /\ \A s \in Request, i \in Id :
            /\ OverlappingUpdates(s, i)' = OverlappingUpdates(s, i)
            /\ OverlappingWrites(s, i)' = OverlappingWrites(s, i)
  BY <1>1, OthersStay DEF TypeOK, Pc
<1>3. \A s \in Request : r \notin seen[s]
  BY DEF Lifecycle
<1>4. \A s \in Request : ~Is(s, "none") => Arrived(s) /\ Target(s) \in Id
  BY AskedIsThere
<1>5. a = "ok" => ~Is(r, "create") /\ ~Is(r, "remove")
  BY DEF Lifecycle
<1>6. TypeOK'
  BY <1>1 DEF TypeOK, Pc, Clash
<1>7. Lifecycle'
  BY <1>1, <1>2 DEF Lifecycle
<1>8. IdsOfCreations'
  BY <1>1, <1>2, <1>5 DEF IdsOfCreations, Lifecycle
<1>9. MissingWasRemoved'
  BY <1>1, <1>2, <1>5 DEF MissingWasRemoved
<1>10. ComesBackByOverlap'
  BY <1>1, <1>2, <1>4, <1>5 DEF ComesBackByOverlap
<1>11. HandHoldsRow'
  <2> SUFFICES ASSUME NEW s \in Request, Is(s, "update"), Underway(s)'
               PROVE  HandHoldsRowOf(s)'
    BY <1>1 DEF HandHoldsRow
  <2>1. s # r /\ HandHoldsRowOf(s)
    BY <1>2 DEF HandHoldsRow
  <2> QED
    BY <1>1, <1>2, <1>4, <2>1 DEF HandHoldsRowOf
<1>12. LaterHandsHold'
  <2> SUFFICES ASSUME NEW u \in Request, NEW x \in Request, NEW c \in Column,
                      Is(u, "update"), Succeeded(u)', Names(u, c), Writes(x, "update", Target(u)),
                      Follows(x, u), Underway(x)', ~Names(x, c)
               PROVE  LaterHandHolds(u, x, c)'
    BY <1>1 DEF LaterHandsHold
  <2>1. u # r /\ x # r /\ LaterHandHolds(u, x, c)
    BY <1>2, <1>3 DEF LaterHandsHold
  <2> QED
    BY <1>1, <1>2, <1>4, <2>1 DEF LaterHandHolds
<1>13. UpdatesStand'
  <2>1. \A c \in Column : Is(r, "update") /\ a = "ok" /\ Names(r, c) => rows[Target(r)][c] = call[r].dto[c]
    BY DEF HandHoldsRow, HandHoldsRowOf, Differing, Lifecycle
  <2> QED
    BY <1>1, <1>2, <1>4, <1>5, <2>1 DEF UpdatesStand
<1>14. RemovedStaysRemoved'
  BY <1>1, <1>2, <1>4, <1>5 DEF RemovedStaysRemoved, ComesBackByOverlap
<1>15. RemovedOnce'
  BY <1>1, <1>2, <1>4, <1>5 DEF RemovedOnce
<1>16. MissingHasCause'
  <2>1. ASSUME a = "notFound", Target(r) \in Seed \/ Follows(r, Target(r))
        PROVE  \E d \in Request \ {r} : Writes(d, "remove", Target(r)) /\ Arrived(d) /\ ~Follows(d, r)
    <3>1. Target(r) \in Id /\ ~Exists(Target(r)) /\ Target(r) # r
      BY <1>3, <2>1, IdAssumption DEF Lifecycle, Call
    <3>2. Target(r) \in Seed \/ (Target(r) \in Request /\ Is(Target(r), "create") /\ Succeeded(Target(r)))
      BY <2>1, <3>1 DEF IdsOfCreations, TypeOK
    <3>3. PICK d \in Request : Writes(d, "remove", Target(r)) /\ pc[d] = "done"
      BY <3>1, <3>2 DEF MissingWasRemoved
    <3> QED
      BY <1>3, <3>3
  <2> QED
    BY <1>1, <1>2, <2>1 DEF MissingHasCause
<1> QED
  BY <1>6, <1>7, <1>8, <1>9, <1>10, <1>11, <1>12, <1>13, <1>14, <1>15, <1>16

\* A handler reads and goes on: find, and the load of save.
LEMMA FindStep ==
    ASSUME IInv, NEW r \in Request, find(r), Exists(Target(r))
    PROVE  IInv'
<1> USE DEF IInv
<1>1. /\ pc[r] = "find" /\ pc' = [pc EXCEPT ![r] = "load"]
      /\ entity' = [entity EXCEPT ![r] = Merge(rows[Target(r)], call[r].dto)]
      /\ rows' = rows /\ call' = call /\ seen' = seen /\ status' = status /\ changed' = changed
  BY DEF find, Goto
<1>2. /\ \A s \in Request : s # r => pc'[s] = pc[s] /\ entity'[s] = entity[s]
      /\ pc'[r] = "load" /\ entity'[r] = Merge(rows[Target(r)], call[r].dto)
      /\ \A s \in Request, i \in Id :
            /\ OverlappingUpdates(s, i)' = OverlappingUpdates(s, i)
            /\ OverlappingWrites(s, i)' = OverlappingWrites(s, i)
  BY <1>1, OthersStay DEF TypeOK, Pc
<1>3. Is(r, "update") /\ call[r] \in Call /\ Target(r) \in Id /\ rows[Target(r)] \in Row
  BY <1>1 DEF Lifecycle, Call, TypeOK
<1>4. /\ entity'[r] \in Entity
      /\ \A c \in Column : entity'[r][c] = IF Names(r, c) THEN call[r].dto[c] ELSE rows[Target(r)][c]
  BY <1>2, <1>3 DEF Merge, Entity, Row, Call, Dto
<1>5. \A s \in Request : ~Is(s, "none") => Arrived(s) /\ Target(s) \in Id
  BY AskedIsThere
<1>6. TypeOK'
  BY <1>1, <1>2, <1>4 DEF TypeOK, Pc, Clash
<1>7. Lifecycle'
  BY <1>1, <1>2, <1>3, <1>4 DEF Lifecycle
<1>8. IdsOfCreations'
  BY <1>1, <1>2, <1>3 DEF IdsOfCreations
<1>9. MissingWasRemoved' /\ MissingHasCause'
  BY <1>1, <1>2 DEF MissingWasRemoved, MissingHasCause
<1>10. ComesBackByOverlap'
  BY <1>1, <1>2, <1>5 DEF ComesBackByOverlap
<1>11. HandHoldsRow'
  <2> SUFFICES ASSUME NEW s \in Request, Is(s, "update"), Underway(s)'
               PROVE  HandHoldsRowOf(s)'
    BY <1>1 DEF HandHoldsRow
  <2>1. CASE s = r
    BY <1>1, <1>2, <1>3, <1>4, <2>1 DEF HandHoldsRowOf
  <2>2. CASE s # r
    <3>1. HandHoldsRowOf(s)
      BY <1>2, <2>2 DEF HandHoldsRow
    <3> QED
      BY <1>1, <1>2, <1>5, <2>2, <3>1 DEF HandHoldsRowOf
  <2> QED
    BY <2>1, <2>2
<1>12. LaterHandsHold'
  <2> SUFFICES ASSUME NEW u \in Request, NEW x \in Request, NEW c \in Column,
                      Is(u, "update"), Succeeded(u), Names(u, c), Writes(x, "update", Target(u)),
                      Follows(x, u), Underway(x)', ~Names(x, c)
               PROVE  LaterHandHolds(u, x, c)'
    BY <1>1 DEF LaterHandsHold
  <2>1. CASE x = r
    BY <1>1, <1>2, <1>3, <1>4, <1>5, <2>1 DEF UpdatesStand, LaterHandHolds
  <2>2. CASE x # r
    <3>1. LaterHandHolds(u, x, c)
      BY <1>2, <2>2 DEF LaterHandsHold
    <3> QED
      BY <1>1, <1>2, <1>5, <2>2, <3>1 DEF LaterHandHolds
  <2> QED
    BY <2>1, <2>2
<1>13. UpdatesStand'
  BY <1>1, <1>2, <1>5 DEF UpdatesStand
<1>14. RemovedStaysRemoved' /\ RemovedOnce'
  BY <1>1, <1>2, <1>5 DEF RemovedStaysRemoved, RemovedOnce
<1> QED
  BY <1>6, <1>7, <1>8, <1>9, <1>10, <1>11, <1>12, <1>13, <1>14

LEMMA LoadStep ==
    ASSUME IInv, NEW r \in Request, load(r), ~(Exists(Target(r)) /\ Differing(r) = {})
    PROVE  IInv'
<1> USE DEF IInv
<1>1. /\ pc[r] = "load" /\ entity' = entity
      /\ rows' = rows /\ call' = call /\ seen' = seen /\ status' = status
      /\ \/ /\ Exists(Target(r)) /\ pc' = [pc EXCEPT ![r] = "update"]
            /\ changed' = [changed EXCEPT ![r] = Differing(r)]
         \/ /\ ~Exists(Target(r)) /\ pc' = [pc EXCEPT ![r] = "insert"]
            /\ changed' = changed
  BY DEF load, Goto
<1>2. /\ \A s \in Request : s # r => pc'[s] = pc[s] /\ changed'[s] = changed[s]
      /\ \/ Exists(Target(r)) /\ pc'[r] = "update" /\ changed'[r] = Differing(r)
         \/ ~Exists(Target(r)) /\ pc'[r] = "insert"
      /\ \A s \in Request, i \in Id :
            /\ OverlappingUpdates(s, i)' = OverlappingUpdates(s, i)
            /\ OverlappingWrites(s, i)' = OverlappingWrites(s, i)
  <2>1. CASE Exists(Target(r))
    BY <1>1, <2>1, OthersStay DEF TypeOK, Pc
  <2>2. CASE ~Exists(Target(r))
    BY <1>1, <2>2, OthersStay DEF TypeOK, Pc
  <2> QED
    BY <2>1, <2>2
<1>3. Is(r, "update") /\ call[r] \in Call /\ Target(r) \in Id
  BY <1>1 DEF Lifecycle, Call
<1>4. \A s \in Request : ~Is(s, "none") => Arrived(s) /\ Target(s) \in Id
  BY AskedIsThere
<1>5. HandHoldsRowOf(r)
  BY <1>1, <1>3 DEF HandHoldsRow
<1>6. TypeOK'
  BY <1>1, <1>2 DEF TypeOK, Pc, Clash, Differing
<1>7. Lifecycle'
  <2>1. status[r] = "none" /\ entity[r] \in Entity /\ \A s \in seen[r] : pc[s] = "done"
    BY <1>1 DEF Lifecycle
  <2>2. pc'[r] \in {"update", "insert"} /\ \A s \in Request : pc[s] = "done" => pc'[s] = "done"
    BY <1>1, <1>2
  <2> QED
    BY <1>1, <1>2, <1>3, <2>1, <2>2 DEF Lifecycle, TypeOK
<1>8. IdsOfCreations'
  BY <1>1, <1>2, <1>3 DEF IdsOfCreations
<1>9. MissingWasRemoved' /\ MissingHasCause'
  BY <1>1, <1>2 DEF MissingWasRemoved, MissingHasCause
<1>10. ComesBackByOverlap'
  BY <1>1, <1>2, <1>4 DEF ComesBackByOverlap
<1>11. HandHoldsRow'
  <2> SUFFICES ASSUME NEW s \in Request, Is(s, "update"), Underway(s)'
               PROVE  HandHoldsRowOf(s)'
    BY <1>1 DEF HandHoldsRow
  <2>1. CASE s = r
    <3>1. Exists(Target(r)) => pc'[r] = "update" /\ \A c \in Column \ changed'[r] : entity[r][c] = rows[Target(r)][c]
      BY <1>2 DEF Differing
    <3>2. ~Exists(Target(r)) => OverlappingWrites(r, Target(r)) # {}
      BY <1>5 DEF HandHoldsRowOf
    <3> QED
      BY <1>1, <1>2, <1>3, <1>5, <2>1, <3>1, <3>2 DEF HandHoldsRowOf
  <2>2. CASE s # r
    <3>1. HandHoldsRowOf(s)
      BY <1>2, <2>2 DEF HandHoldsRow
    <3> QED
      BY <1>1, <1>2, <1>4, <2>2, <3>1 DEF HandHoldsRowOf
  <2> QED
    BY <2>1, <2>2
<1>12. LaterHandsHold'
  <2> SUFFICES ASSUME NEW u \in Request, NEW x \in Request, NEW c \in Column,
                      Is(u, "update"), Succeeded(u), Names(u, c), Writes(x, "update", Target(u)),
                      Follows(x, u), Underway(x)', ~Names(x, c)
               PROVE  LaterHandHolds(u, x, c)'
    BY <1>1 DEF LaterHandsHold
  <2>1. LaterHandHolds(u, x, c)
    BY <1>1, <1>2 DEF LaterHandsHold
  <2> QED
    BY <1>1, <1>2, <1>4, <2>1 DEF LaterHandHolds
<1>13. UpdatesStand'
  BY <1>1, <1>2, <1>4 DEF UpdatesStand
<1>14. RemovedStaysRemoved' /\ RemovedOnce'
  BY <1>1, <1>2, <1>4 DEF RemovedStaysRemoved, RemovedOnce
<1> QED
  BY <1>6, <1>7, <1>8, <1>9, <1>10, <1>11, <1>12, <1>13, <1>14

\* The last step of create and update: a row is inserted or changed.
LEMMA StoreStep ==
    ASSUME IInv, NEW r \in Request, NEW a \in {"created", "ok", "error"}, Write(r, a),
           a = "created" => Is(r, "create"), a = "ok" => Is(r, "update")
    PROVE  IInv'
<1> USE DEF IInv
<1> DEFINE i == Target(r)
           N == rows'[i]
<1>1. /\ pc[r] \in {"insert", "update"} /\ pc' = [pc EXCEPT ![r] = "done"]
      /\ status' = [status EXCEPT ![r] = a]
      /\ entity' = [entity EXCEPT ![r] = NoRow] /\ changed' = [changed EXCEPT ![r] = {}]
      /\ call' = call /\ seen' = seen
      /\ \/ pc[r] = "insert" /\ InsertAllowed(r) /\ rows' = [rows EXCEPT ![i] = entity[r]]
         \/ pc[r] = "update" /\ UpdateAllowed(r) /\ rows' = [rows EXCEPT ![i] = Updated(r)]
  BY DEF Write, Answer, Store
<1>2. /\ \A s \in Request : s # r => /\ pc'[s] = pc[s] /\ status'[s] = status[s]
                                     /\ entity'[s] = entity[s] /\ changed'[s] = changed[s]
      /\ pc'[r] = "done" /\ status'[r] = a
      /\ \A s \in Request, j \in Id :
            /\ OverlappingUpdates(s, j)' = OverlappingUpdates(s, j)
            /\ OverlappingWrites(s, j)' = OverlappingWrites(s, j)
  <2>1. pc'[r] = "done" /\ status'[r] = a
    BY <1>1 DEF TypeOK
  <2>2. \A s \in Request : s # r => /\ pc'[s] = pc[s] /\ status'[s] = status[s]
                                     /\ entity'[s] = entity[s] /\ changed'[s] = changed[s]
    BY <1>1 DEF TypeOK
  <2>3. "done" \in Pc \ {"idle"} /\ pc[r] # "idle" /\ a \in Status
    BY <1>1 DEF Pc, Status
  <2>4. \A s \in Request, j \in Id :
          /\ OverlappingUpdates(s, j)' = OverlappingUpdates(s, j)
          /\ OverlappingWrites(s, j)' = OverlappingWrites(s, j)
    <3>1. UNCHANGED <<call, seen>> /\ \E b \in Status : status' = [status EXCEPT ![r] = b]
      BY <1>1, <2>3
    <3> HIDE DEF Exists, Is, Target, Succeeded, Writes, Names, Arrived, Follows, Underway
    <3> QED
      BY <1>1, <2>3, <3>1, OthersStay
  <2> QED
    BY <2>1, <2>2, <2>4
<1>3. /\ call[r] \in Call /\ i \in Id /\ entity[r] \in Entity
      /\ \A s \in Request : r \notin seen[s]
      /\ Arrived(r) /\ ~Succeeded(r)
      /\ \/ Is(r, "update") /\ Underway(r)
         \/ Is(r, "create") /\ i = r
  <2>1. Lifecycle /\ (Is(r, "create") => i = r) /\ pc[r] \in {"insert", "update"}
    BY <1>1 DEF IdsOfCreations
  <2> QED
    BY <2>1 DEF Lifecycle, Call
<1>4. \A s \in Request : ~Is(s, "none") => Arrived(s) /\ Target(s) \in Id
  BY AskedIsThere
<1>5. \A j \in Id : j # i => rows'[j] = rows[j]
  BY <1>1 DEF TypeOK
<1>6. /\ N \in Row \cup {NoRow}
      /\ N = NoRow => ~Exists(i)
      /\ N # NoRow => \A c \in Column : N[c] = entity[r][c] \/ (Exists(i) /\ c \notin changed[r] /\ N[c] = rows[i][c])
      /\ N # NoRow => \A c \in Unique : ~Clash(N, i, c)
      /\ pc[r] = "insert" => N = entity[r]
      /\ N # NoRow /\ pc[r] = "update" => Exists(i)
  <2>1. CASE pc[r] = "insert"
    <3>1. N = entity[r] /\ N \in Row /\ N # NoRow
      BY <1>1, <1>3, <2>1, RowsAreThere DEF InsertAllowed, TypeOK
    <3> QED
      BY <1>1, <2>1, <3>1, ColumnAssumption DEF InsertAllowed, Taken, Clash
  <2>2. CASE pc[r] = "update" /\ Exists(i)
    <3>1. N = [c \in Column |-> IF c \in changed[r] THEN entity[r][c] ELSE rows[i][c]]
      BY <1>1, <1>3, <2>2 DEF Updated, TypeOK
    <3>2. rows[i] \in Row /\ \A c \in changed[r] : entity[r][c] # Null
      BY <1>1, <1>3, <2>2 DEF UpdateAllowed, TypeOK
    <3>3. N \in Row
      BY <1>3, <3>1, <3>2 DEF Row, Entity
    <3>4. N # NoRow
      BY <3>3, RowsAreThere
    <3>5. \A c \in Unique : c \in changed[r] => ~Clash(entity[r], i, c)
      BY <1>1, <2>2 DEF UpdateAllowed, Taken, TypeOK
    <3>6. \A c \in Unique : ~Clash(rows[i], i, c)
      BY <1>3, <2>2 DEF TypeOK
    <3>7. \A c \in Unique : ~Clash(N, i, c)
      BY <3>1, <3>5, <3>6, ColumnAssumption DEF Clash
    <3> QED
      BY <2>2, <3>1, <3>3, <3>4, <3>7
  <2>3. CASE pc[r] = "update" /\ ~Exists(i)
    BY <1>1, <1>3, <2>3 DEF Updated, TypeOK
  <2> QED
    BY <1>1, <2>1, <2>2, <2>3
<1>7. \A s \in Request \ {r} : Arrived(s) /\ Target(s) = i => Is(r, "update")
  BY <1>3 DEF IdsOfCreations
<1>8. \A s \in Request \ {r} :
         /\ Arrived(s) /\ pc[s] # "done" /\ Target(s) = i => r \in OverlappingUpdates(s, i) /\ r \in OverlappingWrites(s, i)
         /\ Arrived(s) /\ Target(s) = i /\ OverlappingUpdates(s, i) = {} => Follows(r, s)
  BY <1>1, <1>3, <1>7, PendingOverlap, OverlapIsMutual DEF OverlappingUpdates, OverlappingWrites, Overlap
<1>9. TypeOK'
  <2>1. rows' \in [Id -> Row \cup {NoRow}]
    BY <1>1, <1>3, <1>6 DEF TypeOK
  <2>2. ASSUME NEW j \in Id, NEW c \in Unique, Exists(j)'
        PROVE  ~Clash(rows[j], j, c)'
    <3>1. CASE j = i
      BY <1>5, <1>6, <2>2, <3>1 DEF Clash
    <3>2. CASE j # i
      <4>1. ~Clash(rows[j], j, c)
        BY <1>5, <2>2, <3>2 DEF TypeOK
      <4>2. N # NoRow => N[c] # rows[j][c]
        BY <1>5, <1>6, <2>2, <3>2 DEF Clash
      <4> QED
        BY <1>5, <3>2, <4>1, <4>2 DEF Clash
    <3> QED
      BY <3>1, <3>2
  <2> QED
    BY <1>1, <2>1, <2>2 DEF TypeOK, Pc, Status
<1>10. Lifecycle'
  BY <1>1, <1>2 DEF Lifecycle
<1>11. IdsOfCreations'
  <2>1. ASSUME NEW s \in Request, Exists(s)'
        PROVE  Is(s, "create") /\ pc'[s] = "done"
    <3>1. CASE s # i
      BY <1>2, <1>5, <2>1, <3>1 DEF IdsOfCreations, Id
    <3>2. CASE s = i /\ Is(r, "update")
      BY <1>2, <1>3, <3>2 DEF IdsOfCreations, Lifecycle
    <3> QED
      BY <1>2, <1>3, <3>1, <3>2
  <2> QED
    BY <1>1, <1>2, <1>3, <2>1 DEF IdsOfCreations
<1>12. MissingWasRemoved'
  <2> SUFFICES ASSUME NEW j \in Id, ~Exists(j)',
                      j \in Seed \/ (j \in Request /\ Is(j, "create") /\ Succeeded(j)')
               PROVE  \E d \in Request : Writes(d, "remove", j) /\ pc'[d] = "done"
    BY <1>1 DEF MissingWasRemoved
  <2>1. ~Exists(j)
    BY <1>5, <1>6
  <2>2. j # r \/ j \in Seed
    <3>1. CASE j = r /\ Is(r, "create")
      BY <1>1, <1>3, <1>6, <3>1, RowsAreThere DEF InsertAllowed, Lifecycle
    <3> QED
      BY <3>1
  <2>3. PICK d \in Request : Writes(d, "remove", j) /\ pc[d] = "done"
    BY <1>2, <2>1, <2>2 DEF MissingWasRemoved
  <2> QED
    BY <1>1, <1>2, <2>3
<1>13. ComesBackByOverlap'
  <2> SUFFICES ASSUME NEW d \in Request, Is(d, "remove"), Succeeded(d)', OverlappingUpdates(d, Target(d)) = {}
               PROVE  /\ ~Exists(Target(d))'
                      /\ \A s \in Request : Target(s) = Target(d) /\ Follows(s, d) => ~Succeeded(s)' /\ ~Underway(s)'
    BY <1>1, <1>2, <1>4 DEF ComesBackByOverlap
  <2>1. d # r /\ Succeeded(d) /\ Target(d) \in Id /\ Arrived(d)
    BY <1>2, <1>3, <1>4
  <2>2. Target(d) # i
    BY <1>3, <1>7, <1>8, <2>1 DEF ComesBackByOverlap
  <2> QED
    BY <1>1, <1>2, <1>5, <2>1, <2>2 DEF ComesBackByOverlap
<1>14. HandHoldsRow'
  <2> SUFFICES ASSUME NEW s \in Request, Is(s, "update"), Underway(s)'
               PROVE  HandHoldsRowOf(s)'
    BY <1>1 DEF HandHoldsRow
  <2>1. s # r /\ HandHoldsRowOf(s) /\ Target(s) \in Id
    BY <1>2, <1>4 DEF HandHoldsRow
  <2>2. Target(s) = i => r \in OverlappingUpdates(s, i) /\ r \in OverlappingWrites(s, i)
    BY <1>2, <1>4, <1>8, <2>1
  <2> QED
    BY <1>1, <1>2, <1>5, <2>1, <2>2 DEF HandHoldsRowOf
<1>15. LaterHandsHold'
  <2> SUFFICES ASSUME NEW u \in Request, NEW x \in Request, NEW c \in Column,
                      Is(u, "update"), Succeeded(u)', Names(u, c), Writes(x, "update", Target(u)),
                      Follows(x, u), Underway(x)', ~Names(x, c)
               PROVE  LaterHandHolds(u, x, c)'
    BY <1>1 DEF LaterHandsHold
  <2>1. u # r /\ x # r /\ LaterHandHolds(u, x, c)
    BY <1>2, <1>3 DEF LaterHandsHold
  <2> QED
    BY <1>1, <1>2, <1>4, <2>1 DEF LaterHandHolds
<1>16. UpdatesStand'
  <2> SUFFICES ASSUME NEW u \in Request, NEW c \in Column,
                      Is(u, "update"), Succeeded(u)', Names(u, c), Exists(Target(u))',
                      OverlappingUpdates(u, Target(u)) = {}
               PROVE  \/ (rows[Target(u)][c] = call[u].dto[c])'
                      \/ \E x \in Request : Writes(x, "update", Target(u)) /\ Follows(x, u) /\ Names(x, c)
    BY <1>1, <1>2, <1>4 DEF UpdatesStand
  <2>1. CASE u = r
    <3>1. HandHoldsRowOf(r)
      BY <1>3, <2>1 DEF HandHoldsRow
    <3>2. N[c] = entity[r][c]
      BY <1>1, <1>6, <2>1, <3>1 DEF HandHoldsRowOf
    <3> QED
      BY <1>1, <2>1, <3>1, <3>2 DEF HandHoldsRowOf
  <2>2. CASE u # r /\ Target(u) # i
    BY <1>1, <1>2, <1>4, <1>5, <2>2 DEF UpdatesStand
  <2>3. CASE u # r /\ Target(u) = i
    <3>1. Is(r, "update") /\ Underway(r) /\ Follows(r, u) /\ Succeeded(u)
      BY <1>2, <1>3, <1>4, <1>7, <1>8, <2>3
    <3>2. CASE Names(r, c)
      BY <2>3, <3>1, <3>2
    <3>3. CASE ~Names(r, c) /\ N[c] = entity[r][c]
      <4>1. LaterHandHolds(u, r, c)
        BY <2>3, <3>1, <3>3 DEF LaterHandsHold
      <4> QED
        BY <1>1, <2>3, <3>3, <4>1 DEF LaterHandHolds
    <3>4. CASE Exists(i) /\ N[c] = rows[i][c]
      BY <1>1, <2>3, <3>1, <3>4 DEF UpdatesStand
    <3> QED
      BY <1>1, <1>6, <2>3, <3>2, <3>3, <3>4
  <2> QED
    BY <2>1, <2>2, <2>3
<1>17. RemovedStaysRemoved'
  <2> SUFFICES ASSUME NEW d \in Request, NEW s \in Request,
                      Is(d, "remove"), Succeeded(d)', Target(s) = Target(d), Follows(s, d), Succeeded(s)'
               PROVE  OverlappingUpdates(d, Target(d)) # {}
    BY <1>1, <1>2, <1>4 DEF RemovedStaysRemoved
  <2>1. d # r /\ Succeeded(d) /\ Arrived(d)
    BY <1>2, <1>3, <1>4
  <2>2. CASE s = r
    BY <1>3, <1>7, <2>1, <2>2 DEF ComesBackByOverlap
  <2>3. CASE s # r
    BY <1>2, <2>1, <2>3 DEF RemovedStaysRemoved
  <2> QED
    BY <2>2, <2>3
<1>18. RemovedOnce' /\ MissingHasCause'
  BY <1>1, <1>2, <1>3, <1>4 DEF RemovedOnce, MissingHasCause
<1> QED
  BY <1>9, <1>10, <1>11, <1>12, <1>13, <1>14, <1>15, <1>16, <1>17, <1>18

\* A row is deleted, answered or not.
LEMMA DeleteStep ==
    ASSUME IInv, NEW r \in Request, NEW a \in {"ok", "error"}, Delete(r, a),
           a = "ok" => Exists(Target(r))
    PROVE  IInv'
<1> USE DEF IInv
<1> DEFINE i == Target(r)
<1>1. /\ pc[r] = "delete" /\ pc' = [pc EXCEPT ![r] = "done"]
      /\ status' = [status EXCEPT ![r] = a]
      /\ entity' = [entity EXCEPT ![r] = NoRow] /\ changed' = [changed EXCEPT ![r] = {}]
      /\ call' = call /\ seen' = seen /\ rows' = [rows EXCEPT ![i] = NoRow]
  BY DEF Delete, Answer, Store
<1>2. /\ \A s \in Request : s # r => /\ pc'[s] = pc[s] /\ status'[s] = status[s]
                                     /\ entity'[s] = entity[s] /\ changed'[s] = changed[s]
      /\ pc'[r] = "done" /\ status'[r] = a
      /\ \A s \in Request, j \in Id :
            /\ OverlappingUpdates(s, j)' = OverlappingUpdates(s, j)
            /\ OverlappingWrites(s, j)' = OverlappingWrites(s, j)
  BY <1>1, OthersStay DEF TypeOK, Pc, Status
<1>3. /\ i \in Id /\ Is(r, "remove") /\ Arrived(r) /\ ~Succeeded(r)
      /\ \A s \in Request : r \notin seen[s]
  BY <1>1 DEF Lifecycle, Call
<1>4. \A s \in Request : ~Is(s, "none") => Arrived(s) /\ Target(s) \in Id
  BY AskedIsThere
<1>5. rows'[i] = NoRow /\ \A j \in Id : j # i => rows'[j] = rows[j]
  BY <1>1, <1>3 DEF TypeOK
<1>6. TypeOK'
  BY <1>1, <1>3, <1>5 DEF TypeOK, Pc, Status, Clash
<1>7. Lifecycle'
  BY <1>1, <1>2 DEF Lifecycle
<1>8. IdsOfCreations'
  BY <1>1, <1>2, <1>3, <1>5 DEF IdsOfCreations, Id
<1>9. MissingWasRemoved'
  BY <1>1, <1>2, <1>3, <1>5 DEF MissingWasRemoved
<1>10. ComesBackByOverlap'
  BY <1>1, <1>2, <1>3, <1>4, <1>5 DEF ComesBackByOverlap
<1>11. HandHoldsRow'
  <2> SUFFICES ASSUME NEW s \in Request, Is(s, "update"), Underway(s)'
               PROVE  HandHoldsRowOf(s)'
    BY <1>1 DEF HandHoldsRow
  <2>1. s # r /\ HandHoldsRowOf(s) /\ Target(s) \in Id
    BY <1>2, <1>4 DEF HandHoldsRow
  <2>2. Target(s) = i => r \in OverlappingWrites(s, i)
    BY <1>1, <1>2, <1>3, <1>4, <2>1, PendingOverlap, OverlapIsMutual DEF OverlappingWrites
  <2> QED
    BY <1>1, <1>2, <1>5, <2>1, <2>2 DEF HandHoldsRowOf
<1>12. LaterHandsHold'
  <2> SUFFICES ASSUME NEW u \in Request, NEW x \in Request, NEW c \in Column,
                      Is(u, "update"), Succeeded(u)', Names(u, c), Writes(x, "update", Target(u)),
                      Follows(x, u), Underway(x)', ~Names(x, c)
               PROVE  LaterHandHolds(u, x, c)'
    BY <1>1 DEF LaterHandsHold
  <2>1. u # r /\ x # r /\ LaterHandHolds(u, x, c)
    BY <1>2, <1>3 DEF LaterHandsHold
  <2> QED
    BY <1>1, <1>2, <1>4, <2>1 DEF LaterHandHolds
<1>13. UpdatesStand'
  BY <1>1, <1>2, <1>3, <1>4, <1>5 DEF UpdatesStand
<1>14. RemovedStaysRemoved' /\ RemovedOnce'
  BY <1>1, <1>2, <1>3, <1>4 DEF RemovedStaysRemoved, RemovedOnce, ComesBackByOverlap
<1>15. MissingHasCause'
  BY <1>1, <1>2 DEF MissingHasCause
<1> QED
  BY <1>6, <1>7, <1>8, <1>9, <1>10, <1>11, <1>12, <1>13, <1>14, <1>15

LEMMA NextIInv == IInv /\ [Next]_vars => IInv'
<1> SUFFICES ASSUME IInv, [Next]_vars PROVE IInv'
  OBVIOUS
<1>1. CASE UNCHANGED vars
  <2>1. /\ TypeOK' /\ Lifecycle' /\ IdsOfCreations' /\ MissingWasRemoved'
        /\ RemovedStaysRemoved' /\ RemovedOnce' /\ MissingHasCause'
    BY <1>1 DEF vars, IInv, TypeOK, Clash, Lifecycle, IdsOfCreations, MissingWasRemoved,
                RemovedStaysRemoved, RemovedOnce, MissingHasCause, OverlappingUpdates, Overlap
  <2>2. ComesBackByOverlap' /\ HandHoldsRow' /\ LaterHandsHold' /\ UpdatesStand'
    BY <1>1 DEF vars, IInv, ComesBackByOverlap, HandHoldsRow, HandHoldsRowOf, LaterHandsHold,
                LaterHandHolds, UpdatesStand, OverlappingUpdates, OverlappingWrites, Overlap
  <2> QED
    BY <2>1, <2>2 DEF IInv
<1>2. ASSUME NEW r \in Request,
             \/ Receive(r)
             \/ findById(r) \/ find(r) \/ load(r) \/ save(r) \/ saveRejected(r) \/ remove(r)
             \/ StatementFails(r) \/ ReplyLost(r)
      PROVE  IInv'
  <2>0. IInv /\ TypeOK /\ Lifecycle
    BY DEF IInv
  <2>1. CASE Receive(r)
    BY <2>0, <2>1, ReceiveStep
  <2>2. CASE findById(r)
    <3> DEFINE a == IF Exists(Target(r)) THEN "ok" ELSE "notFound"
    <3>1. /\ a \in Status \ {"none"} /\ pc[r] = "get" /\ Answer(r, a) /\ UNCHANGED <<rows, call, seen>>
      BY <2>2 DEF findById, Status
    <3> QED
      BY <2>0, <3>1, ReplyStep
  <2>3. CASE find(r)
    <3>1. CASE Exists(Target(r))
      BY <2>0, <2>3, <3>1, FindStep
    <3>2. CASE ~Exists(Target(r))
      <4>1. "notFound" \in Status \ {"none"} /\ pc[r] = "find" /\ Answer(r, "notFound") /\ UNCHANGED <<rows, call, seen>>
        BY <2>3, <3>2 DEF find, Status
      <4> QED
        BY <2>0, <3>2, <4>1, ReplyStep
    <3> QED
      BY <3>1, <3>2
  <2>4. CASE load(r)
    <3>1. CASE Exists(Target(r)) /\ Differing(r) = {}
      <4>1. "ok" \in Status \ {"none"} /\ pc[r] = "load" /\ Answer(r, "ok") /\ UNCHANGED <<rows, call, seen>>
        BY <2>4, <3>1 DEF load, Status
      <4> QED
        BY <2>0, <3>1, <4>1, ReplyStep
    <3>2. CASE ~(Exists(Target(r)) /\ Differing(r) = {})
      BY <2>0, <2>4, <3>2, LoadStep
    <3> QED
      BY <3>1, <3>2
  <2>5. CASE save(r)
    <3> DEFINE a == IF Is(r, "create") THEN "created" ELSE "ok"
    <3>1. a \in {"created", "ok", "error"} /\ Write(r, a) /\ pc[r] \in {"insert", "update"}
      BY <2>5 DEF save, Write
    <3>2. a = "ok" => Is(r, "update")
      BY <2>0, <3>1 DEF Lifecycle
    <3> QED
      BY <2>0, <3>1, <3>2, StoreStep
  <2>6. CASE saveRejected(r)
    <3> DEFINE a == IF NullWritten(r) THEN "error" ELSE "conflict"
    <3>1. /\ a \in Status \ {"none"} /\ pc[r] \in {"insert", "update"} /\ Answer(r, a)
          /\ UNCHANGED <<rows, call, seen>>
      BY <2>6 DEF saveRejected, Status
    <3> QED
      BY <2>0, <3>1, ReplyStep
  <2>7. CASE remove(r)
    <3>1. CASE Exists(Target(r))
      BY <2>0, <2>7, <3>1, DeleteStep DEF remove, Deletion
    <3>2. CASE ~Exists(Target(r))
      <4>1. pc[r] = "delete" /\ Answer(r, "notFound") /\ UNCHANGED <<call, seen>>
        BY <2>7, <3>2 DEF remove, Deletion, Delete
      <4>2. rows' = [rows EXCEPT ![Target(r)] = NoRow] /\ rows[Target(r)] = NoRow
        BY <2>7, <3>2 DEF remove, Delete, Store
      <4>3. rows' = rows
        BY <2>0, <4>2 DEF TypeOK
      <4> QED
        BY <2>0, <3>2, <4>1, <4>3, ReplyStep DEF Status
    <3> QED
      BY <3>1, <3>2
  <2>8. CASE StatementFails(r)
    <3>1. /\ "error" \in Status \ {"none"} /\ pc[r] \notin {"idle", "done"} /\ Answer(r, "error")
          /\ UNCHANGED <<rows, call, seen>>
      BY <2>8 DEF StatementFails, Status
    <3> QED
      BY <2>0, <3>1, ReplyStep
  <2>9. CASE ReplyLost(r)
    BY <2>0, <2>9, StoreStep, DeleteStep DEF ReplyLost
  <2> QED
    BY <1>2, <2>1, <2>2, <2>3, <2>4, <2>5, <2>6, <2>7, <2>8, <2>9
<1> QED
  BY <1>1, <1>2 DEF Next

-----------------------------------------------------------------------------
(* The theorems.                                                           *)

THEOREM Invariance == Spec => []IInv
BY InitIInv, NextIInv, PTL DEF Spec

\* The variables keep their types and the unique indexes hold, whatever
\* statements of create, update and remove interleave and fail.
THEOREM TypeCorrect == Spec => []TypeOK
<1>1. IInv => TypeOK
  BY DEF IInv
<1> QED
  BY <1>1, Invariance, PTL

\* An update of employees.service.ts is undone only by an update that named the
\* column or overlapped it.
THEOREM SuccessfulUpdatesStand == Spec => []UpdatesStand
<1>1. IInv => UpdatesStand
  BY DEF IInv
<1> QED
  BY <1>1, Invariance, PTL

\* A removed employee comes back only through an update that overlapped the
\* removal (save inserts what it does not find).
THEOREM RemovalsAreFinal == Spec => []RemovedStaysRemoved
<1>1. IInv => RemovedStaysRemoved
  BY DEF IInv
<1> QED
  BY <1>1, Invariance, PTL

\* remove answers 404 from the second time on, resurrections aside.
THEOREM RemovalsHappenOnce == Spec => []RemovedOnce
<1>1. IInv => RemovedOnce
  BY DEF IInv
<1> QED
  BY <1>1, Invariance, PTL

\* A 404 about an employee that was there has a removal to explain it.
THEOREM MissingHaveCauses == Spec => []MissingHasCause
<1>1. IInv => MissingHasCause
  BY DEF IInv
<1> QED
  BY <1>1, Invariance, PTL

\* A 409 is about a column of the dto unless writes of the employee overlapped.
THEOREM ConflictsAreAboutTheDto == Spec => ConflictIsAboutTheDto
<1> DEFINE Explained(r) ==
      \/ \E c \in Unique : Names(r, c) /\ Clash(call[r].dto, Target(r), c)
      \/ OverlappingWrites(r, Target(r)) # {}
<1>1. ASSUME IInv, [Next]_vars, NEW r \in Request, status[r] # "conflict", status'[r] = "conflict"
      PROVE  Explained(r)
  <2> USE DEF IInv
  <2>1. saveRejected(r) /\ ~NullWritten(r)
    <3>1. PICK s \in Request :
            \/ Receive(s)
            \/ findById(s) \/ find(s) \/ load(s) \/ save(s) \/ saveRejected(s) \/ remove(s)
            \/ StatementFails(s) \/ ReplyLost(s)
      BY <1>1 DEF Next, vars
    <3>2. status' # status
      BY <1>1
    <3>3. ~Receive(s)
      BY <3>2 DEF Receive
    <3>4. status \in [Request -> Status]
      BY <1>1 DEF TypeOK
    <3>5. PICK a \in Status : status' = [status EXCEPT ![s] = a] /\ (a = "conflict" => saveRejected(s) /\ ~NullWritten(s))
      BY <3>1, <3>2, <3>3 DEF findById, find, load, save, saveRejected, remove, Deletion, Write, Delete,
                              StatementFails, ReplyLost, Answer, Goto, Status
    <3> QED
      BY <1>1, <3>4, <3>5
  <2>2. pc[r] \in {"insert", "update"}
    BY <2>1 DEF saveRejected
  <2>3. /\ entity[r] \in Entity /\ Target(r) \in Id
        /\ (Is(r, "create") /\ pc[r] = "insert") \/ (Is(r, "update") /\ Underway(r))
    BY <1>1, <2>2 DEF Lifecycle, Call
  <2>4. CASE Is(r, "create") /\ pc[r] = "insert"
    <3>1. Target(r) = r /\ entity[r] = call[r].dto /\ entity[r] \in Row /\ ~Exists(r)
      BY <1>1, <2>4 DEF IdsOfCreations
    <3>2. PICK c \in Unique : Clash(call[r].dto, Target(r), c)
      BY <2>1, <2>4, <3>1 DEF saveRejected, InsertAllowed, Taken
    <3>3. Names(r, c)
      BY <3>1, ColumnAssumption, ValueAssumption DEF Row
    <3> QED
      BY <3>2, <3>3
  <2>5. CASE Is(r, "update") /\ Underway(r) /\ OverlappingWrites(r, Target(r)) = {}
    <3>1. /\ pc[r] = "update" /\ Exists(Target(r))
          /\ \A c \in Column : entity[r][c] = IF Names(r, c) THEN call[r].dto[c] ELSE rows[Target(r)][c]
      BY <1>1, <2>2, <2>5 DEF HandHoldsRow, HandHoldsRowOf
    <3>2. PICK c \in Unique : Clash(entity[r], Target(r), c)
      BY <2>1, <3>1 DEF saveRejected, UpdateAllowed, NullWritten, Taken
    <3>3. ~Clash(rows[Target(r)], Target(r), c)
      BY <1>1, <2>3, <3>1 DEF TypeOK
    <3>4. Names(r, c) /\ entity[r][c] = call[r].dto[c]
      BY <3>1, <3>2, <3>3, ColumnAssumption DEF Clash
    <3> QED
      BY <3>2, <3>4 DEF Clash
  <2> QED
    BY <2>3, <2>4, <2>5
<1>2. IInv /\ [Next]_vars =>
        [\A r \in Request :
           status[r] # "conflict" /\ status'[r] = "conflict" =>
               \/ \E c \in Unique : Names(r, c) /\ Clash(call[r].dto, Target(r), c)
               \/ OverlappingWrites(r, Target(r)) # {}]_vars
  BY <1>1
<1> QED
  BY <1>2, Invariance, PTL DEF Spec, ConflictIsAboutTheDto

\* A PATCH leaves the columns it does not name alone unless another write of
\* the employee overlapped it.
THEOREM PatchesAreNarrow == Spec => OnlyNamedColumnsChange
<1>1. ASSUME IInv, [Next]_vars, NEW r \in Request, NEW c \in Column,
             pc[r] = "update", pc'[r] = "done", rows'[Target(r)][c] # rows[Target(r)][c],
             OverlappingWrites(r, Target(r)) = {}
      PROVE  Names(r, c)
  <2> USE DEF IInv
  <2>1. PICK s \in Request :
          \/ Receive(s)
          \/ findById(s) \/ find(s) \/ load(s) \/ save(s) \/ saveRejected(s) \/ remove(s)
          \/ StatementFails(s) \/ ReplyLost(s)
    BY <1>1 DEF Next, vars
  <2>2. /\ Is(r, "update") /\ Target(r) \in Id /\ Exists(Target(r))
        /\ ~Names(r, c) => entity[r][c] = rows[Target(r)][c]
    BY <1>1 DEF Lifecycle, Call, HandHoldsRow, HandHoldsRowOf
  <2>3. s = r
    <3>1. PICK label : pc' = [pc EXCEPT ![s] = label]
      BY <2>1 DEF Receive, findById, find, load, save, saveRejected, remove, Write, Delete,
                  StatementFails, ReplyLost, Answer, Goto
    <3> QED
      BY <1>1, <3>1 DEF TypeOK
  <2>4. rows' = [rows EXCEPT ![Target(r)] = Updated(r)]
    BY <1>1, <2>1, <2>3 DEF Receive, findById, find, load, save, saveRejected, remove, Write, Delete,
                            StatementFails, ReplyLost, Store
  <2> QED
    BY <1>1, <2>2, <2>4 DEF Updated, TypeOK
<1>2. IInv /\ [Next]_vars =>
        [\A r \in Request, c \in Column :
           LET i == Target(r)
           IN  /\ pc[r] = "update" /\ pc'[r] = "done" /\ rows'[i][c] # rows[i][c]
               => Names(r, c) \/ OverlappingWrites(r, i) # {}]_vars
  BY <1>1
<1> QED
  BY <1>2, Invariance, PTL DEF Spec, OnlyNamedColumnsChange
=============================================================================
