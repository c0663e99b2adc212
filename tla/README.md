# Verification of the employee management API

TLA+ models of the parts of this repository where requests, transactions and
queues interact, the TLC runs that check them on small instances, and theorems
about them checked by TLAPS. Paths below are relative to the repository.

## The system

A NestJS monorepo: one API process (`apps/api`), a MySQL database through
TypeORM, and a Redis server holding a Bull queue of mail jobs that the same
process works off.

| Component | State it keeps | Operations | Interacts with | What makes it correct |
|---|---|---|---|---|
| attendance (`libs/attendance`) | table `attendances`, one row per employee and day | check-in, check-out, list | locks `employees` rows, adds mail jobs | one check-in and one check-out a day, table and answers agree, no wait for ever |
| employees (`libs/employees`) | table `employees` | create, list, get, update, remove | remove cascades over `attendances` | unique e-mail and identifier, no row of attendances without its employee, no lost update |
| auth (`libs/auth`) and users (`libs/users`) | table `users`: hashes of the password, the refresh token and the reset token | register, login, refresh, logout, profile, forgot and reset password | adds mail jobs | tokens and passwords once replaced stay dead, refusals have causes |
| mail (`libs/mail`) | Bull queue, one lazily made SMTP transporter | add two kinds of job, process them, deliver | fed by attendance and auth | a job is tried at most three times, a success is not repeated without cause |
| reports (`libs/reports`) | none | daily PDF and Excel report | reads employees and attendances in two queries | a report shows a state the tables were in, for whoever stayed |
| health (`libs/health`) | a Redis client per check | check | MySQL, Redis | every client is released, the status is the conjunction |
| common, config, database | envelope and error filter; environment; schema | | around every request | one envelope per response |

Hard behaviours: nothing but InnoDB's locks orders the requests of attendance,
and auth and users use no transaction at all; the mail job is added after the
COMMIT, so a crash or a Redis error falls between the two; a deletion of an
employee cascades over rows that open transactions are about; mail jobs are
delivered at least once. `PROJECT.json` lists the hazards line by line.

## Modules

| Module | What it is |
|---|---|
| `Attendance` | check-in and check-out, statement by statement, with row locks, gap locks, faults, and insertion and deletion of employees |
| `AttendanceLedger` | what the attendance API promises: each request takes effect in one step |
| `AttendanceRefinement` | the refinement mapping from the first to the second |
| `AuthSessions` | register, login, refresh, logout, forgot and reset password, statement by statement |
| `Employees` | create, get, update and remove, with the two steps of TypeORM's `save` |
| `Reads` | the daily report, a scan of the employees' pages and an attendance listing while the tables change |
| `MailQueue` | a mail job in Bull and the two workers that deliver it |
| `HttpPipeline` | guard, envelope and exception filter as functions |
| `Health` | a health check and its Redis client, composed with `HttpPipeline` |
| `...Proofs` | the theorems about the module of that name; `AttendanceWaitsProofs` those about who waits for whom in `Attendance` |
| `MC...` | the instances for TLC |

`Attendance`, `Employees` and `Reads` meet in the tables, at different grain:
`Attendance` knows of employees that they exist and takes INSERT and DELETE as
one step, `Employees` says how those come about, and `Reads` takes the committed
changes of both as given. `Attendance` and `AuthSessions` end with the mail job
in the queue, where `MailQueue` begins.

### Attendance

`pc[r]` is the await a request's handler is suspended at. Each action is the
code from one await to the next: `getEmployeeOrFail` and
`findAttendanceForUpdate` are the two locking reads with the exceptions that
follow them, `save` the INSERT or UPDATE, `Commit` the end of
`dataSource.transaction`, `enqueueAttendanceNotification` the mail job. A
check-in and a check-out differ in `Conflicts` (the three ConflictExceptions)
and `NewRow` (what is written). `attendances` maps the columns of
`UQ_attendance_employee_date` to a row or to `NoRow`; only committed rows are
in it. Row locks last until COMMIT or ROLLBACK, so they follow from `pc`
(`HoldsEmployee`, `HoldsAttendance`).

Gap locks do not follow from `pc` alone, so `gap[r]` holds the keys covered by
the gap lock of a read that found no row: those between the neighbouring
entries of the unique index (`GapAround`). Gap locks do not exclude each other,
but an INSERT waits for those of others (`InsertAllowed`), which is how two
check-ins deadlock; `DeadlockVictim` is InnoDB's rollback of one of them. It
looks for two-way waits (`MutualWait`) only: that no cycle of waits is without one
is what `WaitsEnd` says, and it is proved. The gap is the one at the time of the
read: an entry deleted later would widen it once purged, which the model leaves
out. The gap lock on a missing employee's primary key is left out too, since the
404 releases it at once.

Times are ticks finer than a second. `toDateOnly` cuts the day in the server's
time zone, `DatetimeColumn` rounds as MySQL does when it stores. `UtcOffset` is
constant: changes to summer time are not modelled.

Faults, each switched on by `Faults`: a statement or COMMIT fails
(`TransactionFails`), the COMMIT succeeds and its reply is lost
(`CommitUnacknowledged`), `queue.add` rejects with or without having added the
job (`EnqueueFails`), the process dies (`Crash`). `queue.add` adds at most one
job per call: a resend by the Redis client is not modelled. One API process is
assumed, so a crash ends all requests in flight. The duplicate-key branch of
`save` is modelled though the lock makes it unreachable.

`insertEmployee` is `create`, and also the INSERT that TypeORM's `save` falls
back on when `update` has read an employee that was deleted meanwhile.

`fate` is a history variable: whether the request's COMMIT took effect, and
whether a deletion of the employee has since erased the record.

### AttendanceLedger

One step per request: `Record` if the ledger admits it, `Refuse` if it does not
*at that moment*, or `Fail`. The mapping reads the outcome of a request from
`fate`, `pc` and `status`. A request takes effect with its COMMIT, although it
was decided two statements before; that is what the locks are for.

### AuthSessions

No handler of auth holds a lock or a transaction, so every SELECT and UPDATE of
`UsersService` is a step. Between the read of a user's row and the first write
a handler only computes (bcrypt, JWT), so its decision belongs to the step of
the read. A column with a hash holds the name of what was hashed: the token
issued by request `r`, the reset token mailed by `r` and the password set by
`r` are all named `r`. Clients send only what they can have: tokens they were
answered with, reset tokens that were mailed, any password. `HandlerFails` is a
failed statement or the death of the process between two of them, `ReplyLost`
a final update whose reply is lost. `seen[r]` is the set of requests answered
before `r` arrived, so the properties can speak of requests that overlap.
`clock` has ticks much longer than a request; the rounding of the `timestamp`
column is below a tick. Users are never deleted by the code, so `findById` of a
token's subject always finds the user.

### Employees

`EmployeesService` takes no lock and opens no transaction. `save` of an entity
that has an id is a SELECT outside any transaction, and then an UPDATE of the
columns that differ from the row *as it is now*, an INSERT if there is no row, or
nothing. So an update reads twice, writes what it made of the first read and
decides by the second what to write (`find`, `load`, `save`). Hence a removed
employee can come back, and a column the body did not name can be set back, but
both only by requests that overlap: this is what the properties say. The
repository's "returns 404 when retrieving deleted employee"
(`test/employees.e2e-spec.ts:290`) is about requests in sequence, for which it is
proved. `Null` is an explicit null in a PATCH, which `@IsOptional` lets through
and the NOT NULL columns reject with an error that
`handleUniqueConstraintError` does not map, a 500. A row is kept under the id of
the request that created it. `Patch` is the set of bodies; in the run they name
one column at most, which is what lost updates are about.

### Reads

One request of one `kind` per behaviour, while the tables change. `report` is the
two queries of a `Promise.all`, in either order. `scan` is a client that turns
pages until `page * limit >= total`; that rule is the client's, not the code's.
`findAndCount` is a query for the page and a second one for the count, except
where TypeORM can do without; ORDER BY createdAt DESC leaves rows with equal
timestamps in any order, a new one for each query (`Pages`). `Hire` takes any
`createdAt`, since commits do not follow the order of their timestamps.
`Reinsert` is the INSERT of a stale `save`. `listing` is the attendance query
with its date filters: a date without a time is read as UTC midnight and cut to
a date in the server's zone (`toDateOnly`), a day early on a server behind UTC,
although `list-attendance-query.dto.ts:13` says "greater than or equal to this
date". `ListingAgreesWithReport` says so much of every zone: the rows are those of
the dates asked for or, behind UTC, of exactly one day earlier at both ends
(`AskedAs`); it does not say that the earlier day is right. Filters that
are full instants are not modelled. `moments`, `gone` and `came` are history:
what a report could have shown, and whom the tables lost or got meanwhile.

### MailQueue

`MailProcessor` has two `@Process` handlers, so Bull starts two workers, each for
jobs of either name. The model is the life of a job in Redis (`state`,
`attemptsMade`, `stalledCounter`, `locked`) and the awaits of a worker (`pc`). A
lock carries the token of the queue instance, which both workers of a process
share: a worker that lost its lock can use the one the other has since taken.
`moveToFailed` writes the attempt it has counted, `made + 1`, in the same MULTI
as the move and even if the move is refused; two runs that overlap count as one.
A completion that is refused or fails is reported by Bull as a failure of a job
whose mail is out. All of this is Bull's behaviour, marked external in the map;
the options (three attempts, exponential back-off) and what `process` does are
the repository's. `transporter` is the field of `MailDeliveryService`: with
Ethereal the first mails can each create an account and overwrite the other's
transporter. Times of back-off, stall checks and locks are left out: those events
happen at any moment after their cause. `removeOnComplete: 100` is left out, and
so is what the mails say.

### HttpPipeline and Health

`respond` is what a client gets for what a handler returned or threw:
`JwtAuthGuard`, then `ResponseEnvelopeInterceptor` or `AllExceptionsFilter`. A
payload is known by its shape, which is what the code asks of it. `Health` sends
its own 200s and 503s through it, and as `serve` what the other routes come to
(`MCOutcomes`): results of every shape, exceptions of every status that the
program throws (400, 401, 403, 404, 409) and the error that is no
`HttpException`, which becomes a 500; to these it adds the shapes of exceptions
that the filter provides for although nothing throws them yet. `Wellformed` says
what a client may rely on without asking the filter: the pairs of status and
code are a table of its own (`ErrorCodes`), the names of HTTP, and a 500 has the
fixed message and no details.

A check asks MySQL and Redis in parallel, Redis by an ioredis client of its own.
The client's life is external: `connect` rejects when the first connection fails,
later connections are retried by a timer, a `ping` waits for the next connection
and is rejected when `retryAttempts % (maxRetriesPerRequest + 1) = 0`;
`enableReadyCheck: false` lets a `ping` reach a Redis that is still loading. The
release in `finally` happens in microtasks after the rejection, before any
socket event, and is part of the step that rejects. Checks share nothing, so one
is enough. `503` is documented with the type of the bare body
(`health.controller.ts`, `ApiServiceUnavailableResponse`), while the pipeline
puts it into the envelope; the model has what the code does.

## Runs

| Run | Instance | Shows |
|---|---|---|
| `attendance_faults` | 3 requests, 2 employees, 2 days, a half second that rounds over midnight, all faults | type invariant, six safety invariants, one action property |
| `attendance_refines` | 3 requests, 2 employees, 2 days, all faults | `AttendanceLedger` is implemented |
| `attendance_live` | 3 requests, 3 employees, 1 day, no faults | open transactions never all wait, every request is answered, every record notified |
| `attendance_deadlock` | 2 requests, 2 employees, no faults | **violated**: a 500 for a legal check-in |
| `auth_sessions` | 4 requests, 1 user, 2 ticks, all faults | type invariant and seven properties of tokens, passwords and refusals |
| `auth_register` | 2 requests, no faults | **violated**: a 500 for a duplicate registration |
| `auth_expired` | 4 requests, no faults | **violated**: a fresh reset token is cleared as expired |
| `auth_logout` | 3 requests, no faults | **violated**: a session survives a logout |
| `employees` | 3 requests, 1 employee at the start, a unique and a plain column, 2 values, all faults | what overlapping updates and removals may lose, and that others lose nothing |
| `reads` | 4 employees, pages of 1 and 2, 3 dates, 3 zones, 4 changes of the tables | what a report, a scan and a listing may rely on |
| `mail_queue` | 2 jobs, 2 workers, 2 attempts, 3 transports, all faults | every job ends, for a reason; duplicates need a lost acknowledgement |
| `health` | 1 check, 4 changes of the servers, responses of every shape | answers are true of the check's time, checks end, clients are released |

Bounds. A request is sent once; a retry is another request. Three attendance
requests are a check-in, a check-out and one more that is refused, deadlocks or
conflicts; two employees have keys in one gap of the index and keys in different
ones; two days separate keys of one employee. Three employees let three inserts
wait for each other's gap locks, the smallest cycle that is not two-way. Four
auth requests are the shortest story that issues a token, mails a reset, uses it
and then tries what should be dead. Requests about different users touch
different rows, so one user is enough. Three requests to employees are two that
overlap and a third to notice; a column with a unique index and one without
stand for the five. A report needs two changes to show two moments at once and
more to mix them up, four employees give a page before, a page of two and one
behind; dates play no part in a scan nor `createdAt` in the others, so each is
varied only where it counts. Two attempts instead of three keep a retry and a
last attempt apart; the theorems hold for any number. A call to Redis fails only
for one of the two jobs (`Fragile`): the other is there for the worker and the
transporter they share. Four changes take a server down and up twice, or both
servers once; a client's retries restart with each connection.

Requests are interchangeable and symmetry is used wherever no liveness is
checked. `auth_*`, `employees`, `reads`, `mail_queue` and `health` end when all
is answered, so they check no deadlock; in `Attendance` administrators can
always act, and it is `WaitsEnd` and `EveryRequestAnswered` that exclude waiting
for ever.

Fairness. Attendance: weak fairness of each request's own steps, because the
database answers every statement, InnoDB detects deadlocks (its default) and
the event loop runs every continuation; none for arrivals, administrators or
faults. Mail: weak fairness of a worker, of a job's back-off and lock expiry and
of Bull's check for stalled jobs, because those are timers that Bull renews and
Redis keeps, a process that died is started again, and nodemailer has timeouts
for connection, greeting and socket; none for additions, lost locks or crashes.
Health: weak fairness of queries, of the client's sockets and timers and of the
answer, assuming that a server that is up answers, since neither `ping` nor
`SELECT 1` has a timeout of its own (listed as a hazard); none for outages.

## What the violated runs say

* *First check-ins can deadlock.* Two employees without rows between them (both
  new, or the first day of a deployment) check in at once. Their locking reads
  find nothing and lock one and the same gap; each INSERT waits for the other's
  lock; InnoDB rolls one back, and `checkIn` has no case for
  `ER_LOCK_DEADLOCK`. The employee lock does not help: there are two employees.
* *A duplicate registration can be a 500*: `UsersService.create` has no case for
  `ER_DUP_ENTRY`, unlike `EmployeesService` and `AttendanceService`.
* *"Clear expired token" can clear a fresh one*: the update is by user id.
* *A refresh can outlive a logout*: the new hash is stored without a look at
  what has become of the old one.

`RefreshReuseOverlaps`, `EndedSessionsStayEnded` and their like state what does
hold: requests that do not overlap may rely on rotation, on logout and on reset.
How far each violation goes is proved: without faults only a check-in gets a 500,
beside a check-in of another employee (`ErrorsAreDeadlocks`), or a registration
that overlaps another of its address (`RegistrationsRace`); a token cleared in
place of the expired one was mailed by a request that overlaps the reset
(`ClearedTokensOverlap`); a session outlives a logout only in a refresh that
overlaps it (`LogoutsAreOutlivedByOverlap`).

## Proofs

All theorems hold for every value of the constants, every set of requests,
employees, instants, jobs or workers and every subset of the faults, under the
named ASSUMEs of the modules. Of `Attendance`'s, the arithmetic of rounding is
never needed, only that a stored time is not `NoTime`; that employees and instants
are finitely many, and that dates are numbers the index can order, is needed for
the waits alone. `Reads` assumes finitely many employees, because it counts them
(an id is a UUID). `Health` assumes that handlers return a 200 or a 201 and throw
one of the statuses the program throws, a 500 only as an error that is no
`HttpException` (`OutcomesAssumption`), and that the record of an error, as those
of the 401 and the 503, is not the value that stands for none (`NullAssumption`).

*Safety* (`AttendanceProofs`). `OneRecordPerDay` is not inductive: it does not
say why a COMMIT finds the row it decided on. `IInv` adds `LockExclusion` (one
transaction per employee beyond the employee lock), `StaffPresent` (the employee
it found is still there), `Decided` (what it would refuse now it would have
refused then), `Lifecycle` (how `pc`, `fate` and `status` fit) and
`RowsTellRecords` (a row still carries what each request on record wrote).
`LockExclusion` makes `Decided` survive the COMMITs of others and
`EmployeeLockFree` makes it survive deletions; a check-in then commits into an
absent row, which by `RowsTellRecords` no other check-in can be on record for.
There is one lemma per kind of step: `ReceiveStep`, `StatementStep`,
`RollbackStep` (refusals, failures and the crash alike), `RecordStep`,
`EnqueueStep`, `InsertEmployeeStep`, `RemoveEmployeeStep`; `NextIInv` puts them
together. From the invariant follow `TypeCorrect`, `RecordsAreUnique`,
`AnswersAreHonest`, `NoPrematureMail`, `RowsHaveEmployees`, the action
properties `DecisionsAreStable` and `RowsOnlyMoveForward` (the latter also follows
from the ledger that `attendance_refines` checks), and with `RowsHaveAuthors` also
`TableIsFaithful` and `ConflictsHaveCauses`.

*Waits* (`AttendanceWaitsProofs`). `WaitsDoEnd`: as long as a transaction is open,
one may go on or is in a two-way wait. Whoever waits for an employee's row waits
for a transaction beyond it, and nobody waits for a row of `attendances`, since the
employee's lock came first (`AttendanceIsFree`). Inserts that wait for gap locks
need an invariant of their own, on top of `IInv`: only a check-in that found no
row holds a gap, over its own key (`GapsOfInserts`); a gap has no indexed key in it
(`CleanGap`), is a run of the index (`Convex`), and of two gaps one contains the
other unless they are apart (`Nested`). The last is the one that matters. It holds
because the gap that a read locks is a run around its key (`GapIsARun`) and covers
every run of unindexed keys it meets (`GapCoversRuns`), and because no INSERT splits
a gap somebody else has locked. So a one-way wait leads from an insert to one with a
strictly larger gap (`InsertWaits`), of finitely many gaps one is largest
(`LargestExists`), and its holder may insert or is in a two-way wait.
`NobodyGoesBack` adds that each request's own steps take it forward and nobody
else's take it back.

*Refinement* (`AttendanceRefinementProofs`). Under `IInv` each step is a step of
the ledger or invisible: statements stutter, 404 and 409 refuse, COMMIT records,
the mail job notifies, a rollback or crash fails. `Refinement` is
`Spec => LedgerSpec`.

*Accounts* (`AuthSessionsProofs`). A secret is written into the table only by the
request it is named after, and before that request is done. So a secret that a
request has replaced or cleared, and whose author was done by then, can never be
in the table again: `SpentTokens` says so of refresh tokens, passwords and reset
tokens, each from the write that retires it on. `SpentIsRefused` carries it over
to the later requests that show such a secret: none of them gets past its check.
`Origins` ties a column to the request it got its value from, `Bearers` a request
to the one it has its token from. For the refusals, `MailedIsCurrent` says that a
mailed token is the one in the table or has a rival that was not over when it was
asked for. `HandlerStep` sums up what a step of a handler does (`Framed`,
`Moves`, `Stores`); the lemma about each conjunct uses only that. `InsertRaces` adds
why an INSERT can fail on the unique index: who is in its way was not over when
this registration looked, or it would have been found.

*Employees* (`EmployeesProofs`). The properties speak of requests that followed
or overlapped, so `IInv` says what each request leaves behind for those that
follow: `ComesBackByOverlap` (after a removal the employee is there only if an
update overlapped it), `MissingWasRemoved` (an employee that was there and is not, a
request removed), and `HandHoldsRow` (an update not overlapped by any other
write has in its hands the row as it is, but for the columns it named).
`LaterHandsHold` does the same for the updates after one that succeeded, whose
columns they must not set back. The steps fall into arrivals, replies without a
write, the two reads, the writes and the deletions.

*Mail* (`MailQueueProofs`). A mail goes out twice only with a mishap because a
job without one is locked as long as a worker has it (`CalmIsLocked`), so no
second worker takes it, and it is not retried once it was accepted
(`CalmIsSentOnce`). `AttemptsAreRuns` bounds the attempts written by the runs
there were. `CreationsCounted` counts the workers at work on an account along
with the transporters there are; it is why Ethereal needs no more than one per
worker.

*Reads* (`ReadsProofs`). The moment that a report shows is the one at which the
attendances were read (`AttendancesWere`): the employees who were there all the
time are in the other query too, whenever it was made (`EmployeesSteady`), and a
row that was not there belongs to someone who left. For scans the invariant
counts: whoever has not been listed has, unless somebody newer was removed, so
many newer colleagues that they fill the pages asked for (`MissedAreBehind`), and
whoever has been listed has, unless somebody newer was inserted, too few of them
to be met again (`ListedAreBefore`). `PageOf` derives from the cardinalities which
page holds an employee, whatever order MySQL gives to rows of equal time;
`ScansListTheSteady` follows, because a scan ends when its pages hold the table.

*Health* (`HealthProofs`). While a check lasts, what is true of a dependency is
among what could be found out (`NowIsSeen`), and a client whose connection broke
under a ping was there when Redis went down (`LossIsSeen`); so what a check finds
out is of a moment of the check (`VerdictIsSeen`), and `GoodNews` and `BadNews`
carry it through the envelope and the exception filter into the response.
`ClientIInv` relates the client to the retry at which its ping is rejected, and
handlers only come to outcomes that are `Sound`. `CodesAreHttps` goes through the
filter's table status by status, against the one that `Wellformed` has; with them
`TypeCorrect` is proved, and `ClientsAreReleased`: a check that has its answer has no client left, whichever
of `connect`, `ping` and `quit` failed.

Only model-checked: the liveness properties, for fairness and ENABLED are out of the
prover's reach, and the four violations. Every invariant and every action property
that a run checks is proved. `WaitsDoEnd` is the part of `EveryRequestAnswered` that
is about safety (`MayGoOn` spells out when `Progress` is enabled), `NobodyGoesBack`
bounds the steps of a request, and what is left is that they are taken.

## What the properties leave open

Some hazards are what the code does and no document rules them out. The properties
then say how far they go, and `PROJECT.json` notes it at each: only overlapping
updates lose columns (`UpdatesStand`, `OnlyNamedColumnsChange`), but they do;
employees of the same `createdAt` may be missed by a scan (`Tied`); a reset that is
answered 200 was whole, but one that is answered 500 may leave the new password
with the old reset token and sessions; both workers may create a transporter, but
no more than one each; a listing behind UTC is one day early, but no more.

## Not modelled

* Report builders: layout of a document. DTO validation: decorators.
* Configuration, bootstrap and connection settings: read or wired once at start.
* `getProfile` reads one row. `RolesGuard` is defined and registered nowhere.
* The text, recipient and layout of mails, and logging.
* More than one API process; changes to summer time; a resend by the Redis client
  of `queue.add`; limits of the connection pool.

## Plan

1. Done: `Attendance`, `AttendanceLedger` and their refinement, `AuthSessions`,
   `Employees`, `Reads`, `MailQueue` and `Health`, all with proofs.
   Every safety property of the runs is a theorem.
2. Left: `Attendance` with `Employees` instead of `insertEmployee`, so that the two
   grains of the tables are related by a refinement.
