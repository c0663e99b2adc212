----------------------------- MODULE MailQueue -----------------------------
(***************************************************************************)
(* The mail queue from the job that MailQueueService adds to the message   *)
(* that MailDeliveryService hands to the SMTP server. MailProcessor has    *)
(* two named handlers, so Bull runs two workers in the process, each for   *)
(* jobs of either name. Bull keeps a job in Redis:                         *)
(*    none -> wait -> active -> completed                                  *)
(*                           -> delayed -> wait        a retry             *)
(*                           -> failed                                     *)
(* A worker holds a job's lock while it renews it; a job found active with *)
(* its lock gone has stalled, and is put back to wait, or failed if it has *)
(* done so too often. The lock bears the name of the queue instance, not   *)
(* of the worker: both workers of a process may use it.                    *)
(***************************************************************************)
EXTENDS Naturals, FiniteSets

CONSTANTS
    Job,        \* the jobs that attendance and auth add
    Worker,     \* the workers of the process
    Attempts,   \* option attempts of add
    MaxStalled, \* Bull's maxStalledCount, left at its default
    Modes,      \* the values of mail.transport under study
    NoJob,      \* a worker that has none
    Fragile,    \* the jobs for which a call to Redis may fail
    Faults      \* which of "smtp" and "crash" may happen

ASSUME BoundsAssumption == Attempts \in Nat \ {0} /\ MaxStalled \in Nat
ASSUME WorkerAssumption == IsFiniteSet(Worker)
ASSUME ModesAssumption == Modes \subseteq {"console", "smtp", "ethereal"}
ASSUME NoJobAssumption == NoJob \notin Job
ASSUME FaultsAssumption == Fragile \subseteq Job /\ Faults \subseteq {"smtp", "crash"}

State == {"none", "wait", "active", "delayed", "completed", "failed"}

\* The awaits of a worker: send, the creation of an Ethereal account, sendMail,
\* and Bull's scripts moveToCompleted and moveToFailed.
Pc == {"idle", "send", "account", "mail", "complete", "fail"}

VARIABLES
    state, attemptsMade, stalledCounter, locked,    \* Redis: the jobs
    pc, job,            \* the workers, and
    made,               \*   attemptsMade as they loaded it
    mode,               \* mail.transport, fixed when the process starts
    transporter,        \* whether MailDeliveryService has stored one
    creations,          \* history: transporters created since the start
    runs,               \* history: how often a job was taken, up to Attempts
    sent,               \* history: how often its mail was accepted, up to 2
    mishap              \* history: jobs some run of which was not acknowledged

jobs == <<state, attemptsMade, stalledCounter, locked>>
workers == <<pc, job, made>>
delivery == <<mode, transporter, creations>>
history == <<runs, sent, mishap>>
vars == <<jobs, workers, delivery, history>>

Init ==
    /\ state = [j \in Job |-> "none"]
    /\ attemptsMade = [j \in Job |-> 0]
    /\ stalledCounter = [j \in Job |-> 0]
    /\ locked = [j \in Job |-> FALSE]
    /\ pc = [w \in Worker |-> "idle"]
    /\ job = [w \in Worker |-> NoJob]
    /\ made = [w \in Worker |-> 0]
    /\ mode \in Modes
    /\ transporter = FALSE
    /\ creations = 0
    /\ runs = [j \in Job |-> 0]
    /\ sent = [j \in Job |-> 0]
    /\ mishap = {}

AtMost(bound, n) == IF n < bound THEN n ELSE bound

Ended(j) == state[j] \in {"completed", "failed"}
Busy(j) == \E w \in Worker : job[w] = j

-----------------------------------------------------------------------------
(* Jobs come, wait for their retry and stall.                              *)

\* enqueueResetPasswordEmail and enqueueAttendanceNotification.
add(j) ==
    /\ state[j] = "none"
    /\ state' = [state EXCEPT ![j] = "wait"]
    /\ UNCHANGED <<attemptsMade, stalledCounter, locked, workers, delivery, history>>

\* The back-off is over.
Promote(j) ==
    /\ state[j] = "delayed"
    /\ state' = [state EXCEPT ![j] = "wait"]
    /\ UNCHANGED <<attemptsMade, stalledCounter, locked, workers, delivery, history>>

Unlock(j) ==
    /\ locked[j]
    /\ locked' = [locked EXCEPT ![j] = FALSE]
    /\ UNCHANGED <<state, attemptsMade, stalledCounter, workers, delivery, runs, sent>>

\* Nobody is there to renew the lock: the process died, or Redis failed
\* moveToFailed.
LockExpires(j) == ~Busy(j) /\ Unlock(j) /\ UNCHANGED mishap

\* A renewal fails or comes too late for a worker that is still at it.
LockLost(j) == j \in Fragile /\ Busy(j) /\ Unlock(j) /\ mishap' = mishap \cup {j}

\* Fault variant: no limit to stalling.
Stalled_NoLimit(j) ==
    /\ state[j] = "active" /\ ~locked[j]
    /\ state' = [state EXCEPT ![j] = "wait"]
    /\ UNCHANGED <<attemptsMade, stalledCounter, locked, workers, delivery, history>>

\* Fault variant: the lock is not looked at.
Stalled_Locked(j) ==
    /\ state[j] = "active"
    /\ stalledCounter' = [stalledCounter EXCEPT ![j] = @ + 1]
    /\ state' = [state EXCEPT ![j] = IF stalledCounter[j] < MaxStalled THEN "wait" ELSE "failed"]
    /\ UNCHANGED <<attemptsMade, locked, workers, delivery, history>>

\* moveStalledJobsToWait
Stalled(j) ==
    /\ state[j] = "active" /\ ~locked[j]
    /\ stalledCounter' = [stalledCounter EXCEPT ![j] = @ + 1]
    /\ state' = [state EXCEPT ![j] = IF stalledCounter[j] < MaxStalled THEN "wait" ELSE "failed"]
    /\ UNCHANGED <<attemptsMade, locked, workers, delivery, history>>

-----------------------------------------------------------------------------
(* A worker takes a job and delivers its mail.                             *)

Goto(w, label) == pc' = [pc EXCEPT ![w] = label] /\ UNCHANGED <<job, made>>

take(w) ==
    /\ pc[w] = "idle"
    /\ \E j \in Job :
         /\ state[j] = "wait"
         /\ state' = [state EXCEPT ![j] = "active"]
         /\ locked' = [locked EXCEPT ![j] = TRUE]
         /\ job' = [job EXCEPT ![w] = j]
         /\ made' = [made EXCEPT ![w] = attemptsMade[j]]
         /\ runs' = [runs EXCEPT ![j] = AtMost(Attempts, @ + 1)]
    /\ pc' = [pc EXCEPT ![w] = "send"]
    /\ UNCHANGED <<attemptsMade, stalledCounter, delivery, sent, mishap>>

Accepted(j) == sent' = [sent EXCEPT ![j] = AtMost(2, @ + 1)]

StoreTransporter ==
    /\ transporter' = TRUE
    /\ creations' = creations + 1
    /\ UNCHANGED mode

\* Fault variant: the transporter stored before is not looked for.
HasTransporter_Never == FALSE

HasTransporter == transporter

\* send and getTransporter, up to the first await.
send(w) ==
    /\ pc[w] = "send"
    /\ \/ /\ mode = "console"
          /\ Accepted(job[w])
          /\ Goto(w, "complete")
          /\ UNCHANGED delivery
       \/ /\ mode # "console" /\ HasTransporter
          /\ Goto(w, "mail")
          /\ UNCHANGED <<delivery, sent>>
       \/ /\ mode = "smtp" /\ ~HasTransporter
          /\ StoreTransporter
          /\ Goto(w, "mail")
          /\ UNCHANGED sent
       \/ /\ mode = "ethereal" /\ ~HasTransporter
          /\ Goto(w, "account")
          /\ UNCHANGED <<delivery, sent>>
    /\ UNCHANGED <<jobs, runs, mishap>>

\* createTestAccount resolves, and the transporter of whoever was first is
\* overwritten; or it rejects, and so does send.
createTestAccount(w) ==
    /\ pc[w] = "account"
    /\ \/ StoreTransporter /\ Goto(w, "mail")
       \/ "smtp" \in Faults /\ Goto(w, "fail") /\ UNCHANGED delivery
    /\ UNCHANGED <<jobs, history>>

\* Fault variant: the promise of sendMail is not awaited, and its rejection lost.
sendMail_NotAwaited(w) ==
    /\ pc[w] = "mail"
    /\ \/ Accepted(job[w]) /\ Goto(w, "complete") /\ UNCHANGED mishap
       \/ "smtp" \in Faults /\ Goto(w, "complete") /\ UNCHANGED <<sent, mishap>>
    /\ UNCHANGED <<jobs, delivery, runs>>

\* The server accepts the message and says so, refuses it, or accepts it and
\* the connection is lost.
sendMail(w) ==
    /\ pc[w] = "mail"
    /\ \/ Accepted(job[w]) /\ Goto(w, "complete") /\ UNCHANGED mishap
       \/ "smtp" \in Faults /\ Goto(w, "fail") /\ UNCHANGED <<sent, mishap>>
       \/ /\ "smtp" \in Faults /\ Goto(w, "fail") /\ Accepted(job[w])
          /\ mishap' = mishap \cup {job[w]}
    /\ UNCHANGED <<jobs, delivery, runs>>

-----------------------------------------------------------------------------
(* Bull ends the run. Both scripts ask for the lock.                       *)

Rest(w) ==
    /\ pc' = [pc EXCEPT ![w] = "idle"]
    /\ job' = [job EXCEPT ![w] = NoJob]
    /\ made' = [made EXCEPT ![w] = 0]

\* Fault variant: a script that does not ask for the lock.
HoldsLock_Always(j) == TRUE

HoldsLock(j) == locked[j]

\* Fault variant: the lock stays.
Leave_Locked(j, s) ==
    /\ HoldsLock(j)
    /\ state' = [state EXCEPT ![j] = s]
    /\ UNCHANGED locked

\* The job leaves the list of active ones, with its lock.
Leave(j, s) ==
    /\ HoldsLock(j)
    /\ state' = [state EXCEPT ![j] = s]
    /\ locked' = [locked EXCEPT ![j] = FALSE]

Completed(j) == Leave(j, "completed") /\ UNCHANGED <<attemptsMade, stalledCounter>>

\* A missing lock or a Redis error sends a run that succeeded to moveToFailed.
moveToCompleted(w) ==
    LET j == job[w]
    IN  /\ pc[w] = "complete"
        /\ \/ Completed(j) /\ Rest(w) /\ UNCHANGED mishap
           \/ /\ ~HoldsLock(j)
              /\ Goto(w, "fail") /\ mishap' = mishap \cup {j}
              /\ UNCHANGED jobs
           \/ /\ j \in Fragile
              /\ Completed(j) \/ UNCHANGED jobs
              /\ Goto(w, "fail") /\ mishap' = mishap \cup {j}
        /\ UNCHANGED <<delivery, runs, sent>>

Retries(w) == made[w] + 1 < Attempts

\* One MULTI: the attempt is counted whether or not the lock is still there.
Failed(w) ==
    LET j == job[w]
    IN  /\ attemptsMade' = [attemptsMade EXCEPT ![j] = made[w] + 1]
        /\ \/ Leave(j, IF Retries(w) THEN "delayed" ELSE "failed")
           \/ ~HoldsLock(j) /\ UNCHANGED <<state, locked>>
        /\ UNCHANGED stalledCounter

moveToFailed(w) ==
    /\ pc[w] = "fail"
    /\ \/ Failed(w)
       \/ job[w] \in Fragile /\ UNCHANGED jobs
    /\ Rest(w)
    /\ UNCHANGED <<delivery, history>>

\* The process dies and is started again. Its locks stay until they expire.
Crash ==
    /\ "crash" \in Faults
    /\ \E w \in Worker : pc[w] # "idle"
    /\ pc' = [w \in Worker |-> "idle"]
    /\ job' = [w \in Worker |-> NoJob]
    /\ made' = [w \in Worker |-> 0]
    /\ transporter' = FALSE
    /\ creations' = 0
    /\ mishap' = mishap \cup {job[w] : w \in {v \in Worker : pc[v] = "complete"}}
    /\ UNCHANGED <<jobs, mode, runs, sent>>

Work(w) ==
    take(w) \/ send(w) \/ createTestAccount(w) \/ sendMail(w) \/ moveToCompleted(w) \/ moveToFailed(w)

Next ==
    \/ \E w \in Worker : Work(w)
    \/ \E j \in Job : add(j) \/ Promote(j) \/ LockExpires(j) \/ LockLost(j) \/ Stalled(j)
    \/ Crash

Spec == Init /\ [][Next]_vars

\* Bull's loops, its timers for delayed and stalled jobs and the expiry of a
\* key in Redis go on; a mail server answers or nodemailer times out.
FairSpec ==
    /\ Spec
    /\ \A w \in Worker : WF_vars(Work(w))
    /\ \A j \in Job : WF_vars(Promote(j)) /\ WF_vars(LockExpires(j)) /\ WF_vars(Stalled(j))

-----------------------------------------------------------------------------
(* Properties.                                                             *)

\* Types; a locked job is active, and a worker has a job as long as it is busy.
TypeOK ==
    /\ state \in [Job -> State]
    /\ attemptsMade \in [Job -> Nat]
    /\ stalledCounter \in [Job -> 0..(MaxStalled + 1)]
    /\ locked \in [Job -> BOOLEAN]
    /\ \A j \in Job : locked[j] => state[j] = "active"
    /\ pc \in [Worker -> Pc]
    /\ job \in [Worker -> Job \cup {NoJob}]
    /\ \A w \in Worker : pc[w] = "idle" <=> job[w] = NoJob
    /\ made \in [Worker -> Nat]
    /\ mode \in Modes
    /\ transporter \in BOOLEAN
    /\ creations \in Nat
    /\ runs \in [Job -> 0..Attempts]
    /\ sent \in [Job -> 0..2]
    /\ mishap \subseteq Job

\* A completed job's mail was accepted. A job is given up only after all its
\* attempts or after stalling too often.
EndsAreEarned ==
    \A j \in Job :
        /\ state[j] = "completed" => sent[j] >= 1
        /\ state[j] = "failed" => runs[j] = Attempts \/ stalledCounter[j] > MaxStalled

\* A mail goes out twice only if the acknowledgement of an earlier one got lost
\* on its way: from the mail server, to Redis, or with the job's lock.
DuplicatesHaveCause == \A j \in Job : sent[j] > 1 => j \in mishap

\* Concurrent jobs may each create a transporter and overwrite the others',
\* but every worker does it at most once in the life of the process, and with
\* SMTP only one of them does.
OneTransporterPerWorker ==
    creations <= CASE mode = "console" -> 0
                   [] mode = "smtp" -> 1
                   [] mode = "ethereal" -> Cardinality(Worker)

\* Whatever a late worker reports about it, an ended job is not run again.
EndedStaysEnded == [][\A j \in Job : Ended(j) => state'[j] = state[j]]_vars

\* Every job that is added ends, whatever fails.
EveryJobEnds == \A j \in Job : state[j] = "wait" ~> Ended(j)
=============================================================================
