--------------------------- MODULE MailQueueProofs ---------------------------
(***************************************************************************)
(* Safety of MailQueue for every number of jobs, workers and attempts,     *)
(* every transport and every subset of the faults.                         *)
(***************************************************************************)
EXTENDS MailQueue, FiniteSetTheorems, TLAPS

-----------------------------------------------------------------------------
(* The inductive invariant.                                                *)

\* Who has stalled too often is out.
GivenUp == \A j \in Job : stalledCounter[j] > MaxStalled => state[j] = "failed"

\* A run that is about to complete has sent its mail.
AboutToComplete == \A w \in Worker : pc[w] = "complete" => sent[job[w]] >= 1

\* No attempt is counted without a run of its own.
AttemptsAreRuns ==
    /\ \A j \in Job : runs[j] = Attempts \/ attemptsMade[j] <= runs[j]
    /\ \A w \in Worker : pc[w] # "idle" => runs[job[w]] = Attempts \/ made[w] < runs[job[w]]

\* Without a mishap the worker of a job is the only one and holds its lock.
CalmIsLocked ==
    \A j \in Job \ mishap, w \in Worker :
        job[w] = j => /\ locked[j]
                      /\ \A v \in Worker : job[v] = j => v = w

\* Without a mishap the run that has sent the mail is the last.
CalmIsSentOnce ==
    \A j \in Job \ mishap :
        sent[j] >= 1 => \/ state[j] = "completed"
                        \/ \E w \in Worker : job[w] = j /\ pc[w] = "complete"

\* The workers that are creating a transporter have not created one yet.
Creating == {w \in Worker : pc[w] = "account"}
CreationsCounted ==
    /\ ~transporter => creations = 0
    /\ mode # "ethereal" => Creating = {} /\ creations <= 1
    /\ mode = "console" => creations = 0
    /\ mode = "ethereal" => creations + Cardinality(Creating) <= Cardinality(Worker)

IInv ==
    /\ TypeOK
    /\ GivenUp
    /\ AboutToComplete
    /\ AttemptsAreRuns
    /\ CalmIsLocked
    /\ CalmIsSentOnce
    /\ CreationsCounted
    /\ EndsAreEarned
    /\ DuplicatesHaveCause

-----------------------------------------------------------------------------
(* Operators.                                                              *)

LEMMA Saturates ==
    ASSUME NEW bound \in Nat, NEW n \in Nat
    PROVE  AtMost(bound, n) \in 0..bound /\ (AtMost(bound, n) = n \/ AtMost(bound, n) = bound)
BY DEF AtMost

\* A busy worker has a job.
LEMMA BusyHasJob ==
    ASSUME TypeOK, NEW w \in Worker, pc[w] # "idle"
    PROVE  job[w] \in Job
BY DEF TypeOK

LEMMA InitIInv == Init => IInv
<1> SUFFICES ASSUME Init PROVE IInv
  OBVIOUS
<1>1. TypeOK
  <2>1. locked \in [Job -> BOOLEAN] /\ transporter \in BOOLEAN /\ \A j \in Job : ~locked[j]
    BY DEF Init
  <2>2. /\ stalledCounter \in [Job -> 0..(MaxStalled + 1)] /\ attemptsMade \in [Job -> Nat]
        /\ runs \in [Job -> 0..Attempts] /\ sent \in [Job -> 0..2]
        /\ made \in [Worker -> Nat] /\ creations \in Nat
    BY BoundsAssumption DEF Init
  <2>3. /\ state \in [Job -> State] /\ pc \in [Worker -> Pc] /\ job \in [Worker -> Job \cup {NoJob}]
        /\ \A w \in Worker : pc[w] = "idle" <=> job[w] = NoJob
        /\ mode \in Modes /\ mishap \subseteq Job
    BY NoJobAssumption DEF Init, State, Pc
  <2> QED
    BY <2>1, <2>2, <2>3 DEF TypeOK
<1>2. GivenUp /\ AboutToComplete /\ AttemptsAreRuns /\ CalmIsLocked /\ CalmIsSentOnce
  BY BoundsAssumption, NoJobAssumption DEF Init, GivenUp, AboutToComplete, AttemptsAreRuns, CalmIsLocked, CalmIsSentOnce
<1>3. CreationsCounted
  <2>1. Creating = {}
    BY DEF Init, Creating
  <2> QED
    BY <2>1, WorkerAssumption, FS_EmptySet, FS_CardinalityType DEF Init, CreationsCounted
<1>4. EndsAreEarned /\ DuplicatesHaveCause
  BY DEF Init, EndsAreEarned, DuplicatesHaveCause
<1> QED
  BY <1>1, <1>2, <1>3, <1>4 DEF IInv

-----------------------------------------------------------------------------
(* The steps.                                                              *)

\* Jobs come, wait for their retry and stall; the workers take no part in it.
LEMMA QueueStep ==
    ASSUME IInv, NEW j \in Job,
           add(j) \/ Promote(j) \/ LockExpires(j) \/ LockLost(j) \/ Stalled(j)
    PROVE  IInv'
<1> USE BoundsAssumption DEF IInv
<1>1. /\ pc' = pc /\ job' = job /\ made' = made /\ attemptsMade' = attemptsMade
      /\ mode' = mode /\ transporter' = transporter /\ creations' = creations
      /\ runs' = runs /\ sent' = sent
  BY DEF add, Promote, LockExpires, LockLost, Unlock, Stalled, workers, delivery, history
<1>2. \/ /\ state[j] \in {"none", "delayed"} /\ state' = [state EXCEPT ![j] = "wait"]
         /\ stalledCounter' = stalledCounter /\ locked' = locked /\ mishap' = mishap
      \/ /\ state' = state /\ stalledCounter' = stalledCounter
         /\ locked' = [locked EXCEPT ![j] = FALSE]
         /\ (~Busy(j) /\ mishap' = mishap) \/ mishap' = mishap \cup {j}
      \/ /\ state[j] = "active" /\ ~locked[j] /\ locked' = locked /\ mishap' = mishap
         /\ stalledCounter' = [stalledCounter EXCEPT ![j] = @ + 1]
         /\ state' = [state EXCEPT ![j] = IF stalledCounter[j] < MaxStalled THEN "wait" ELSE "failed"]
  BY DEF add, Promote, LockExpires, LockLost, Unlock, Stalled, history
<1>3. TypeOK'
  <2>1. locked' \in [Job -> BOOLEAN] /\ \A i \in Job : locked'[i] => locked[i]
    BY <1>2 DEF TypeOK
  <2>2. stalledCounter' \in [Job -> 0..(MaxStalled + 1)]
    <3>1. state[j] = "active" => stalledCounter[j] + 1 \in 0..(MaxStalled + 1)
      BY DEF GivenUp, TypeOK
    <3> QED
      BY <1>2, <3>1 DEF TypeOK
  <2>3. state' \in [Job -> State] /\ \A i \in Job : locked'[i] => state'[i] = "active"
    BY <1>2, <2>1 DEF TypeOK, State
  <2>4. mishap' \subseteq Job
    BY <1>2 DEF TypeOK
  <2> QED
    BY <1>1, <2>1, <2>2, <2>3, <2>4 DEF TypeOK
<1>4. GivenUp'
  BY <1>1, <1>2 DEF TypeOK, GivenUp
<1>5. AboutToComplete' /\ AttemptsAreRuns'
  BY <1>1 DEF AboutToComplete, AttemptsAreRuns
<1>6. CalmIsLocked'
  BY <1>1, <1>2 DEF TypeOK, CalmIsLocked, Busy
<1>7. CalmIsSentOnce'
  BY <1>1, <1>2 DEF TypeOK, CalmIsSentOnce
<1>8. CreationsCounted'
  BY <1>1 DEF CreationsCounted, Creating
<1>9. EndsAreEarned'
  BY <1>1, <1>2 DEF TypeOK, EndsAreEarned
<1>10. DuplicatesHaveCause'
  BY <1>1, <1>2 DEF DuplicatesHaveCause
<1> QED
  BY <1>3, <1>4, <1>5, <1>6, <1>7, <1>8, <1>9, <1>10

LEMMA TakeStep ==
    ASSUME IInv, NEW w \in Worker, take(w)
    PROVE  IInv'
<1> USE BoundsAssumption DEF IInv
<1>1. PICK j \in Job :
        /\ state[j] = "wait" /\ state' = [state EXCEPT ![j] = "active"]
        /\ locked' = [locked EXCEPT ![j] = TRUE] /\ job' = [job EXCEPT ![w] = j]
        /\ made' = [made EXCEPT ![w] = attemptsMade[j]]
        /\ runs' = [runs EXCEPT ![j] = AtMost(Attempts, @ + 1)]
  BY DEF take
<1>2. /\ pc[w] = "idle" /\ pc' = [pc EXCEPT ![w] = "send"]
      /\ attemptsMade' = attemptsMade /\ stalledCounter' = stalledCounter
      /\ mode' = mode /\ transporter' = transporter /\ creations' = creations
      /\ sent' = sent /\ mishap' = mishap
  BY DEF take, delivery
<1>3. runs[j] \in 0..Attempts /\ runs'[j] = AtMost(Attempts, runs[j] + 1)
  BY <1>1 DEF TypeOK
<1>4. runs'[j] \in 0..Attempts /\ (runs'[j] = runs[j] + 1 \/ runs'[j] = Attempts)
  BY <1>3, Saturates
<1>5. /\ ~locked[j] /\ job[w] = NoJob
      /\ \A i \in Job : i # j => runs'[i] = runs[i] /\ state'[i] = state[i] /\ locked'[i] = locked[i]
      /\ \A v \in Worker : v # w => pc'[v] = pc[v] /\ job'[v] = job[v] /\ made'[v] = made[v]
      /\ pc'[w] = "send" /\ job'[w] = j /\ made'[w] = attemptsMade[j]
      /\ state'[j] = "active" /\ locked'[j]
  BY <1>1, <1>2 DEF TypeOK
<1>6. TypeOK'
  BY <1>1, <1>2, <1>4, <1>5, NoJobAssumption DEF TypeOK, State, Pc
<1>7. GivenUp' /\ AboutToComplete'
  BY <1>1, <1>2, <1>5 DEF GivenUp, AboutToComplete
<1>8. AttemptsAreRuns'
  <2>1. \A i \in Job : runs'[i] = Attempts \/ attemptsMade'[i] <= runs'[i]
    BY <1>2, <1>3, <1>4, <1>5 DEF AttemptsAreRuns, TypeOK
  <2>2. ASSUME NEW v \in Worker, pc'[v] # "idle"
        PROVE  runs'[job'[v]] = Attempts \/ made'[v] < runs'[job'[v]]
    <3>1. CASE v = w
      BY <1>3, <1>4, <1>5, <3>1 DEF AttemptsAreRuns, TypeOK
    <3>2. CASE v # w
      <4>1. job[v] \in Job /\ (runs[job[v]] = Attempts \/ made[v] < runs[job[v]])
        BY <1>5, <2>2, <3>2, BusyHasJob DEF AttemptsAreRuns
      <4>2. made[v] \in Nat /\ runs[job[v]] \in 0..Attempts
        BY <4>1 DEF TypeOK
      <4>3. runs'[job[v]] = Attempts \/ runs'[job[v]] >= runs[job[v]]
        BY <1>3, <1>4, <1>5, <4>1, <4>2
      <4>4. runs'[job[v]] \in 0..Attempts
        BY <4>1, <1>6 DEF TypeOK
      <4> QED
        BY <1>5, <3>2, <4>1, <4>2, <4>3, <4>4
    <3> QED
      BY <3>1, <3>2
  <2> QED
    BY <2>1, <2>2 DEF AttemptsAreRuns
<1>9. CalmIsLocked'
  BY <1>2, <1>5 DEF CalmIsLocked
<1>10. CalmIsSentOnce'
  BY <1>1, <1>2, <1>5 DEF CalmIsSentOnce
<1>11. CreationsCounted'
  <2>1. Creating' = Creating
    BY <1>2, <1>5 DEF Creating
  <2> QED
    BY <1>2, <2>1 DEF CreationsCounted
<1>12. EndsAreEarned'
  BY <1>1, <1>2, <1>5 DEF EndsAreEarned
<1>13. DuplicatesHaveCause'
  BY <1>2 DEF DuplicatesHaveCause
<1> QED
  BY <1>6, <1>7, <1>8, <1>9, <1>10, <1>11, <1>12, <1>13

\* What a worker does between taking and ending its job, given how creations
\* and the mail it sends are counted.
LEMMA DeliveryStep ==
    ASSUME IInv, NEW w \in Worker, NEW label \in Pc \ {"idle"},
           pc[w] \in {"send", "account", "mail"}, Goto(w, label), UNCHANGED <<jobs, mode, runs>>,
           \/ label # "complete" /\ UNCHANGED <<sent, mishap>>
           \/ label # "complete" /\ Accepted(job[w]) /\ mishap' = mishap \cup {job[w]}
           \/ label = "complete" /\ Accepted(job[w]) /\ UNCHANGED mishap,
           transporter' \in BOOLEAN, creations' \in Nat, CreationsCounted'
    PROVE  IInv'
<1> USE BoundsAssumption DEF IInv
<1>1. /\ pc' = [pc EXCEPT ![w] = label] /\ job' = job /\ made' = made
      /\ state' = state /\ attemptsMade' = attemptsMade /\ stalledCounter' = stalledCounter
      /\ locked' = locked /\ mode' = mode /\ runs' = runs
  BY DEF Goto, jobs
<1>2. job[w] \in Job
  BY BusyHasJob
<1>3. \A v \in Worker : v # w => pc'[v] = pc[v]
  BY <1>1 DEF TypeOK
<1>4. pc'[w] = label
  BY <1>1 DEF TypeOK
<1>5. /\ \A j \in Job : sent'[j] \in 0..2 /\ sent'[j] >= sent[j]
      /\ \A j \in Job : j # job[w] => sent'[j] = sent[j]
      /\ sent'[job[w]] = sent[job[w]] \/ sent'[job[w]] = sent[job[w]] + 1
      /\ label = "complete" => sent'[job[w]] >= 1
      /\ sent' \in [Job -> 0..2]
  BY <1>2 DEF Accepted, AtMost, TypeOK
<1>6. mishap \subseteq mishap' /\ mishap' \subseteq Job
  BY <1>2 DEF TypeOK
<1>7. label # "complete" /\ job[w] \notin mishap' => sent' = sent
  OBVIOUS
<1>8. TypeOK'
  BY <1>1, <1>2, <1>5, <1>6 DEF TypeOK, Pc
<1>9. GivenUp' /\ AttemptsAreRuns' /\ CalmIsLocked'
  BY <1>1, <1>3, <1>6 DEF GivenUp, AttemptsAreRuns, CalmIsLocked
<1>10. AboutToComplete'
  <2> SUFFICES ASSUME NEW v \in Worker, pc'[v] = "complete" PROVE sent'[job[v]] >= 1
    BY <1>1 DEF AboutToComplete
  <2>1. CASE v = w
    BY <1>4, <1>5, <2>1
  <2>2. CASE v # w
    <3>1. pc[v] = "complete"
      BY <1>3, <2>2
    <3>2. sent[job[v]] >= 1 /\ job[v] \in Job
      BY <3>1, BusyHasJob DEF AboutToComplete
    <3> QED
      BY <1>5, <3>2 DEF TypeOK
  <2> QED
    BY <2>1, <2>2
<1>11. \A j \in Job \ mishap' : j = job[w] => sent[j] = 0
  <2> SUFFICES ASSUME job[w] \notin mishap', sent[job[w]] # 0 PROVE FALSE
    OBVIOUS
  <2>1. sent[job[w]] >= 1 /\ job[w] \in Job \ mishap
    BY <1>2, <1>6 DEF TypeOK
  <2>2. locked[job[w]] /\ \A v \in Worker : job[v] = job[w] => v = w
    BY <2>1 DEF CalmIsLocked
  <2>3. state[job[w]] = "active"
    BY <1>2, <2>2 DEF TypeOK
  <2> QED
    BY <2>1, <2>2, <2>3 DEF CalmIsSentOnce
<1>12. CalmIsSentOnce'
  <2> SUFFICES ASSUME NEW j \in Job, j \notin mishap', sent'[j] >= 1
               PROVE  state[j] = "completed" \/ \E v \in Worker : job[v] = j /\ pc'[v] = "complete"
    BY <1>1 DEF CalmIsSentOnce
  <2>1. CASE j = job[w]
    BY <1>4, <1>7, <1>11, <2>1
  <2>2. CASE j # job[w]
    BY <1>3, <1>5, <1>6, <2>2 DEF CalmIsSentOnce
  <2> QED
    BY <2>1, <2>2
<1>13. EndsAreEarned'
  BY <1>1, <1>5 DEF EndsAreEarned, TypeOK
<1>14. DuplicatesHaveCause'
  BY <1>5, <1>6, <1>11 DEF DuplicatesHaveCause, TypeOK
<1> QED
  BY <1>8, <1>9, <1>10, <1>12, <1>13, <1>14

\* Creating is finite and loses, or wins, the worker that leaves, or enters, it.
LEMMA CreatingChanges ==
    ASSUME TypeOK, NEW w \in Worker, NEW label \in Pc, pc' = [pc EXCEPT ![w] = label]
    PROVE  /\ IsFiniteSet(Creating) /\ Cardinality(Creating) \in Nat
           /\ Cardinality(Creating) <= Cardinality(Worker) /\ Cardinality(Worker) \in Nat
           /\ IsFiniteSet(Creating') /\ Cardinality(Creating') \in Nat
           /\ Cardinality(Creating') <= Cardinality(Worker)
           /\ pc[w] # "account" /\ label # "account" => Creating' = Creating
           /\ pc[w] = "account" /\ label # "account" => Cardinality(Creating') = Cardinality(Creating) - 1
<1>1. Creating \subseteq Worker /\ Creating' \subseteq Worker
  BY DEF Creating
<1>2. /\ IsFiniteSet(Creating) /\ Cardinality(Creating) <= Cardinality(Worker)
      /\ IsFiniteSet(Creating') /\ Cardinality(Creating') <= Cardinality(Worker)
  BY <1>1, WorkerAssumption, FS_Subset
<1>3. Cardinality(Creating) \in Nat /\ Cardinality(Creating') \in Nat /\ Cardinality(Worker) \in Nat
  BY <1>2, WorkerAssumption, FS_CardinalityType
<1>4. pc[w] # "account" /\ label # "account" => Creating' = Creating
  BY DEF Creating, TypeOK
<1>5. ASSUME pc[w] = "account", label # "account"
      PROVE  Cardinality(Creating') = Cardinality(Creating) - 1
  <2>1. w \in Creating /\ Creating' = Creating \ {w}
    BY <1>5 DEF Creating, TypeOK
  <2> QED
    BY <1>2, <2>1, FS_RemoveElement
<1> QED
  BY <1>2, <1>3, <1>4, <1>5

LEMMA SendStep ==
    ASSUME IInv, NEW w \in Worker, send(w)
    PROVE  IInv'
<1> USE DEF IInv
<1>1. pc[w] = "send" /\ UNCHANGED <<jobs, mode, runs>> /\ mishap' = mishap
  BY DEF send, delivery, StoreTransporter
<1>2. CASE mode = "console"
  <2>1. Goto(w, "complete") /\ Accepted(job[w]) /\ UNCHANGED delivery
    BY <1>2 DEF send
  <2>2. CreationsCounted'
    BY <1>1, <1>2, <2>1, CreatingChanges DEF CreationsCounted, Goto, Pc, delivery
  <2> QED
    BY <1>1, <2>1, <2>2, DeliveryStep DEF Pc, delivery, TypeOK
<1>3. CASE mode # "console" /\ transporter
  <2>1. Goto(w, "mail") /\ UNCHANGED delivery /\ sent' = sent
    BY <1>3 DEF send, HasTransporter
  <2>2. CreationsCounted'
    BY <1>1, <1>3, <2>1, CreatingChanges DEF CreationsCounted, Goto, Pc, delivery
  <2> QED
    BY <1>1, <2>1, <2>2, DeliveryStep DEF Pc, delivery, TypeOK
<1>4. CASE mode = "smtp" /\ ~transporter
  <2>1. Goto(w, "mail") /\ StoreTransporter /\ sent' = sent
    BY <1>4 DEF send, HasTransporter
  <2>2. transporter' = TRUE /\ creations' = 1 /\ creations' \in Nat /\ mode' = mode
    BY <1>4, <2>1 DEF CreationsCounted, StoreTransporter
  <2>3. CreationsCounted'
    <3>1. Creating' = Creating
      BY <1>1, <2>1, CreatingChanges DEF Goto, Pc
    <3>2. Creating' = {} /\ mode' = "smtp" /\ creations' <= 1
      BY <1>4, <2>2, <3>1 DEF CreationsCounted
    <3> QED
      BY <2>2, <3>2 DEF CreationsCounted
  <2>4. transporter' \in BOOLEAN /\ creations' \in Nat /\ sent' = sent /\ mishap' = mishap
    BY <1>1, <2>1, <2>2
  <2> QED
    BY <1>1, <2>1, <2>3, <2>4, DeliveryStep DEF Pc
<1>5. CASE mode = "ethereal" /\ ~transporter
  <2>1. Goto(w, "account") /\ UNCHANGED delivery /\ sent' = sent
    BY <1>5 DEF send, HasTransporter
  <2>2. /\ creations' = 0 /\ ~transporter' /\ mode' = "ethereal"
    BY <1>5, <2>1 DEF CreationsCounted, delivery
  <2>3. Cardinality(Creating') <= Cardinality(Worker) /\ Cardinality(Creating') \in Nat
    BY <1>1, <2>1, CreatingChanges DEF Goto, Pc
  <2>4. CreationsCounted'
    BY <2>2, <2>3 DEF CreationsCounted
  <2> QED
    BY <1>1, <2>1, <2>4, DeliveryStep DEF Pc, delivery, TypeOK
<1> QED
  BY <1>2, <1>3, <1>4, <1>5 DEF send, HasTransporter

LEMMA AccountStep ==
    ASSUME IInv, NEW w \in Worker, createTestAccount(w)
    PROVE  IInv'
<1> USE DEF IInv
<1>1. /\ pc[w] = "account" /\ UNCHANGED <<jobs, runs>> /\ sent' = sent /\ mishap' = mishap
      /\ mode = "ethereal"
  <2>1. pc[w] = "account" /\ UNCHANGED <<jobs, runs>> /\ sent' = sent /\ mishap' = mishap
    BY DEF createTestAccount, history
  <2>2. w \in Creating
    BY <2>1 DEF Creating
  <2> QED
    BY <2>1, <2>2 DEF CreationsCounted
<1>2. CASE StoreTransporter /\ Goto(w, "mail")
  <2>1. transporter' = TRUE /\ creations' = creations + 1 /\ mode' = mode /\ creations' \in Nat
    BY <1>2 DEF StoreTransporter, TypeOK
  <2>2. /\ Cardinality(Creating') = Cardinality(Creating) - 1
        /\ Cardinality(Creating) \in Nat /\ Cardinality(Worker) \in Nat
    BY <1>1, <1>2, CreatingChanges DEF Goto, Pc
  <2>3. CreationsCounted'
    BY <1>1, <2>1, <2>2 DEF CreationsCounted, TypeOK
  <2> QED
    BY <1>1, <1>2, <2>1, <2>3, DeliveryStep DEF Pc
<1>3. CASE Goto(w, "fail") /\ UNCHANGED delivery
  <2>1. /\ Cardinality(Creating') = Cardinality(Creating) - 1
        /\ Cardinality(Creating) \in Nat /\ Cardinality(Worker) \in Nat
    BY <1>1, <1>3, CreatingChanges DEF Goto, Pc
  <2>2. CreationsCounted'
    BY <1>1, <1>3, <2>1 DEF CreationsCounted, delivery, TypeOK
  <2> QED
    BY <1>1, <1>3, <2>2, DeliveryStep DEF Pc, delivery, TypeOK
<1> QED
  BY <1>2, <1>3 DEF createTestAccount

LEMMA MailStep ==
    ASSUME IInv, NEW w \in Worker, sendMail(w)
    PROVE  IInv'
<1> USE DEF IInv
<1>1. pc[w] = "mail" /\ UNCHANGED <<jobs, mode, runs>> /\ UNCHANGED delivery
  BY DEF sendMail, delivery
<1>2. PICK label \in {"complete", "fail"} :
        /\ Goto(w, label)
        /\ \/ label # "complete" /\ UNCHANGED <<sent, mishap>>
           \/ label # "complete" /\ Accepted(job[w]) /\ mishap' = mishap \cup {job[w]}
           \/ label = "complete" /\ Accepted(job[w]) /\ UNCHANGED mishap
  BY DEF sendMail
<1>3. CreationsCounted'
  BY <1>1, <1>2, CreatingChanges DEF CreationsCounted, Goto, Pc, delivery
<1> QED
  BY <1>1, <1>2, <1>3, DeliveryStep DEF Pc, delivery, TypeOK

\* A worker ends its job or loses it, however many attempts Redis now counts.
LEMMA RestStep ==
    ASSUME IInv, NEW w \in Worker, pc[w] # "idle", Rest(w),
           UNCHANGED <<stalledCounter, delivery, runs, sent>>,
           \/ UNCHANGED attemptsMade
           \/ attemptsMade' = [attemptsMade EXCEPT ![job[w]] = made[w] + 1],
           \/ UNCHANGED <<state, locked>>
           \/ \E s \in {"completed", "delayed", "failed"} :
                 /\ locked[job[w]] /\ state' = [state EXCEPT ![job[w]] = s]
                 /\ locked' = [locked EXCEPT ![job[w]] = FALSE]
                 /\ s = "completed" => pc[w] = "complete"
                 /\ s = "failed" => made[w] + 1 >= Attempts,
           \/ UNCHANGED mishap
           \/ mishap' = mishap \cup {job[w]},
           pc[w] = "complete" => \/ job[w] \in mishap'
                                 \/ state'[job[w]] = "completed"
    PROVE  IInv'
<1> USE BoundsAssumption DEF IInv
<1> DEFINE j == job[w]
<1>1. /\ pc' = [pc EXCEPT ![w] = "idle"] /\ job' = [job EXCEPT ![w] = NoJob]
      /\ made' = [made EXCEPT ![w] = 0]
      /\ stalledCounter' = stalledCounter /\ runs' = runs /\ sent' = sent
      /\ mode' = mode /\ transporter' = transporter /\ creations' = creations
  BY DEF Rest, delivery
<1>2. /\ j \in Job /\ pc'[w] = "idle" /\ job'[w] = NoJob /\ made'[w] = 0
      /\ \A v \in Worker : v # w => pc'[v] = pc[v] /\ job'[v] = job[v] /\ made'[v] = made[v]
  BY <1>1, BusyHasJob DEF TypeOK
<1>3. made[w] \in Nat /\ runs[j] \in 0..Attempts /\ (runs[j] = Attempts \/ made[w] < runs[j])
  BY <1>2 DEF AttemptsAreRuns, TypeOK
<1>4. /\ \A i \in Job : i # j => state'[i] = state[i] /\ locked'[i] = locked[i] /\ attemptsMade'[i] = attemptsMade[i]
      /\ attemptsMade'[j] = attemptsMade[j] \/ attemptsMade'[j] = made[w] + 1
      /\ \/ state'[j] = state[j] /\ locked'[j] = locked[j]
         \/ /\ locked[j] /\ ~locked'[j] /\ state'[j] \in {"completed", "delayed", "failed"}
            /\ state'[j] = "completed" => pc[w] = "complete"
            /\ state'[j] = "failed" => made[w] + 1 >= Attempts
      /\ mishap \subseteq mishap' /\ mishap' \subseteq Job
  BY <1>2 DEF TypeOK
<1>5. TypeOK'
  <2>1. locked' \in [Job -> BOOLEAN]
    BY <1>2 DEF TypeOK
  <2>2. state' \in [Job -> State]
    BY <1>2 DEF TypeOK, State
  <2>3. attemptsMade' \in [Job -> Nat] /\ made' \in [Worker -> Nat]
    BY <1>1, <1>2, <1>3 DEF TypeOK
  <2>4. pc' \in [Worker -> Pc] /\ job' \in [Worker -> Job \cup {NoJob}]
    BY <1>1 DEF TypeOK, Pc
  <2>5. \A v \in Worker : pc'[v] = "idle" <=> job'[v] = NoJob
    BY <1>2 DEF TypeOK
  <2>6. \A i \in Job : locked'[i] => state'[i] = "active"
    BY <1>4 DEF TypeOK
  <2> QED
    BY <1>1, <1>4, <2>1, <2>2, <2>3, <2>4, <2>5, <2>6 DEF TypeOK
<1>6. GivenUp'
  <2>1. locked[j] => state[j] = "active"
    BY <1>2 DEF TypeOK
  <2> QED
    BY <1>1, <1>4, <2>1 DEF GivenUp
<1>7. AboutToComplete'
  BY <1>1, <1>2 DEF AboutToComplete
<1>8. AttemptsAreRuns'
  BY <1>1, <1>2, <1>3, <1>4 DEF AttemptsAreRuns, TypeOK
<1>9. CalmIsLocked'
  <2> SUFFICES ASSUME NEW i \in Job, i \notin mishap', NEW v \in Worker, job'[v] = i
               PROVE  locked'[i] /\ \A u \in Worker : job'[u] = i => u = v
    BY DEF CalmIsLocked
  <2>1. v # w /\ job[v] = i /\ i \notin mishap
    BY <1>2, <1>4, NoJobAssumption
  <2>2. locked[i] /\ \A u \in Worker : job[u] = i => u = v
    BY <2>1 DEF CalmIsLocked
  <2>3. i # j
    BY <2>1, <2>2
  <2> QED
    BY <1>2, <1>4, <2>2, <2>3, NoJobAssumption
<1>10. CalmIsSentOnce'
  <2> SUFFICES ASSUME NEW i \in Job, i \notin mishap', sent[i] >= 1
               PROVE  state'[i] = "completed" \/ \E v \in Worker : job'[v] = i /\ pc'[v] = "complete"
    BY <1>1 DEF CalmIsSentOnce
  <2>1. state[i] = "completed" \/ \E v \in Worker : job[v] = i /\ pc[v] = "complete"
    BY <1>4 DEF CalmIsSentOnce
  <2>2. state[i] = "completed" => state'[i] = "completed"
    BY <1>2, <1>4 DEF TypeOK
  <2>3. CASE pc[w] = "complete" /\ i = j
    BY <2>3
  <2>4. CASE \E v \in Worker : v # w /\ job[v] = i /\ pc[v] = "complete"
    BY <1>2, <2>4
  <2> QED
    BY <2>1, <2>2, <2>3, <2>4
<1>11. CreationsCounted'
  <2>1. /\ Creating' \subseteq Creating
        /\ Cardinality(Creating) \in Nat /\ Cardinality(Creating') \in Nat /\ Cardinality(Worker) \in Nat
        /\ Cardinality(Creating') = Cardinality(Creating) \/ Cardinality(Creating') = Cardinality(Creating) - 1
    BY <1>1, <1>2, CreatingChanges DEF Creating, Pc
  <2> QED
    BY <1>1, <2>1 DEF CreationsCounted, TypeOK
<1>12. EndsAreEarned'
  <2>1. pc[w] = "complete" => sent[j] >= 1
    BY DEF AboutToComplete
  <2> QED
    BY <1>1, <1>3, <1>4, <2>1 DEF EndsAreEarned
<1>13. DuplicatesHaveCause'
  BY <1>1, <1>4 DEF DuplicatesHaveCause
<1> QED
  BY <1>5, <1>6, <1>7, <1>8, <1>9, <1>10, <1>11, <1>12, <1>13

\* A worker that has sent its mail cannot tell Redis, or not be told that it has.
LEMMA FailingStep ==
    ASSUME IInv, NEW w \in Worker, pc[w] = "complete", Goto(w, "fail"),
           mishap' = mishap \cup {job[w]}, UNCHANGED jobs \/ Completed(job[w]),
           UNCHANGED <<delivery, runs, sent>>
    PROVE  IInv'
<1> USE BoundsAssumption DEF IInv
<1> DEFINE j == job[w]
<1>1. /\ pc' = [pc EXCEPT ![w] = "fail"] /\ job' = job /\ made' = made
      /\ attemptsMade' = attemptsMade /\ stalledCounter' = stalledCounter /\ runs' = runs /\ sent' = sent
      /\ mode' = mode /\ transporter' = transporter /\ creations' = creations
  BY DEF Goto, jobs, Completed, delivery
<1>2. /\ j \in Job /\ pc'[w] = "fail" /\ sent[j] >= 1
      /\ \A v \in Worker : v # w => pc'[v] = pc[v]
  BY <1>1, BusyHasJob DEF TypeOK, AboutToComplete
<1>3. \/ state' = state /\ locked' = locked
      \/ /\ locked[j] /\ state' = [state EXCEPT ![j] = "completed"]
         /\ locked' = [locked EXCEPT ![j] = FALSE]
  BY DEF jobs, Completed, Leave, HoldsLock
<1>4. /\ \A i \in Job : i # j => state'[i] = state[i] /\ locked'[i] = locked[i]
      /\ \/ state'[j] = state[j] /\ locked'[j] = locked[j]
         \/ locked[j] /\ ~locked'[j] /\ state'[j] = "completed"
  BY <1>2, <1>3 DEF TypeOK
<1>5. TypeOK'
  <2>1. locked' \in [Job -> BOOLEAN]
    BY <1>2, <1>3 DEF TypeOK
  <2>2. state' \in [Job -> State]
    BY <1>2, <1>3 DEF TypeOK, State
  <2>3. pc' \in [Worker -> Pc]
    BY <1>1 DEF TypeOK, Pc
  <2>4. \A v \in Worker : pc'[v] = "idle" <=> job'[v] = NoJob
    BY <1>1, <1>2, NoJobAssumption DEF TypeOK
  <2>5. \A i \in Job : locked'[i] => state'[i] = "active"
    BY <1>4 DEF TypeOK
  <2>6. mishap' \subseteq Job
    BY <1>2 DEF TypeOK
  <2> QED
    BY <1>1, <2>1, <2>2, <2>3, <2>4, <2>5, <2>6 DEF TypeOK
<1>6. GivenUp'
  BY <1>1, <1>2, <1>4 DEF GivenUp, TypeOK
<1>7. AboutToComplete' /\ AttemptsAreRuns'
  BY <1>1, <1>2 DEF AboutToComplete, AttemptsAreRuns
<1>8. CalmIsLocked'
  BY <1>1, <1>4 DEF CalmIsLocked
<1>9. CalmIsSentOnce'
  BY <1>1, <1>2, <1>4 DEF CalmIsSentOnce
<1>10. CreationsCounted'
  <2>1. Creating' = Creating
    BY <1>1, CreatingChanges DEF Pc
  <2> QED
    BY <1>1, <2>1 DEF CreationsCounted
<1>11. EndsAreEarned' /\ DuplicatesHaveCause'
  BY <1>1, <1>2, <1>4 DEF EndsAreEarned, DuplicatesHaveCause
<1> QED
  BY <1>5, <1>6, <1>7, <1>8, <1>9, <1>10, <1>11

LEMMA CompletedStep ==
    ASSUME IInv, NEW w \in Worker, moveToCompleted(w)
    PROVE  IInv'
<1> USE DEF IInv
<1>1. pc[w] = "complete" /\ UNCHANGED <<delivery, runs, sent>> /\ job[w] \in Job
  BY BusyHasJob DEF moveToCompleted
<1>2. CASE Completed(job[w]) /\ Rest(w) /\ UNCHANGED mishap
  <2>1. /\ locked[job[w]] /\ state' = [state EXCEPT ![job[w]] = "completed"]
        /\ locked' = [locked EXCEPT ![job[w]] = FALSE]
        /\ attemptsMade' = attemptsMade /\ stalledCounter' = stalledCounter
    BY <1>2 DEF Completed, Leave, HoldsLock
  <2>2. state'[job[w]] = "completed"
    BY <1>1, <2>1 DEF TypeOK
  <2> QED
    BY <1>1, <1>2, <2>1, <2>2, RestStep
<1>3. CASE Goto(w, "fail") /\ mishap' = mishap \cup {job[w]} /\ (UNCHANGED jobs \/ Completed(job[w]))
  BY <1>1, <1>3, FailingStep
<1> QED
  BY <1>2, <1>3 DEF moveToCompleted

LEMMA FailedStep ==
    ASSUME IInv, NEW w \in Worker, moveToFailed(w)
    PROVE  IInv'
<1> USE DEF IInv
<1>1. /\ pc[w] = "fail" /\ Rest(w) /\ UNCHANGED <<delivery, runs, sent>> /\ mishap' = mishap
  BY DEF moveToFailed, history
<1>2. CASE UNCHANGED jobs
  BY <1>1, <1>2, RestStep DEF jobs
<1>3. CASE Failed(w)
  <2>1. made[w] \in Nat
    BY DEF TypeOK
  <2>2. /\ attemptsMade' = [attemptsMade EXCEPT ![job[w]] = made[w] + 1]
        /\ stalledCounter' = stalledCounter
        /\ \/ UNCHANGED <<state, locked>>
           \/ \E s \in {"delayed", "failed"} :
                 /\ locked[job[w]] /\ state' = [state EXCEPT ![job[w]] = s]
                 /\ locked' = [locked EXCEPT ![job[w]] = FALSE]
                 /\ s = "failed" => made[w] + 1 >= Attempts
    BY <1>3, <2>1, BoundsAssumption DEF Failed, Leave, HoldsLock, Retries
  <2> QED
    BY <1>1, <2>2, RestStep
<1> QED
  BY <1>2, <1>3 DEF moveToFailed

LEMMA CrashStep == IInv /\ Crash => IInv'
<1> SUFFICES ASSUME IInv, Crash PROVE IInv'
  OBVIOUS
<1> USE DEF IInv
<1>1. /\ state' = state /\ attemptsMade' = attemptsMade /\ stalledCounter' = stalledCounter
      /\ locked' = locked /\ mode' = mode /\ runs' = runs /\ sent' = sent
      /\ creations' = 0 /\ transporter' = FALSE
      /\ mishap' = mishap \cup {job[w] : w \in {v \in Worker : pc[v] = "complete"}}
  BY DEF Crash, jobs
<1>2. /\ pc' = [w \in Worker |-> "idle"] /\ job' = [w \in Worker |-> NoJob]
      /\ made' = [w \in Worker |-> 0]
  BY DEF Crash
<1>3. \A w \in Worker : pc'[w] = "idle" /\ job'[w] = NoJob /\ made'[w] = 0
  BY <1>2
<1>4. TypeOK'
  <2>1. pc' \in [Worker -> Pc] /\ job' \in [Worker -> Job \cup {NoJob}] /\ made' \in [Worker -> Nat]
    BY <1>2 DEF Pc
  <2>2. mishap' \subseteq Job
    BY <1>1, BusyHasJob DEF TypeOK
  <2>3. transporter' \in BOOLEAN
    BY <1>1
  <2> QED
    BY <1>1, <1>3, <2>1, <2>2, <2>3 DEF TypeOK
<1>5. GivenUp' /\ AboutToComplete' /\ AttemptsAreRuns'
  BY <1>1, <1>3 DEF GivenUp, AboutToComplete, AttemptsAreRuns
<1>6. CalmIsLocked'
  BY <1>3, NoJobAssumption DEF CalmIsLocked
<1>7. CalmIsSentOnce'
  BY <1>1 DEF CalmIsSentOnce
<1>8. CreationsCounted'
  <2>1. Creating' = {}
    BY <1>3 DEF Creating
  <2>2. Cardinality(Creating') = 0 /\ Cardinality(Worker) \in Nat
    BY <2>1, WorkerAssumption, FS_EmptySet, FS_CardinalityType
  <2> QED
    BY <1>1, <2>1, <2>2 DEF CreationsCounted
<1>9. EndsAreEarned' /\ DuplicatesHaveCause'
  BY <1>1 DEF EndsAreEarned, DuplicatesHaveCause
<1> QED
  BY <1>4, <1>5, <1>6, <1>7, <1>8, <1>9

LEMMA NextIInv == IInv /\ [Next]_vars => IInv'
<1> SUFFICES ASSUME IInv, [Next]_vars PROVE IInv'
  OBVIOUS
<1>1. ASSUME NEW w \in Worker, Work(w) PROVE IInv'
  BY <1>1, TakeStep, SendStep, AccountStep, MailStep, CompletedStep, FailedStep DEF Work
<1>2. ASSUME NEW j \in Job, add(j) \/ Promote(j) \/ LockExpires(j) \/ LockLost(j) \/ Stalled(j)
      PROVE  IInv'
  BY <1>2, QueueStep
<1>3. CASE Crash
  BY <1>3, CrashStep
<1>4. CASE UNCHANGED vars
  <2>1. /\ UNCHANGED <<state, attemptsMade, stalledCounter, locked, pc, job, made>>
        /\ UNCHANGED <<mode, transporter, creations, runs, sent, mishap>>
    BY <1>4 DEF vars, jobs, workers, delivery, history
  <2> QED
    BY <2>1 DEF IInv, TypeOK, GivenUp, AboutToComplete, AttemptsAreRuns, CalmIsLocked, CalmIsSentOnce,
                CreationsCounted, Creating, EndsAreEarned, DuplicatesHaveCause
<1> QED
  BY <1>1, <1>2, <1>3, <1>4 DEF Next

-----------------------------------------------------------------------------
(* The theorems.                                                           *)

\* The inductive invariant holds of every execution of the queue, whatever
\* fails and whether or not anything is fair.
THEOREM Invariance == Spec => []IInv
<1> QED
  BY InitIInv, NextIInv, PTL DEF Spec

\* The jobs in Redis and the workers keep their types, and only an active job
\* is locked.
THEOREM TypeCorrect == Spec => []TypeOK
<1>1. IInv => TypeOK
  BY DEF IInv
<1> QED
  BY <1>1, Invariance, PTL

\* For any number of jobs, workers and attempts: no job is completed without
\* its mail having been accepted, and none is given up early.
THEOREM JobsEarnTheirEnds == Spec => []EndsAreEarned
<1>1. IInv => EndsAreEarned
  BY DEF IInv
<1> QED
  BY <1>1, Invariance, PTL

\* A second copy of a mail needs a lost acknowledgement; timing alone, or the
\* number of workers, does not make one.
THEOREM DuplicatesNeedMishaps == Spec => []DuplicatesHaveCause
<1>1. IInv => DuplicatesHaveCause
  BY DEF IInv
<1> QED
  BY <1>1, Invariance, PTL

\* The unguarded lazy transporter is created at most once for each worker.
THEOREM TransportersAreFew == Spec => []OneTransporterPerWorker
<1>1. IInv => OneTransporterPerWorker
  <2> SUFFICES ASSUME IInv PROVE OneTransporterPerWorker
    OBVIOUS
  <2>1. creations \in Nat /\ mode \in {"console", "smtp", "ethereal"} /\ CreationsCounted
    BY ModesAssumption DEF IInv, TypeOK
  <2>2. Creating \subseteq Worker
    BY DEF Creating
  <2>3. Cardinality(Creating) \in Nat /\ Cardinality(Worker) \in Nat
    BY <2>2, WorkerAssumption, FS_Subset, FS_CardinalityType
  <2>4. CASE mode = "console"
    BY <2>1, <2>4 DEF CreationsCounted, OneTransporterPerWorker
  <2>5. CASE mode = "smtp"
    BY <2>1, <2>5 DEF CreationsCounted, OneTransporterPerWorker
  <2>6. CASE mode = "ethereal"
    BY <2>1, <2>3, <2>6 DEF CreationsCounted, OneTransporterPerWorker
  <2> QED
    BY <2>1, <2>4, <2>5, <2>6
<1> QED
  BY <1>1, Invariance, PTL

\* A worker that reports after it lost its job's lock cannot revive the job,
\* and neither can the check for stalled ones.
THEOREM EndsAreFinal == Spec => EndedStaysEnded
<1>1. IInv /\ [Next]_vars => [\A j \in Job : Ended(j) => state'[j] = state[j]]_vars
  <2> SUFFICES ASSUME IInv, Next, NEW j \in Job, state[j] \in {"completed", "failed"}
               PROVE  state'[j] = state[j]
    BY DEF Ended
  <2> USE DEF IInv
  <2>1. ~locked[j] /\ state \in [Job -> State]
    BY DEF TypeOK
  <2>2. ASSUME NEW i \in Job, NEW s, Leave(i, s) PROVE state'[j] = state[j]
    BY <2>1, <2>2 DEF Leave, HoldsLock
  <2>3. ASSUME NEW w \in Worker, Work(w) PROVE state'[j] = state[j]
    <3>1. CASE take(w)
      BY <2>1, <3>1 DEF take
    <3>2. CASE send(w) \/ createTestAccount(w) \/ sendMail(w)
      BY <3>2 DEF send, createTestAccount, sendMail, jobs
    <3>3. CASE moveToCompleted(w)
      <4>1. job[w] \in Job /\ (Completed(job[w]) \/ UNCHANGED jobs)
        BY <3>3, BusyHasJob DEF moveToCompleted
      <4> QED
        BY <2>2, <4>1 DEF Completed, jobs
    <3>4. CASE moveToFailed(w)
      <4>1. job[w] \in Job /\ (Failed(w) \/ UNCHANGED jobs)
        BY <3>4, BusyHasJob DEF moveToFailed
      <4> QED
        BY <2>2, <4>1 DEF Failed, jobs
    <3> QED
      BY <2>3, <3>1, <3>2, <3>3, <3>4 DEF Work
  <2>4. ASSUME NEW i \in Job, add(i) \/ Promote(i) \/ LockExpires(i) \/ LockLost(i) \/ Stalled(i)
        PROVE  state'[j] = state[j]
    BY <2>1, <2>4 DEF add, Promote, LockExpires, LockLost, Unlock, Stalled
  <2>5. CASE Crash
    BY <2>5 DEF Crash, jobs
  <2> QED
    BY <2>3, <2>4, <2>5 DEF Next
<1> QED
  BY <1>1, Invariance, PTL DEF Spec, EndedStaysEnded
=============================================================================
