-------------------------- MODULE SchedulerProofs ---------------------------
(* What TLC checks of Scheduler on two jobs and a short clock, proved for  *)
(* any number of jobs, any clock and any period, interval, lead and grace. *)
EXTENDS Scheduler, TLAPS

(* An id nobody was given yet is nowhere.                                  *)
Known == \A j \in Jobs : status[j] = "unused" =>
           mem[j] = Absent /\ file[j] = Absent /\ task[j].step = "idle"

(* A task that was not cancelled holds the object the job list holds, and  *)
(* a process that is down has no tasks.                                    *)
Held == \A j \in Jobs : task[j].step # "idle" =>
          /\ phase # "down"
          /\ ~ task[j].cancelled => mem[j] = task[j].job

(* An accepted job is in the memory of a live process with the form its    *)
(* last definition asked for.                                              *)
InMemory == phase # "down" => \A j \in Jobs : status[j] = "accepted" =>
              j \in Present(mem) /\ FormOf(mem[j]) = asked[j]

IInv == TypeOK /\ Known /\ Held /\ DeletedStays

-----------------------------------------------------------------------------
(* Firing times.                                                           *)

\* The next time of a cron job is a time.
LEMMA NextCronNat == \A t \in Nat : NextCron(t) \in Nat
<1> SUFFICES ASSUME NEW t \in Nat PROVE NextCron(t) \in Nat
  OBVIOUS
<1> DEFINE q == (t + Period - 1) \div Period
<1>1. Period \in Nat /\ Period > 0
  BY TimesAreTimes
<1>2. q \in Nat
  BY <1>1
<1>3. Period * q \in Nat
  <2> HIDE DEF q
  <2> QED
    BY <1>1, <1>2
<1> QED
  BY <1>3 DEF NextCron

\* So is the next time of any job.
LEMMA AdvanceNat ==
  \A job \in Entry, after \in Nat : Advance(job, after) \in Nat
<1> SUFFICES ASSUME NEW job \in Entry, NEW after \in Nat
             PROVE Advance(job, after) \in Nat
  OBVIOUS
<1>1. job.fire \in Nat /\ Interval \in Nat /\ Interval > 0
  BY TimesAreTimes DEF Entry
<1>2. CASE job.kind = "cron"
  BY <1>2, NextCronNat DEF Advance
<1>3. CASE job.kind # "cron" /\ after < job.fire
  BY <1>1, <1>3 DEF Advance
<1>4. CASE job.kind # "cron" /\ ~ (after < job.fire)
  <2> DEFINE q == (after - job.fire) \div Interval + 1
  <2>1. q \in Nat
    BY <1>1, <1>4
  <2>2. Interval * q \in Nat
    <3> HIDE DEF q
    <3> QED
      BY <1>1, <2>1
  <2> QED
    BY <1>1, <1>4, <2>2 DEF Advance
<1> QED
  BY <1>2, <1>3, <1>4

(* The first cron occurrence at a time or after it is not before it.       *)
LEMMA NextCronLate == \A t \in Nat : NextCron(t) \in Nat /\ NextCron(t) >= t
<1> SUFFICES ASSUME NEW t \in Nat PROVE NextCron(t) >= t
  BY NextCronNat
<1> DEFINE a == t + Period - 1
           q == a \div Period
           r == a % Period
<1>1. Period \in Nat /\ Period > 0 /\ a \in Nat
  BY TimesAreTimes
<1>2. a = Period * q + r /\ r < Period /\ q \in Nat
  BY <1>1
<1>3. NextCron(t) = Period * q
  BY DEF NextCron
<1>4. Period * q \in Nat
  <2> HIDE DEF q
  <2> QED
    BY <1>1, <1>2
<1>5. r \in Nat
  BY <1>1
<1> DEFINE c == Period * q
<1>6. a = c + r /\ c \in Nat
  BY <1>2, <1>4
<1>7. a = t + Period - 1
  OBVIOUS
<1> HIDE DEF a, q, r, c
<1>8. c >= t
  BY <1>1, <1>2, <1>5, <1>6, <1>7
<1> QED
  BY <1>3, <1>8 DEF c

(* The next occurrence of an interval job is after the given time and      *)
(* after its own.                                                          *)
LEMMA AdvanceLate ==
  ASSUME NEW job \in Entry, NEW after \in Nat, job.kind # "cron"
  PROVE  Advance(job, after) > after /\ Advance(job, after) > job.fire
<1>1. job.fire \in Nat /\ Interval \in Nat /\ Interval > 0
  BY TimesAreTimes DEF Entry
<1>2. CASE after < job.fire
  BY <1>1, <1>2 DEF Advance
<1>3. CASE ~ (after < job.fire)
  <2> DEFINE a == after - job.fire
             q == a \div Interval
             r == a % Interval
  <2>1. a \in Nat /\ after = job.fire + a
    BY <1>1, <1>3
  <2> HIDE DEF a
  <2>2. a = Interval * q + r /\ r < Interval /\ r \in Nat /\ q \in Nat
    BY <1>1, <2>1
  <2>3. Advance(job, after) = job.fire + Interval * (q + 1)
    BY <1>3 DEF Advance, a
  <2>4. Interval * (q + 1) = Interval * q + Interval /\ Interval * q \in Nat
    <3> HIDE DEF q
    <3> QED
      BY <1>1, <2>2
  <2> DEFINE c == Interval * q
  <2>5. a = c + r /\ c \in Nat /\ Advance(job, after) = job.fire + (c + Interval)
    BY <2>2, <2>3, <2>4
  <2> HIDE DEF q, r, c
  <2> QED
    BY <1>1, <2>1, <2>2, <2>5
<1> QED
  BY <1>2, <1>3

(* A definition yields a present entry of one of the known forms.          *)
LEMMA DefinedTyped ==
  ASSUME TypeOK, NEW job \in Defined
  PROVE  job \in Entry /\ job.kind # "none" /\ FormOf(job) \in Form
<1>1. PICK f \in Forms :
        job \in [kind: {f.kind}, soft: {f.soft}, fire: FirstFire(f.kind)]
  BY DEF Defined
<1>2. f \in Form
  BY FormsAreForms
<1>3. now \in Nat /\ MaxTime \in Nat /\ Interval \in Nat
  BY TimesAreTimes DEF TypeOK
<1>4. FirstFire(f.kind) \subseteq Nat
  <2>1. CASE f.kind = "once"
    BY <1>3, <2>1 DEF FirstFire
  <2>2. CASE f.kind = "interval"
    BY <1>3, <2>2 DEF FirstFire
  <2>3. CASE f.kind = "cron"
    BY <1>3, <2>3, NextCronNat DEF FirstFire
  <2> QED
    BY <1>2, <2>1, <2>2, <2>3 DEF Form
<1>5. job.kind = f.kind /\ job.soft = f.soft /\ job.fire \in Nat
  BY <1>1, <1>4
<1>6. job \in Entry
  BY <1>1, <1>2, <1>4 DEF Entry, Form
<1> QED
  BY <1>2, <1>5, <1>6 DEF FormOf, Form

\* A rescheduled job is a job.
LEMMA RescheduledTyped ==
  ASSUME TypeOK, NEW job \in Entry PROVE Rescheduled(job) \in Entry
<1>1. job.fire \in Nat /\ now \in Nat
  BY TimesAreTimes DEF TypeOK, Entry
<1>2. Later(now, job.fire) + 1 \in Nat
  BY <1>1 DEF Later
<1>3. Advance(job, Later(now, job.fire) + 1) \in Nat
  BY <1>2, AdvanceNat
<1> QED
  BY <1>3 DEF Rescheduled, Absent, Entry

(* Recovery keeps the form of what it keeps.                               *)
LEMMA RecoveredTyped ==
  ASSUME TypeOK, NEW job \in Entry
  PROVE  /\ Recovered(job) \in Entry
         /\ \/ Recovered(job) = Absent /\ (job.kind = "none" \/ Expired(job))
            \/ Recovered(job).kind = job.kind /\ Recovered(job).soft = job.soft
<1>1. now \in Nat
  BY TimesAreTimes DEF TypeOK
<1>2. NextCron(now) \in Nat /\ Advance(job, now) \in Nat
  BY <1>1, NextCronNat, AdvanceNat
<1>3. CASE job.kind = "none" \/ Expired(job)
  BY <1>3 DEF Recovered, Absent, Entry
<1>4. CASE ~ (job.kind = "none" \/ Expired(job))
  BY <1>2, <1>4 DEF Recovered, Entry
<1> QED
  BY <1>3, <1>4

-----------------------------------------------------------------------------
(* Types.                                                                  *)

\* At the start the list and its file are empty.
LEMMA TypeInit == Init => TypeOK
<1> SUFFICES ASSUME Init PROVE TypeOK
  OBVIOUS
<1>1. mem \in [Jobs -> Entry] /\ file \in [Jobs -> Entry]
  BY DEF Init, Absent, Entry
<1>2. \A j \in Jobs : task[j] = Idle
  BY DEF Init
<1>3. task \in [Jobs -> Task]
  BY DEF Init, Idle, Task, Absent, Entry
<1>4. now \in 1..MaxTime /\ stoppedAt \in 0..MaxTime
  BY TimesAreTimes DEF Init
<1>5. asked \in [Jobs -> Form]
  BY DEF Init, Form
<1>6. /\ phase \in {"down", "up", "dead", "stopped"} /\ inFlight \subseteq Jobs
      /\ status \in [Jobs -> Status]
      /\ fired \subseteq Jobs \X Nat /\ faults \in FaultSets
  BY DEF Init, Status
<1> QED
  BY <1>1, <1>2, <1>3, <1>4, <1>5, <1>6 DEF TypeOK

\* An idle task and an absent job have their types.
LEMMA IdleTyped == Idle \in Task /\ Absent \in Entry
BY DEF Idle, Task, Absent, Entry

\* Cancelling tasks keeps their types.
LEMMA CancelledTyped ==
  ASSUME TypeOK, NEW S
  PROVE  /\ Cancelled(S) \in [Jobs -> Task]
         /\ \A j \in Jobs : Cancelled(S)[j].step = "idle" => Cancelled(S)[j] = Idle
BY DEF TypeOK, Cancelled, Executing, Task

\* Cancelling a job keeps the types.
LEMMA CancelTyped ==
  ASSUME TypeOK, UNCHANGED faults, NEW j \in Jobs, CancelJob(j)
  PROVE  TypeOK'
<1>1. mem' \in [Jobs -> Entry] /\ file' \in [Jobs -> Entry]
  BY IdleTyped DEF TypeOK, CancelJob, ReplaceJobs
<1>2. /\ task' \in [Jobs -> Task]
      /\ \A k \in Jobs : task'[k].step = "idle" => task'[k] = Idle
  BY CancelledTyped DEF CancelJob
<1>3. status' \in [Jobs -> Status]
  BY DEF TypeOK, CancelJob, Status
<1> QED
  BY <1>1, <1>2, <1>3 DEF TypeOK, CancelJob

(* The operations on the job list.                                         *)
LEMMA TypeOperation ==
  ASSUME TypeOK, UNCHANGED faults, NEW j \in Jobs, NEW job \in Defined,
         AddJob(j, job) \/ UpdateJob(j, job)
  PROVE  TypeOK'
<1> USE DEF TypeOK, ReplaceJobs
<1>1. job \in Entry /\ FormOf(job) \in Form
  BY DefinedTyped
<1>2. CASE AddJob(j, job)
  BY <1>1, <1>2 DEF AddJob, Status
<1>3. CASE UpdateJob(j, job)
  BY <1>1, <1>3 DEF UpdateJob
<1> QED
  BY <1>2, <1>3

\* A tick keeps the types.
LEMMA TickTyped ==
  ASSUME TypeOK, UNCHANGED faults, NEW lead \in Leads, Tick(lead)
  PROVE  TypeOK'
<1> USE DEF TypeOK
<1>1. Due(lead) \subseteq Jobs
  BY DEF Due, Present
<1>2. \A k \in Due(lead) : <<k, mem[k].fire>> \in Jobs \X Nat
  BY <1>1 DEF Entry
<1>3. fired' \subseteq Jobs \X Nat
  BY <1>2 DEF Tick
<1>4. \A job \in Entry : Started(job) \in Task
  BY DEF Started, Task
<1>5. task' \in [Jobs -> Task]
  BY <1>4 DEF Tick
<1>6. \A k \in Jobs : task'[k].step = "idle" => task'[k] = Idle
  BY DEF Tick, Started
<1> QED
  BY <1>1, <1>3, <1>5, <1>6 DEF Tick

\* A step of a job's task keeps the types.
LEMMA StepTyped ==
  ASSUME TypeOK, UNCHANGED faults, NEW j \in Jobs, NEW from,
         NEW to \in {"turn", "push", "sent"}, Step(j, from, to)
  PROVE  TypeOK'
<1>1. task[j] \in Task
  BY DEF TypeOK
<1>2. [task[j] EXCEPT !.step = to] \in Task
  BY <1>1 DEF Task
<1>3. task' = [task EXCEPT ![j] = [task[j] EXCEPT !.step = to]]
  BY DEF Step
<1>4. task' \in [Jobs -> Task]
  BY <1>2, <1>3 DEF TypeOK
<1>5. [task[j] EXCEPT !.step = to].step = to
  BY <1>1 DEF Task
<1>6. \A k \in Jobs : task'[k].step = "idle" => task'[k] = Idle
  BY <1>3, <1>5 DEF TypeOK
<1> QED
  BY <1>4, <1>6 DEF TypeOK, Step

(* The steps of a task.                                                    *)
LEMMA RunTyped ==
  ASSUME TypeOK, UNCHANGED faults, NEW j \in Jobs, Run(j) \/ Interrupt(j)
  PROVE  TypeOK'
<1> USE DEF TypeOK
<1>1. Idle \in Task
  BY IdleTyped
<1>3. CASE Begin(j)
  BY <1>3, StepTyped DEF Begin
<1>4. CASE TurnDone(j) \/ Send(j)
  BY <1>4, StepTyped DEF TurnDone, Send
<1>5. ASSUME NEW saved \in Saved, Finish(j, saved)
      PROVE  TypeOK'
  <2>1. Rescheduled(task[j].job) \in Entry
    BY RescheduledTyped DEF Task
  <2>2. mem' \in [Jobs -> Entry] /\ file' \in [Jobs -> Entry]
    BY <1>5, <2>1 DEF Finish
  <2>3. status' \in [Jobs -> Status]
    BY <1>5 DEF Finish, Status
  <2> QED
    BY <1>1, <1>5, <2>2, <2>3 DEF Finish, Unmarked
<1>6. CASE Unwind(j)
  BY <1>1, <1>6 DEF Unwind, Unmarked
<1>7. CASE Interrupt(j)
  BY <1>1, <1>7 DEF Interrupt, Unmarked
<1> QED
  BY <1>3, <1>4, <1>5, <1>6, <1>7 DEF Run

(* Start and end of a process, and the clock.                              *)
LEMMA TypeLife ==
  ASSUME TypeOK, UNCHANGED faults, Boot \/ LoadRaises \/ Stop \/ Exit \/ Pass
  PROVE  TypeOK'
<1> USE DEF TypeOK
<1>1. CASE Boot
  <2>1. PICK saved \in Saved : Load(saved)
    BY <1>1 DEF Boot
  <2>2. mem' \in [Jobs -> Entry]
    BY <2>1, RecoveredTyped DEF Load
  <2>3. file' \in [Jobs -> Entry]
    BY <2>1, <2>2 DEF Load
  <2>4. phase' \in {"down", "up", "dead", "stopped"}
    BY <2>1 DEF Load
  <2>5. status' \in [Jobs -> Status]
    BY <2>1 DEF Load, Status
  <2> QED
    BY <2>1, <2>2, <2>3, <2>4, <2>5 DEF Load
<1>2. CASE LoadRaises
  BY <1>2 DEF LoadRaises
<1>3. CASE Stop
  BY <1>3, CancelledTyped DEF Stop
<1>4. CASE Exit
  <2>1. task' \in [Jobs -> Task]
    BY <1>4, IdleTyped DEF Exit
  <2>2. mem' \in [Jobs -> Entry]
    BY <1>4, IdleTyped DEF Exit
  <2>3. stoppedAt' \in 0..MaxTime
    BY <1>4, TimesAreTimes DEF Exit
  <2> QED
    BY <1>4, <2>1, <2>2, <2>3 DEF Exit
<1>5. CASE Pass
  BY <1>5, TimesAreTimes DEF Pass
<1> QED
  BY <1>1, <1>2, <1>3, <1>4, <1>5

\* Every step keeps the types.
LEMMA TypeStep == TypeOK /\ [Next]_vars => TypeOK'
<1> SUFFICES ASSUME TypeOK, [Next]_vars PROVE TypeOK'
  OBVIOUS
<1>1. CASE UNCHANGED vars
  BY <1>1 DEF vars, TypeOK, Idle, Entry
<1>2. ASSUME UNCHANGED faults, NEW j \in Jobs, NEW job \in Defined,
             AddJob(j, job) \/ UpdateJob(j, job)
      PROVE  TypeOK'
  BY <1>2, TypeOperation
<1>3. ASSUME UNCHANGED faults, NEW j \in Jobs, CancelJob(j)
      PROVE  TypeOK'
  BY <1>3, CancelTyped
<1> QED
  BY <1>1, <1>2, <1>3, TickTyped, RunTyped, TypeLife DEF Next

(* Every operation, tick, task step, shutdown and recovery keeps the types *)
(* of the scheduler's state, an idle task leaving nothing behind.          *)
THEOREM TypeCorrect == Spec => []TypeOK
<1>1. Init => TypeOK
  BY TypeInit
<1>2. TypeOK /\ [Next]_vars => TypeOK'
  BY TypeStep
<1> QED
  BY <1>1, <1>2, PTL DEF Spec

-----------------------------------------------------------------------------
(* Cancelled jobs.                                                         *)

\* At the start no id was given and no job was cancelled.
LEMMA SafeInit == Init => Known /\ Held /\ DeletedStays
BY DEF Init, Known, Held, DeletedStays, Idle

(* An operation on the list: a new id has no task, an edited job has none, *)
(* a cancelled one has its task cancelled.                                 *)
LEMMA SafeOperation ==
  ASSUME IInv, NEW j \in Jobs,
         \/ \E job \in Defined : AddJob(j, job) \/ UpdateJob(j, job)
         \/ CancelJob(j)
  PROVE  Known' /\ Held' /\ DeletedStays'
<1> USE DEF IInv, TypeOK, Known, Held, DeletedStays, ReplaceJobs, Executing
<1>1. ASSUME NEW job \in Defined, AddJob(j, job)
      PROVE  Known' /\ Held' /\ DeletedStays'
  <2>1. /\ \A k \in Jobs \ {j} : mem'[k] = mem[k] /\ file'[k] = mem[k]
                                 /\ status'[k] = status[k]
        /\ status'[j] = "accepted" /\ status[j] = "unused"
        /\ task' = task /\ phase' = phase
    BY <1>1 DEF AddJob
  <2>2. \A k \in Jobs : status[k] = "unused" => mem[k] = Absent
    OBVIOUS
  <2> QED
    BY <2>1, <2>2
<1>2. ASSUME NEW job \in Defined, UpdateJob(j, job)
      PROVE  Known' /\ Held' /\ DeletedStays'
  <2>1. /\ \A k \in Jobs \ {j} : mem'[k] = mem[k] /\ file'[k] = mem[k]
        /\ j \notin Executing /\ mem[j].kind # "none"
        /\ task' = task /\ phase' = phase /\ status' = status
    BY <1>2 DEF UpdateJob, Present
  <2>2. mem[j] # Absent
    BY <2>1 DEF Absent
  <2> QED
    BY <2>1, <2>2
<1>3. ASSUME CancelJob(j)
      PROVE  Known' /\ Held' /\ DeletedStays'
  <2>1. /\ \A k \in Jobs \ {j} : /\ mem'[k] = mem[k] /\ file'[k] = mem[k]
                                 /\ status'[k] = status[k] /\ task'[k] = task[k]
        /\ mem'[j] = Absent /\ file'[j] = Absent /\ status'[j] = "deleted"
        /\ phase' = phase
    BY <1>3 DEF CancelJob, Cancelled
  <2>2. /\ task'[j].step = task[j].step
        /\ task'[j].step # "idle" => task'[j].cancelled
    BY <1>3 DEF CancelJob, Cancelled, Task
  <2> QED
    BY <2>1, <2>2
<1> QED
  BY <1>1, <1>2, <1>3

(* A tick starts only what the list holds; a task's end writes back only   *)
(* what it was given, and a cancelled task writes nothing.                 *)
LEMMA SafeTask ==
  ASSUME IInv,
         \/ \E lead \in Leads : Tick(lead)
         \/ \E j \in Jobs : Run(j) \/ Interrupt(j)
  PROVE  Known' /\ Held' /\ DeletedStays'
<1> USE DEF IInv, TypeOK, Known, Held, DeletedStays, Executing
<1>1. ASSUME NEW lead \in Leads, Tick(lead)
      PROVE  Known' /\ Held' /\ DeletedStays'
  <2>1. \A k \in Jobs : \/ task'[k] = task[k]
                        \/ k \in Due(lead) /\ task'[k] = Started(mem[k])
    BY <1>1 DEF Tick
  <2>2. \A k \in Due(lead) : mem[k] # Absent
    BY DEF Due, Present, Absent
  <2>7. \A job : /\ Started(job).step = "created" /\ Started(job).job = job
                 /\ Started(job).cancelled = FALSE
    BY DEF Started
  <2>4. \A k \in Jobs : \/ task'[k] = task[k]
                        \/ /\ mem[k] # Absent /\ task'[k].step = "created"
                           /\ task'[k].cancelled = FALSE /\ task'[k].job = mem[k]
    BY <2>1, <2>2, <2>7
  <2>3. /\ mem' = mem /\ file' = file /\ status' = status /\ phase' = phase
        /\ phase = "up"
    BY <1>1 DEF Tick
  <2>5. Known'
    BY <2>3, <2>4
  <2>6. Held'
    BY <2>3, <2>4
  <2>8. DeletedStays'
    BY <2>3, <2>4
  <2> QED
    BY <2>5, <2>6, <2>8
<1>2. ASSUME NEW j \in Jobs, NEW from, NEW to, from # "idle", Step(j, from, to)
      PROVE  Known' /\ Held' /\ DeletedStays'
  <2>1. \A k \in Jobs \ {j} : task'[k] = task[k]
    BY <1>2 DEF Step
  <2>2. /\ task'[j].cancelled = task[j].cancelled /\ task'[j].job = task[j].job
        /\ ~ task[j].cancelled /\ task[j].step # "idle"
    BY <1>2 DEF Step, Task
  <2>3. mem' = mem /\ file' = file /\ status' = status /\ phase' = phase
    BY <1>2 DEF Step
  <2> QED
    BY <2>1, <2>2, <2>3
<1>3. ASSUME NEW j \in Jobs, NEW saved \in Saved, Finish(j, saved)
      PROVE  Known' /\ Held' /\ DeletedStays'
  <2>1. /\ \A k \in Jobs \ {j} : /\ mem'[k] = mem[k] /\ task'[k] = task[k]
                                 /\ status'[k] = status[k]
        /\ file' = mem' \/ file' = file
        /\ phase' = phase
    BY <1>3 DEF Finish
  <2>2. /\ task'[j].step = "idle" /\ task[j].step # "idle"
        /\ ~ task[j].cancelled
    BY <1>3 DEF Finish, Idle
  <2>3. status'[j] = status[j] \/ status'[j] = "done"
    BY <1>3 DEF Finish
  <2>4. status[j] \notin {"deleted", "unused"}
    BY <2>2
  <2> QED
    BY <2>1, <2>2, <2>3, <2>4
<1>4. ASSUME NEW j \in Jobs, Unwind(j) \/ Interrupt(j)
      PROVE  Known' /\ Held' /\ DeletedStays'
  <2>1. /\ \A k \in Jobs \ {j} : task'[k] = task[k]
        /\ task'[j].step = "idle"
        /\ mem' = mem /\ file' = file /\ status' = status /\ phase' = phase
    BY <1>4 DEF Unwind, Interrupt, Idle
  <2> QED
    BY <2>1
<1>5. ASSUME NEW j \in Jobs, Begin(j) \/ TurnDone(j) \/ Send(j)
      PROVE  Known' /\ Held' /\ DeletedStays'
  BY <1>2, <1>5 DEF Begin, TurnDone, Send
<1> QED
  BY <1>1, <1>3, <1>4, <1>5 DEF Run

(* Starts, shutdowns and the clock: what is not on disk is not recovered.  *)
LEMMA SafeLife ==
  ASSUME IInv, Boot \/ LoadRaises \/ Stop \/ Exit \/ Pass
  PROVE  Known' /\ Held' /\ DeletedStays'
<1> USE DEF IInv, TypeOK, Known, Held, DeletedStays, Executing
<1>1. CASE Boot
  <2>1. PICK saved \in Saved : Load(saved)
    BY <1>1 DEF Boot
  <2>2. \A k \in Jobs : file[k] = Absent => mem'[k] = Absent
    BY <2>1 DEF Load, Recovered, Absent
  <2>3. /\ file' = mem' \/ file' = file
        /\ task' = task /\ phase = "down"
    BY <2>1 DEF Load
  <2>4. \A k \in Jobs : status'[k] = status[k] \/ status'[k] = "expired"
    BY <2>1 DEF Load
  <2> QED
    BY <2>2, <2>3, <2>4
<1>2. CASE LoadRaises
  BY <1>2 DEF LoadRaises
<1>3. CASE Stop
  <2>1. \A k \in Jobs : /\ task'[k].step = task[k].step
                        /\ task'[k].step # "idle" => task'[k].cancelled
    BY <1>3 DEF Stop, Cancelled, Task
  <2>2. mem' = mem /\ file' = file /\ status' = status /\ phase' # "down"
    BY <1>3 DEF Stop
  <2> QED
    BY <2>1, <2>2
<1>4. CASE Exit
  <2>1. /\ \A k \in Jobs : mem'[k] = Absent /\ task'[k].step = "idle"
        /\ file' = file /\ status' = status
    BY <1>4 DEF Exit, Idle
  <2> QED
    BY <2>1
<1>5. CASE Pass
  BY <1>5 DEF Pass
<1> QED
  BY <1>1, <1>2, <1>3, <1>4, <1>5

\* Every step keeps the inductive invariant.
LEMMA SafeStep == IInv /\ [Next]_vars => IInv'
<1> SUFFICES ASSUME IInv, [Next]_vars PROVE Known' /\ Held' /\ DeletedStays'
  BY TypeStep DEF IInv
<1>1. CASE UNCHANGED vars
  BY <1>1 DEF vars, IInv, Known, Held, DeletedStays, Executing
<1> QED
  BY <1>1, SafeOperation, SafeTask, SafeLife DEF Next

\* The inductive invariant holds in every reachable state.
LEMMA InvariantCorrect == Spec => []IInv
<1>1. Init => IInv
  BY TypeInit, SafeInit DEF IInv
<1>2. IInv /\ [Next]_vars => IInv'
  BY SafeStep
<1> QED
  BY <1>1, <1>2, PTL DEF Spec

(* A cancelled job never comes back, in memory or on disk, whatever its    *)
(* task was doing, whichever saves failed and however often the process    *)
(* restarted.                                                              *)
THEOREM DeletedStaysCorrect == Spec => []DeletedStays
<1>1. IInv => DeletedStays
  BY DEF IInv
<1> QED
  BY <1>1, InvariantCorrect, PTL

-----------------------------------------------------------------------------
(* Accepted jobs.                                                          *)

Durable == InMemory /\ AcceptedOnDisk

\* At the start no job was accepted.
LEMMA DurableInit == Init => Durable
BY DEF Init, Durable, InMemory, AcceptedOnDisk

\* An accepted operation on the list is on disk when it is answered.
LEMMA DurableOperation ==
  ASSUME IInv, Durable, NEW j \in Jobs,
         \/ \E job \in Defined : AddJob(j, job) \/ UpdateJob(j, job)
         \/ CancelJob(j)
  PROVE  Durable'
<1> USE DEF IInv, TypeOK, Durable, InMemory, AcceptedOnDisk, ReplaceJobs,
            Present, Serving
<1>1. ASSUME NEW job \in Defined, AddJob(j, job) \/ UpdateJob(j, job)
      PROVE  Durable'
  <2>1. job.kind # "none"
    BY DefinedTyped
  <2>2. /\ \A k \in Jobs \ {j} : /\ mem'[k] = mem[k] /\ file'[k] = mem[k]
                                 /\ status'[k] = status[k] /\ asked'[k] = asked[k]
        /\ mem'[j] = job /\ file'[j] = job /\ asked'[j] = FormOf(job)
        /\ phase # "down"
    BY <1>1 DEF AddJob, UpdateJob
  <2> QED
    BY <2>1, <2>2
<1>2. ASSUME CancelJob(j)
      PROVE  Durable'
  <2>1. /\ \A k \in Jobs \ {j} : mem'[k] = mem[k] /\ file'[k] = mem[k]
                                 /\ status'[k] = status[k]
        /\ asked' = asked /\ status'[j] = "deleted" /\ phase # "down"
    BY <1>2 DEF CancelJob
  <2> QED
    BY <2>1
<1> QED
  BY <1>1, <1>2

\* Starting and ending jobs loses no accepted one.
LEMMA DurableTask ==
  ASSUME IInv, Durable,
         \/ \E lead \in Leads : Tick(lead)
         \/ \E j \in Jobs : Run(j) \/ Interrupt(j)
  PROVE  Durable'
<1> USE DEF IInv, TypeOK, Durable, InMemory, AcceptedOnDisk, Present
<1>1. ASSUME NEW lead \in Leads, Tick(lead)
      PROVE  Durable'
  BY <1>1 DEF Tick
<1>2. ASSUME NEW j \in Jobs, NEW saved \in Saved, Finish(j, saved)
      PROVE  Durable'
  <2>1. /\ \A k \in Jobs \ {j} : mem'[k] = mem[k] /\ status'[k] = status[k]
        /\ file' = mem' \/ file' = file
        /\ asked' = asked /\ phase' = phase
    BY <1>2 DEF Finish
  <2>2. task[j].job = mem[j] /\ phase # "down"
    BY <1>2 DEF Finish, Held
  <2>3. status'[j] = "accepted" =>
          /\ status[j] = "accepted" /\ mem[j].kind # "once"
          /\ mem'[j] = Rescheduled(mem[j])
    BY <1>2, <2>2 DEF Finish
  <2>4. mem[j] \in Entry
    OBVIOUS
  <2>5. mem[j].kind # "once" => /\ Rescheduled(mem[j]).kind = mem[j].kind
                                /\ Rescheduled(mem[j]).soft = mem[j].soft
    BY <2>4 DEF Rescheduled, Entry
  <2> QED
    BY <2>1, <2>2, <2>3, <2>5 DEF FormOf
<1>3. ASSUME NEW j \in Jobs,
             Begin(j) \/ TurnDone(j) \/ Send(j) \/ Unwind(j) \/ Interrupt(j)
      PROVE  Durable'
  BY <1>3 DEF Begin, TurnDone, Send, Step, Unwind, Interrupt
<1> QED
  BY <1>1, <1>2, <1>3 DEF Run

\* Neither does a stop or a restart that can read the file.
LEMMA DurableLife ==
  ASSUME IInv, Durable, Boot \/ Stop \/ Exit \/ Pass
  PROVE  Durable'
<1> USE DEF IInv, TypeOK, Durable, InMemory, AcceptedOnDisk, Present
<1>1. CASE Boot
  <2>1. PICK saved \in Saved : Load(saved)
    BY <1>1 DEF Boot
  <2>2. ASSUME NEW k \in Jobs, status'[k] = "accepted"
        PROVE  /\ file[k].kind # "none" /\ FormOf(file[k]) = asked[k]
               /\ ~ Expired(file[k])
    BY <2>1, <2>2 DEF Load, Status
  <2>3. ASSUME NEW k \in Jobs, status'[k] = "accepted"
        PROVE  /\ mem'[k].kind = file[k].kind /\ mem'[k].soft = file[k].soft
    <3>1. mem'[k] = Recovered(file[k]) /\ file[k] \in Entry
      BY <2>1 DEF Load
    <3> QED
      BY <2>2, <2>3, <3>1, RecoveredTyped
  <2>4. /\ file' = mem' \/ file' = file
        /\ asked' = asked
    BY <2>1 DEF Load
  <2> QED
    BY <2>2, <2>3, <2>4 DEF FormOf
<1>2. CASE Stop
  BY <1>2 DEF Stop
<1>3. CASE Exit
  BY <1>3 DEF Exit
<1>4. CASE Pass
  BY <1>4 DEF Pass
<1> QED
  BY <1>1, <1>2, <1>3, <1>4

(* As long as the job file can be read at every start, a job its creator   *)
(* was told of is on disk, in the form last asked for, until it ran, was   *)
(* cancelled or expired: saves that fail and crashes do not lose it.       *)
THEOREM AcceptedDurableCorrect == Spec => []AcceptedDurable
<1> DEFINE Readable == "load" \notin faults => Durable
<1>1. Init => Readable
  BY DurableInit
<1>2. IInv /\ Readable /\ [Next]_vars => Readable'
  <2> SUFFICES ASSUME IInv, Readable, [Next]_vars, "load" \notin faults'
               PROVE  Durable'
    OBVIOUS
  <2>1. CASE UNCHANGED vars
    BY <2>1 DEF vars, Durable, InMemory, AcceptedOnDisk, Present
  <2>2. CASE Next
    <3>1. Durable /\ "load" \notin faults
      BY <2>2 DEF Next
    <3> QED
      BY <2>2, <3>1, DurableOperation, DurableTask, DurableLife DEF Next
  <2> QED
    BY <2>1, <2>2
<1>3. Readable => AcceptedDurable
  BY DEF Durable, AcceptedDurable
<1> QED
  BY <1>1, <1>2, <1>3, InvariantCorrect, PTL DEF Spec

(* As long as no write of the job file fails, the list a ticking service   *)
(* works from is the list a restart would find.                            *)
THEOREM MemoryIsFileCorrect == Spec => []MemoryIsFile
<1>1. Init => MemoryIsFile
  BY DEF Init, MemoryIsFile
<1>2. MemoryIsFile /\ [Next]_vars => MemoryIsFile'
  <2> SUFFICES ASSUME MemoryIsFile, [Next]_vars, "save" \notin faults'
               PROVE  (phase = "up" => mem = file)'
    BY DEF MemoryIsFile
  <2> USE DEF MemoryIsFile
  <2>1. CASE UNCHANGED vars
    BY <2>1 DEF vars
  <2> SUFFICES ASSUME Next PROVE (phase = "up" => mem = file)'
    BY <2>1
  <2>2. "save" \notin faults /\ Saved = {TRUE}
    BY DEF Next, Saved
  <2>3. ASSUME NEW j \in Jobs, NEW job \in Defined,
               AddJob(j, job) \/ UpdateJob(j, job)
        PROVE  mem' = file'
    BY <2>3 DEF AddJob, UpdateJob, ReplaceJobs
  <2>4. ASSUME NEW j \in Jobs, CancelJob(j)
        PROVE  mem' = file'
    BY <2>4 DEF CancelJob, ReplaceJobs
  <2>5. ASSUME NEW j \in Jobs, Run(j) \/ Interrupt(j)
        PROVE  phase' = "up" => mem' = file'
    BY <2>2, <2>5 DEF Run, Begin, TurnDone, Send, Step, Unwind, Finish, Interrupt
  <2>6. ASSUME NEW lead \in Leads, Tick(lead)
        PROVE  phase' = "up" => mem' = file'
    BY <2>2, <2>6 DEF Tick
  <2>7. CASE Boot
    BY <2>2, <2>7 DEF Boot, Load
  <2>8. CASE LoadRaises \/ Stop \/ Exit \/ Pass
    BY <2>2, <2>8 DEF LoadRaises, Stop, Exit, Pass
  <2> QED
    BY <2>3, <2>4, <2>5, <2>6, <2>7, <2>8 DEF Next
<1> QED
  BY <1>1, <1>2, PTL DEF Spec

-----------------------------------------------------------------------------
(* Occurrences.                                                            *)

(* The behaviours OccurrenceOnce speaks of.                                *)
Undisturbed == faults \cap {"save", "interrupt"} = {}

(* A task that runs is marked in flight.                                   *)
Marked == Executing \subseteq inFlight

(* What is in memory is what is on disk.                                   *)
Copied == \A j \in Jobs : mem[j] \in {Absent, file[j]}

(* An id nobody was given has started nothing.                             *)
Unstarted == \A j \in Jobs, t \in Nat : status[j] = "unused" => <<j, t>> \notin fired

(* An occurrence of a job that has started is over, or its task is at it.  *)
Over(j, t) == \/ t < file[j].fire
              \/ t = file[j].fire /\ task[j].step # "idle" /\ t = task[j].job.fire

(* A cron job that is not soft started at its time or after it.            *)
Reached(j, t) == file[j].kind = "cron" => t <= now /\ (phase = "down" => t <= stoppedAt)

Passed == \A j \in Jobs, t \in Nat :
            j \in Present(file) /\ <<j, t>> \in fired /\ ~ SoftCronJob(file[j]) =>
              Over(j, t) /\ Reached(j, t)

(* What an undisturbed behaviour has started lies behind.                  *)
Behind == Copied /\ Unstarted /\ Passed

\* At the start nothing has been started.
LEMMA BehindInit == Init => Marked /\ Behind
BY DEF Init, Marked, Behind, Copied, Unstarted, Passed, Executing, Idle, Present, Absent

\* Every step keeps the marks of what runs.
LEMMA MarkedStep == TypeOK /\ Marked /\ [Next]_vars => Marked'
<1> SUFFICES ASSUME TypeOK, Marked, [Next]_vars PROVE Marked'
  OBVIOUS
<1> USE DEF Marked, Executing, TypeOK
<1>1. CASE UNCHANGED vars
  BY <1>1 DEF vars
<1>2. ASSUME NEW j \in Jobs, NEW job \in Defined, AddJob(j, job) \/ UpdateJob(j, job)
      PROVE  Marked'
  BY <1>2 DEF AddJob, UpdateJob
<1>3. ASSUME NEW j \in Jobs, CancelJob(j)
      PROVE  Marked'
  <2>1. \A k \in Jobs : task'[k].step = task[k].step
    BY <1>3 DEF CancelJob, Cancelled, Task
  <2> QED
    BY <1>3, <2>1 DEF CancelJob
<1>4. ASSUME NEW lead \in Leads, Tick(lead)
      PROVE  Marked'
  <2>1. \A k \in Jobs \ Due(lead) : task'[k] = task[k]
    BY <1>4 DEF Tick
  <2> QED
    BY <1>4, <2>1 DEF Tick
<1>5. ASSUME NEW j \in Jobs, NEW from, NEW to, from # "idle", Step(j, from, to)
      PROVE  Marked'
  <2>1. /\ \A k \in Jobs \ {j} : task'[k] = task[k]
        /\ task[j].step # "idle" /\ inFlight' = inFlight
    BY <1>5 DEF Step
  <2> QED
    BY <2>1
<1>6. ASSUME NEW j \in Jobs, Begin(j) \/ TurnDone(j) \/ Send(j)
      PROVE  Marked'
  BY <1>5, <1>6 DEF Begin, TurnDone, Send
<1>7. ASSUME NEW j \in Jobs,
             Unwind(j) \/ Interrupt(j) \/ \E saved \in Saved : Finish(j, saved)
      PROVE  Marked'
  <2>1. /\ \A k \in Jobs \ {j} : task'[k] = task[k]
        /\ task'[j].step = "idle" /\ inFlight \ {j} \subseteq inFlight'
    BY <1>7 DEF Unwind, Interrupt, Finish, Unmarked, Idle
  <2> QED
    BY <2>1
<1>8. CASE Boot \/ LoadRaises \/ Pass
  BY <1>8 DEF Boot, Load, LoadRaises, Pass
<1>9. CASE Stop
  <2>1. \A k \in Jobs : task'[k].step = task[k].step
    BY <1>9 DEF Stop, Cancelled, Task
  <2> QED
    BY <1>9, <2>1 DEF Stop
<1>10. CASE Exit
  <2>1. \A k \in Jobs : task'[k].step = "idle"
    BY <1>10 DEF Exit, Idle
  <2> QED
    BY <2>1
<1> QED
  BY <1>1, <1>2, <1>3, <1>4, <1>6, <1>7, <1>8, <1>9, <1>10 DEF Next, Run

\* A job whose entry on disk, occurrences and task are as before.
LEMMA StaysPassed ==
  ASSUME Passed, NEW j \in Jobs, NEW t \in Nat,
         j \in Present(file)', (<<j, t>> \in fired)', ~ SoftCronJob(file'[j]),
         file'[j] = file[j], <<j, t>> \in fired,
         task'[j].step = task[j].step, task'[j].job = task[j].job,
         now' \in Nat, now \in Nat, now <= now', stoppedAt' = stoppedAt,
         phase' = "down" => phase = "down"
  PROVE  (Over(j, t) /\ Reached(j, t))'
<1>1. Over(j, t) /\ Reached(j, t)
  BY DEF Passed, Present
<1>2. Over(j, t)'
  BY <1>1 DEF Over
<1>3. Reached(j, t)'
  BY <1>1 DEF Reached
<1> QED
  BY <1>2, <1>3

\* The operations write the list back; an edit starts its job afresh.
LEMMA BehindOperation ==
  ASSUME IInv, Behind, NEW j \in Jobs,
         \/ \E job \in Defined : AddJob(j, job) \/ UpdateJob(j, job)
         \/ CancelJob(j)
  PROVE  Behind'
<1> USE DEF Behind, Copied, Unstarted, ReplaceJobs
<1>1. now \in Nat /\ TypeOK
  BY TimesAreTimes DEF IInv, TypeOK
<1>2. /\ file' = mem' /\ now' = now /\ phase' = phase /\ stoppedAt' = stoppedAt
      /\ \A k \in Jobs \ {j} : mem'[k] = mem[k] /\ status'[k] = status[k]
      /\ \A k \in Jobs : task'[k].step = task[k].step /\ task'[k].job = task[k].job
      /\ fired' \subseteq fired
      /\ status'[j] = "unused" => status[j] = "unused"
  BY <1>1 DEF AddJob, UpdateJob, CancelJob, Cancelled, TypeOK, Task
<1>3. \/ \A t \in Nat : <<j, t>> \notin fired'
      \/ file'[j] = Absent
  <2>1. CASE \E job \in Defined : AddJob(j, job)
    BY <2>1 DEF AddJob
  <2>2. CASE \E job \in Defined : UpdateJob(j, job)
    BY <2>2 DEF UpdateJob
  <2>3. CASE CancelJob(j)
    BY <1>1, <2>3 DEF CancelJob, TypeOK
  <2> QED
    BY <2>1, <2>2, <2>3
<1>4. Copied' /\ Unstarted'
  BY <1>2
<1>5. ASSUME NEW k \in Jobs, NEW t \in Nat, k \in Present(file)', <<k, t>> \in fired',
             ~ SoftCronJob(file'[k])
      PROVE  (Over(k, t) /\ Reached(k, t))'
  <2>1. file'[k] # Absent
    BY <1>5 DEF Present, Absent
  <2>2. k # j
    BY <1>3, <1>5, <2>1
  <2>3. file'[k] = file[k]
    BY <1>2, <2>1, <2>2
  <2> QED
    BY <1>1, <1>2, <1>5, <2>3, StaysPassed
<1> QED
  BY <1>4, <1>5 DEF Passed

\* A tick starts jobs at times nothing was started at before.
LEMMA TickFresh ==
  ASSUME IInv, Marked, Behind, NEW lead \in Leads, NEW j \in Due(lead),
         ~ SoftCronJob(mem[j])
  PROVE  \A t \in Nat : <<j, t>> \in fired => t < mem[j].fire
<1>1. j \in Jobs /\ mem[j] # Absent /\ j \notin inFlight /\ mem[j].kind # "none"
  BY DEF Due, Present, Absent
<1>2. mem[j] = file[j]
  BY <1>1 DEF Behind, Copied
<1>3. task[j].step = "idle"
  BY <1>1 DEF Marked, Executing
<1>4. j \in Present(file)
  BY <1>1, <1>2 DEF Present
<1> QED
  BY <1>1, <1>2, <1>3, <1>4 DEF Behind, Passed, Over

(* So a tick leaves the others behind and is at its own.                   *)
LEMMA BehindTick ==
  ASSUME IInv, Marked, Behind, NEW lead \in Leads, Tick(lead)
  PROVE  Behind'
<1>1. /\ mem' = mem /\ file' = file /\ status' = status /\ phase' = phase
      /\ now' = now /\ stoppedAt' = stoppedAt /\ phase = "up"
      /\ fired' = fired \cup {<<j, mem[j].fire>> : j \in Due(lead)}
      /\ \A j \in Jobs : task'[j] = IF j \in Due(lead) THEN Started(mem[j]) ELSE task[j]
  BY DEF Tick
<1>2. now \in Nat /\ TypeOK
  BY TimesAreTimes DEF IInv, TypeOK
<1>3. Copied'
  BY <1>1 DEF Behind, Copied
<1>6. ASSUME NEW j \in Jobs, NEW t \in Nat, <<j, t>> \in fired', <<j, t>> \notin fired
      PROVE  j \in Due(lead) /\ t = mem[j].fire
  <2>1. PICK k \in Due(lead) : <<j, t>> = <<k, mem[k].fire>>
    BY <1>1, <1>6
  <2> QED
    BY <2>1
<1>4. Unstarted'
  <2>2. Absent.kind = "none"
    BY DEF Absent
  <2>1. \A j \in Due(lead) : j \in Jobs /\ status[j] # "unused"
    BY <2>2 DEF Due, Present, IInv, Known
  <2> QED
    BY <1>1, <1>6, <2>1 DEF Behind, Unstarted
<1>5. ASSUME NEW j \in Jobs, NEW t \in Nat, j \in Present(file)', <<j, t>> \in fired',
             ~ SoftCronJob(file'[j])
      PROVE  (Over(j, t) /\ Reached(j, t))'
  <2>1. CASE j \notin Due(lead)
    <3>1. <<j, t>> \in fired
      BY <1>1, <1>5, <2>1
    <3> QED
      BY <1>1, <1>2, <1>5, <2>1, <3>1, StaysPassed DEF Behind
  <2>2. CASE j \in Due(lead)
    <3>1. mem[j] # Absent /\ mem[j] \in Entry /\ Trigger(mem[j], lead) <= now
      BY <1>2, <2>2 DEF Due, Present, Absent, TypeOK
    <3>2. mem[j] = file[j]
      BY <3>1 DEF Behind, Copied
    <3>3. <<j, t>> \in fired => t < mem[j].fire
      BY <1>1, <1>5, <2>2, <3>2, TickFresh
    <3>4. <<j, t>> \in fired \/ t = mem[j].fire
      BY <1>5, <1>6
    <3>5. task'[j].step = "created" /\ task'[j].job = mem[j]
      <4>1. task'[j] = Started(mem[j])
        BY <1>1, <2>2
      <4> QED
        BY <4>1 DEF Started
    <3>6. Over(j, t)'
      BY <1>1, <3>2, <3>3, <3>4, <3>5 DEF Over
    <3>7. file[j].kind = "cron" => t <= now
      <4>1. CASE t = mem[j].fire
        BY <1>1, <1>5, <3>1, <3>2, <4>1 DEF Trigger, SoftCronJob
      <4>2. CASE <<j, t>> \in fired
        <5>1. j \in Present(file)
          BY <1>1, <1>5
        <5> QED
          BY <1>1, <1>5, <4>2, <5>1 DEF Behind, Passed, Reached
      <4> QED
        BY <3>4, <4>1, <4>2
    <3>8. Reached(j, t)'
      BY <1>1, <3>7 DEF Reached
    <3> QED
      BY <3>6, <3>8
  <2> QED
    BY <2>1, <2>2
<1> QED
  BY <1>3, <1>4, <1>5 DEF Behind, Passed

(* The end of a recurring job's run moves it past what has started.        *)
LEMMA RescheduledLate ==
  ASSUME TypeOK, NEW job \in Entry, job.kind # "once"
  PROVE  /\ Rescheduled(job).kind = job.kind /\ Rescheduled(job).soft = job.soft
         /\ Rescheduled(job).fire > job.fire
<1>1. job.fire \in Nat /\ now \in Nat
  BY TimesAreTimes DEF TypeOK, Entry
<1> DEFINE after == Later(now, job.fire) + 1
<1>2. after \in Nat /\ after > job.fire
  BY <1>1 DEF Later
<1>3. Rescheduled(job) = [job EXCEPT !.fire = Advance(job, after)]
  BY DEF Rescheduled
<1> HIDE DEF after
<1>4. Advance(job, after) > job.fire
  <2>1. CASE job.kind = "cron"
    <3>1. Advance(job, after) = NextCron(after)
      BY <2>1 DEF Advance
    <3> QED
      BY <1>1, <1>2, <3>1, NextCronLate
  <2>2. CASE job.kind # "cron"
    BY <1>2, <2>2, AdvanceLate
  <2> QED
    BY <2>1, <2>2
<1> QED
  BY <1>3, <1>4 DEF Entry

\* The steps and the end of a task.
LEMMA BehindRun ==
  ASSUME IInv, Behind, Undisturbed, NEW j \in Jobs, Run(j)
  PROVE  Behind'
<1>1. TypeOK /\ now \in Nat /\ Saved = {TRUE}
  <2>1. "save" \notin faults
    BY DEF Undisturbed
  <2> QED
    BY <2>1, TimesAreTimes DEF IInv, TypeOK, Saved
<1>2. ASSUME NEW from, NEW to, from # "idle", to # "idle", Step(j, from, to)
      PROVE  Behind'
  <2>1. /\ mem' = mem /\ file' = file /\ status' = status /\ phase' = phase
        /\ now' = now /\ stoppedAt' = stoppedAt /\ fired' = fired
    BY <1>2 DEF Step
  <2>2. \A k \in Jobs : task'[k].job = task[k].job /\ (task'[k].step = "idle" <=> task[k].step = "idle")
    BY <1>1, <1>2 DEF Step, TypeOK, Task
  <2> QED
    BY <2>1, <2>2 DEF Behind, Copied, Unstarted, Passed, Over, Reached, Present
<1>3. CASE Begin(j) \/ TurnDone(j) \/ Send(j)
  BY <1>2, <1>3 DEF Begin, TurnDone, Send
<1>4. CASE Unwind(j)
  <2>1. /\ mem' = mem /\ file' = file /\ status' = status /\ phase' = phase
        /\ now' = now /\ stoppedAt' = stoppedAt
        /\ fired' = fired \ {<<j, task[j].job.fire>>}
        /\ \A k \in Jobs \ {j} : task'[k] = task[k]
    BY <1>4 DEF Unwind
  <2>2. ASSUME NEW k \in Jobs, NEW t \in Nat, k \in Present(file)', <<k, t>> \in fired',
               ~ SoftCronJob(file'[k])
        PROVE  (Over(k, t) /\ Reached(k, t))'
    <3>1. <<k, t>> \in fired /\ (k # j \/ t # task[j].job.fire)
      BY <2>1, <2>2
    <3>2. Over(k, t) /\ Reached(k, t)
      BY <2>1, <2>2, <3>1 DEF Behind, Passed, Present
    <3>3. Over(k, t)'
      BY <2>1, <3>1, <3>2 DEF Over
    <3>4. Reached(k, t)'
      BY <2>1, <3>2 DEF Reached
    <3> QED
      BY <3>3, <3>4
  <2>3. Copied' /\ Unstarted'
    BY <2>1 DEF Behind, Copied, Unstarted
  <2> QED
    BY <2>2, <2>3 DEF Behind, Passed
<1>5. CASE Finish(j, TRUE)
  <2>1. /\ \A k \in Jobs \ {j} : /\ mem'[k] = mem[k] /\ task'[k] = task[k]
                                 /\ status'[k] = status[k]
        /\ file' = mem' /\ phase' = phase /\ now' = now /\ stoppedAt' = stoppedAt
        /\ fired' = fired /\ mem'[j] = Rescheduled(task[j].job)
        /\ status'[j] \in {"done", status[j]}
    BY <1>1, <1>5 DEF Finish, TypeOK
  <2>2. mem[j] = task[j].job /\ mem[j] \in Entry
    BY <1>1, <1>5 DEF Finish, IInv, Held, TypeOK
  <2>3. Copied' /\ Unstarted'
    BY <2>1 DEF Behind, Copied, Unstarted
  <2>4. ASSUME NEW k \in Jobs, NEW t \in Nat, k \in Present(file)', <<k, t>> \in fired',
               ~ SoftCronJob(file'[k])
        PROVE  (Over(k, t) /\ Reached(k, t))'
    <3>1. mem'[k] # Absent
      BY <2>1, <2>4 DEF Present, Absent
    <3>2. CASE k # j
      <4>1. file'[k] = file[k]
        BY <2>1, <3>1, <3>2 DEF Behind, Copied
      <4> QED
        BY <1>1, <2>1, <2>4, <3>2, <4>1, StaysPassed DEF Behind
    <3>3. CASE k = j
      <4>1. mem[j].kind # "once" /\ mem'[j] = Rescheduled(mem[j])
        BY <2>1, <2>2, <3>1, <3>3 DEF Rescheduled
      <4>2. /\ mem'[j].kind = mem[j].kind /\ mem'[j].soft = mem[j].soft
            /\ mem'[j].fire > mem[j].fire
        BY <1>1, <2>2, <4>1, RescheduledLate
      <4>3. mem[j].kind # "none" /\ mem[j] = file[j]
        <5>1. mem[j].kind # "none"
          BY <2>1, <2>4, <3>3, <4>2 DEF Present
        <5>2. mem[j] # Absent
          BY <5>1 DEF Absent
        <5> QED
          BY <5>1, <5>2 DEF Behind, Copied
      <4>4. Over(j, t) /\ Reached(j, t)
        BY <2>1, <2>4, <3>3, <4>2, <4>3 DEF Behind, Passed, Present, SoftCronJob
      <4>5. mem[j].fire \in Nat /\ mem'[j].fire \in Nat
        BY <1>1, <2>2, <4>1, RescheduledTyped DEF Entry
      <4>6. t < file'[j].fire
        BY <2>1, <4>2, <4>3, <4>4, <4>5 DEF Over
      <4>7. Reached(j, t)'
        BY <2>1, <4>2, <4>3, <4>4 DEF Reached
      <4> QED
        BY <3>3, <4>6, <4>7 DEF Over
    <3> QED
      BY <3>2, <3>3
  <2> QED
    BY <2>3, <2>4 DEF Behind, Passed
<1> QED
  BY <1>1, <1>3, <1>4, <1>5 DEF Run

\* Recovery leaves no job at or before a time that has started, soft cron jobs aside.
LEMMA RecoveredLate ==
  ASSUME IInv, Behind, phase = "down", stoppedAt < now, NEW j \in Jobs, NEW t \in Nat,
         <<j, t>> \in fired, Recovered(file[j]).kind # "none",
         ~ SoftCronJob(Recovered(file[j]))
  PROVE  /\ t < Recovered(file[j]).fire
         /\ Recovered(file[j]).kind = "cron" => t <= now
<1>1. TypeOK /\ now \in Nat /\ stoppedAt \in Nat /\ file[j] \in Entry
  BY TimesAreTimes DEF IInv, TypeOK
<1> DEFINE job == file[j]
           new == Recovered(job)
<1>2. new # Absent
  BY DEF Absent
<1>3. new.kind = job.kind /\ new.soft = job.soft /\ new \in Entry
  BY <1>1, <1>2, RecoveredTyped
<1>4. job.kind # "none" /\ ~ SoftCronJob(job)
  BY <1>3 DEF SoftCronJob
<1>5. task[j].step = "idle"
  BY <1>1 DEF IInv, Held
<1>6. t < job.fire /\ (job.kind = "cron" => t <= stoppedAt)
  BY <1>4, <1>5 DEF Behind, Passed, Present, Over, Reached
<1>7. job.fire \in Nat /\ NextCron(now) \in Nat /\ NextCron(now) >= now
  BY <1>1, NextCronLate DEF Entry
<1>8. CASE job.kind = "cron"
  <2>1. new.fire = NextCron(now)
    <3>1. Advance(job, now) = NextCron(now)
      BY <1>8 DEF Advance
    <3> QED
      BY <1>1, <1>2, <1>7, <1>8, <3>1 DEF Recovered, Entry
  <2> QED
    BY <1>1, <1>3, <1>6, <1>7, <1>8, <2>1
<1>9. CASE job.kind # "cron"
  <2>1. Advance(job, now) > job.fire /\ Advance(job, now) \in Nat
    BY <1>1, <1>9, AdvanceLate, AdvanceNat
  <2>2. new.fire \in {job.fire, Advance(job, now)}
    BY <1>1, <1>2, <1>9 DEF Recovered, Entry
  <2> QED
    BY <1>3, <1>6, <1>7, <1>9, <2>1, <2>2
<1> QED
  BY <1>8, <1>9

\* Starts, shutdowns and the clock.
LEMMA BehindLife ==
  ASSUME IInv, Behind, Undisturbed, Boot \/ LoadRaises \/ Stop \/ Exit \/ Pass
  PROVE  Behind'
<1>1. TypeOK /\ now \in Nat /\ stoppedAt \in Nat
  BY TimesAreTimes DEF IInv, TypeOK
<1>2. CASE Boot
  <2>1. PICK saved \in Saved : Load(saved)
    BY <1>2 DEF Boot
  <2>2. "save" \notin faults
    BY DEF Undisturbed
  <2>3. /\ \A k \in Jobs : mem'[k] = Recovered(file[k])
        /\ file' = mem' /\ phase = "down" /\ phase' # "down" /\ now' = now
        /\ fired' = fired /\ stoppedAt < now
        /\ \A k \in Jobs : status'[k] = "unused" => status[k] = "unused"
    BY <1>1, <1>2, <2>1, <2>2 DEF Boot, Load, Saved, TypeOK
  <2>4. Copied' /\ Unstarted'
    BY <2>3 DEF Behind, Copied, Unstarted
  <2>5. ASSUME NEW k \in Jobs, NEW t \in Nat, k \in Present(file)', <<k, t>> \in fired',
               ~ SoftCronJob(file'[k])
        PROVE  (Over(k, t) /\ Reached(k, t))'
    <3>1. file'[k] = Recovered(file[k]) /\ file'[k].kind # "none"
      BY <2>3, <2>5 DEF Present
    <3>2. t < file'[k].fire /\ (file'[k].kind = "cron" => t <= now)
      BY <2>3, <2>5, <3>1, RecoveredLate
    <3> QED
      BY <2>3, <3>2 DEF Over, Reached
  <2> QED
    BY <2>4, <2>5 DEF Behind, Passed
<1>3. CASE LoadRaises
  BY <1>3 DEF LoadRaises, Behind, Copied, Unstarted, Passed, Over, Reached, Present
<1>4. CASE Stop
  <2>1. /\ mem' = mem /\ file' = file /\ status' = status /\ phase' # "down"
        /\ now' = now /\ stoppedAt' = stoppedAt /\ fired' = fired
        /\ \A k \in Jobs : task'[k].step = task[k].step /\ task'[k].job = task[k].job
    BY <1>1, <1>4 DEF Stop, Cancelled, TypeOK, Task
  <2> QED
    BY <2>1 DEF Behind, Copied, Unstarted, Passed, Over, Reached, Present
<1>5. CASE Exit
  <2>1. /\ \A k \in Jobs : mem'[k] = Absent
        /\ file' = file /\ status' = status /\ now' = now /\ stoppedAt' = now
        /\ fired' = fired \ {<<j, task[j].job.fire>> : j \in Executing}
    BY <1>5 DEF Exit
  <2>2. Copied' /\ Unstarted'
    BY <2>1 DEF Behind, Copied, Unstarted
  <2>3. ASSUME NEW k \in Jobs, NEW t \in Nat, k \in Present(file)', <<k, t>> \in fired',
               ~ SoftCronJob(file'[k])
        PROVE  (Over(k, t) /\ Reached(k, t))'
    <3>1. <<k, t>> \in fired /\ (task[k].step # "idle" => t # task[k].job.fire)
      BY <2>1, <2>3 DEF Executing
    <3>2. Over(k, t) /\ Reached(k, t)
      BY <2>1, <2>3, <3>1 DEF Behind, Passed, Present
    <3>3. t < file[k].fire
      BY <3>1, <3>2 DEF Over
    <3> QED
      BY <2>1, <3>2, <3>3 DEF Over, Reached
  <2> QED
    BY <2>2, <2>3 DEF Behind, Passed
<1>6. CASE Pass
  <2>1. /\ mem' = mem /\ file' = file /\ status' = status /\ phase' = phase /\ task' = task
        /\ now' = now + 1 /\ stoppedAt' = stoppedAt /\ fired' = fired
    BY <1>6 DEF Pass
  <2>2. Copied' /\ Unstarted'
    BY <2>1 DEF Behind, Copied, Unstarted
  <2>3. ASSUME NEW k \in Jobs, NEW t \in Nat, k \in Present(file)', <<k, t>> \in fired',
               ~ SoftCronJob(file'[k])
        PROVE  (Over(k, t) /\ Reached(k, t))'
    <3>1. now + 1 \in Nat /\ now <= now + 1
      BY <1>1
    <3> QED
      BY <1>1, <2>1, <2>3, <3>1, StaysPassed DEF Behind
  <2> QED
    BY <2>2, <2>3 DEF Behind, Passed
<1> QED
  BY <1>2, <1>3, <1>4, <1>5, <1>6

\* Only a tick starts a task.
LEMMA OnlyTicksStart ==
  ASSUME TypeOK, [Next]_vars, NEW j \in Executing' \ Executing
  PROVE  \E lead \in Leads : Tick(lead) /\ j \in Due(lead)
<1> USE DEF Executing, TypeOK
<1>1. j \in Jobs /\ task[j].step = "idle" /\ task'[j].step # "idle"
  OBVIOUS
<1>2. CASE UNCHANGED vars
  BY <1>1, <1>2 DEF vars
<1>3. ASSUME NEW k \in Jobs, NEW job \in Defined, AddJob(k, job) \/ UpdateJob(k, job)
      PROVE  FALSE
  BY <1>1, <1>3 DEF AddJob, UpdateJob
<1>4. ASSUME NEW k \in Jobs, CancelJob(k)
      PROVE  FALSE
  BY <1>1, <1>4 DEF CancelJob, Cancelled, Task
<1>5. ASSUME NEW k \in Jobs, NEW from, NEW to, from # "idle", Step(k, from, to)
      PROVE  FALSE
  BY <1>1, <1>5 DEF Step
<1>6. ASSUME NEW k \in Jobs, Begin(k) \/ TurnDone(k) \/ Send(k)
      PROVE  FALSE
  BY <1>5, <1>6 DEF Begin, TurnDone, Send
<1>7. ASSUME NEW k \in Jobs,
             Unwind(k) \/ Interrupt(k) \/ \E saved \in Saved : Finish(k, saved)
      PROVE  FALSE
  BY <1>1, <1>7 DEF Unwind, Interrupt, Finish, Idle
<1>8. CASE Boot \/ LoadRaises \/ Pass
  BY <1>1, <1>8 DEF Boot, Load, LoadRaises, Pass
<1>9. CASE Stop \/ Exit
  BY <1>1, <1>9 DEF Stop, Exit, Cancelled, Task, Idle
<1>10. ASSUME NEW lead \in Leads, Tick(lead)
       PROVE  j \in Due(lead)
  BY <1>1, <1>10 DEF Tick
<1> QED
  BY <1>2, <1>3, <1>4, <1>6, <1>7, <1>8, <1>9, <1>10 DEF Next, Run

(* No occurrence of a job is started twice, unless a shutdown cut it off:  *)
(* a run moves its job past what has started, a stop takes back what it    *)
(* cuts off, and a restart finds on disk what was in memory.               *)
THEOREM OccurrenceOnceCorrect == Spec => OccurrenceOnce
<1> DEFINE Inv == IInv /\ Marked /\ (Undisturbed => Behind)
<1>1. Init => Inv
  BY TypeInit, SafeInit, BehindInit DEF IInv
<1>2. Inv /\ [Next]_vars => Inv'
  <2> SUFFICES ASSUME Inv, [Next]_vars, Undisturbed'
               PROVE  Behind'
    BY SafeStep, MarkedStep DEF IInv
  <2>1. CASE UNCHANGED vars
    BY <2>1 DEF vars, Undisturbed, Behind, Copied, Unstarted, Passed, Over, Reached, Present
  <2>2. CASE Next
    <3>1. Undisturbed /\ Behind /\ "interrupt" \notin faults
      BY <2>2 DEF Next, Undisturbed
    <3> QED
      BY <2>2, <3>1, BehindOperation, BehindTick, BehindRun, BehindLife DEF Next
  <2> QED
    BY <2>1, <2>2
<1>3. Inv /\ [Next]_vars =>
        (faults \cap {"save", "interrupt"} = {} =>
           \A j \in Executing' \ Executing : SoftCronJob(mem[j]) \/ ~ Again(j))
  <2> SUFFICES ASSUME Inv, [Next]_vars, Undisturbed, NEW j \in Executing' \ Executing,
                      ~ SoftCronJob(mem[j])
               PROVE  ~ Again(j)
    BY DEF Undisturbed
  <2>1. PICK lead \in Leads : Tick(lead) /\ j \in Due(lead)
    BY OnlyTicksStart DEF IInv
  <2>2. \A t \in Nat : <<j, t>> \in fired => t < mem[j].fire
    BY <2>1, TickFresh
  <2>3. mem[j].fire \in Nat
    BY <2>1 DEF IInv, TypeOK, Due, Present, Entry
  <2> QED
    BY <2>2, <2>3 DEF Again
<1> QED
  BY <1>1, <1>2, <1>3, PTL DEF Spec, OccurrenceOnce
=============================================================================
