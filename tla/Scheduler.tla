----------------------------- MODULE Scheduler ------------------------------
(***************************************************************************)
(* The timed jobs of agent/scheduler.py: creation, update and cancellation *)
(* with their write-through to scheduler_jobs.json, the one-second tick    *)
(* that starts every due job as a task, the end of a task (reschedule,     *)
(* removal, cancellation) and the recovery after a restart.                *)
(*                                                                         *)
(* Time is counted in ticks; one tick also stands for the microsecond the  *)
(* code adds to step past an occurrence.  A cron job fires at the          *)
(* multiples of Period, an interval job every Interval.  All code between  *)
(* two awaits is one step.                                                 *)
(***************************************************************************)
EXTENDS Integers

CONSTANTS
  Jobs,      \* the job ids; an id is a fresh uuid, given out once
  Forms,     \* the kinds of job that are created: [kind, soft] records
  Leads,     \* the values tracker.lead takes: how early a soft job starts
  Period, Interval, Grace,
  MaxTime,   \* bound: the clock stops here
  FaultSets  \* what may go wrong, together, in one behaviour

ASSUME TimesAreTimes ==
  /\ Leads \subseteq Nat /\ Grace \in Nat /\ MaxTime \in Nat \ {0}
  /\ Period \in Nat \ {0} /\ Interval \in Nat \ {0}

Form == [kind: {"once", "interval", "cron"}, soft: BOOLEAN]

ASSUME FormsAreForms == Forms \subseteq Form

ASSUME FaultsAreFaults ==
  FaultSets \subseteq SUBSET {"save", "load", "restart", "interrupt"}

VARIABLES
  faults,    \* what may go wrong in this behaviour
  now,       \* the clock
  phase,     \* "down", "up", "dead" (run() raised), "stopped"
  mem,       \* _jobs
  file,      \* the job list on disk
  inFlight,  \* _in_flight
  task,      \* _active_tasks: what each task is at, the job object it holds
  status,    \* history: what became of each job
  asked,     \* history: the kind of job its last definition asked for
  fired,     \* history: the occurrences started and not cut off by a shutdown
  stoppedAt  \* history: when the last process ended

vars == <<faults, now, phase, mem, file, inFlight, task, status, asked, fired, stoppedAt>>

Entry == [kind: {"none", "once", "interval", "cron"}, soft: BOOLEAN, fire: Nat]
Absent == [kind |-> "none", soft |-> FALSE, fire |-> 0]
Task == [step: {"idle", "created", "turn", "push", "sent"}, job: Entry,
         cancelled: BOOLEAN]
Status == {"unused", "accepted", "done", "deleted", "expired"}
Started(job) == [step |-> "created", job |-> job, cancelled |-> FALSE]
Idle == [step |-> "idle", job |-> Absent, cancelled |-> FALSE]

Present(table) == {j \in Jobs : table[j].kind # "none"}
Executing == {j \in Jobs : task[j].step # "idle"}

TypeOK ==
  /\ faults \in FaultSets
  /\ now \in 1..MaxTime
  /\ phase \in {"down", "up", "dead", "stopped"}
  /\ mem \in [Jobs -> Entry]
  /\ file \in [Jobs -> Entry]
  /\ inFlight \subseteq Jobs
  /\ task \in [Jobs -> Task]
  /\ \A j \in Jobs : task[j].step = "idle" => task[j] = Idle
  /\ status \in [Jobs -> Status]
  /\ asked \in [Jobs -> Form]
  /\ fired \subseteq Jobs \X Nat
  /\ stoppedAt \in 0..MaxTime

Init ==
  /\ faults \in FaultSets
  /\ now = 1
  /\ phase = "down"
  /\ mem = [j \in Jobs |-> Absent]
  /\ file = mem
  /\ inFlight = {}
  /\ task = [j \in Jobs |-> Idle]
  /\ status = [j \in Jobs |-> "unused"]
  /\ fired = {}
  /\ asked = [j \in Jobs |-> [kind |-> "once", soft |-> FALSE]]
  /\ stoppedAt = 0

-----------------------------------------------------------------------------
(* Firing times.                                                           *)

Later(a, b) == IF a >= b THEN a ELSE b

(* The first cron occurrence at t or after it.                             *)
NextCron(t) == Period * ((t + Period - 1) \div Period)

(* The next occurrence of a recurring job once `after` is past.            *)
Advance(job, after) ==
  IF job.kind = "cron" THEN NextCron(after)
  ELSE IF after < job.fire THEN job.fire + Interval
  ELSE job.fire + Interval * ((after - job.fire) \div Interval + 1)

(* The first firing of a job defined now; "at" takes any date, past ones   *)
(* included.                                                               *)
FirstFire(kind) == CASE kind = "once" -> 0..MaxTime
                     [] kind = "interval" -> {now + Interval}
                     [] kind = "cron" -> {NextCron(now)}

Defined == UNION {[kind: {f.kind}, soft: {f.soft}, fire: FirstFire(f.kind)] :
                  f \in Forms}

Trigger(job, lead) == IF job.soft THEN job.fire - lead ELSE job.fire

-----------------------------------------------------------------------------
(* The public operations.  Each builds the new job list, saves it and only *)
(* then installs it: a save that raises leaves both lists as they were.    *)

Serving == phase # "down"

(* Task.cancel() for the tasks of some jobs.                               *)
Cancelled(S) == [j \in Jobs |->
                   IF j \in S \cap Executing
                   THEN [task[j] EXCEPT !.cancelled = TRUE] ELSE task[j]]

FormOf(job) == [kind |-> job.kind, soft |-> job.soft]

ReplaceJobs(jobs) == file' = jobs /\ mem' = jobs

AddJob(j, job) ==
  /\ Serving /\ status[j] = "unused"
  /\ ReplaceJobs([mem EXCEPT ![j] = job])
  /\ status' = [status EXCEPT ![j] = "accepted"]
  /\ asked' = [asked EXCEPT ![j] = FormOf(job)]
  /\ UNCHANGED <<now, phase, inFlight, task, fired, stoppedAt>>

(* Mutant: a job is edited while its task runs.                            *)
UpdateJobAnytime(j, job) ==
  /\ Serving /\ j \in Present(mem)
  /\ ReplaceJobs([mem EXCEPT ![j] = job])
  /\ asked' = [asked EXCEPT ![j] = FormOf(job)]
  /\ fired' = {o \in fired : o[1] # j}
  /\ UNCHANGED <<now, phase, inFlight, task, status, stoppedAt>>

(* A running job is not edited.  An edit starts the history of occurrences *)
(* afresh: it may ask for a time that was served before.                   *)
UpdateJob(j, job) ==
  /\ Serving /\ j \in Present(mem)
  /\ j \notin inFlight \cup Executing
  /\ ReplaceJobs([mem EXCEPT ![j] = job])
  /\ asked' = [asked EXCEPT ![j] = FormOf(job)]
  /\ fired' = {o \in fired : o[1] # j}
  /\ UNCHANGED <<now, phase, inFlight, task, status, stoppedAt>>

(* Mutant: the job leaves the list and its task runs on.                   *)
CancelJobOnly(j) ==
  /\ Serving /\ j \in Present(mem)
  /\ ReplaceJobs([mem EXCEPT ![j] = Absent])
  /\ status' = [status EXCEPT ![j] = "deleted"]
  /\ UNCHANGED <<now, phase, inFlight, task, asked, fired, stoppedAt>>

CancelJob(j) ==
  /\ Serving /\ j \in Present(mem)
  /\ ReplaceJobs([mem EXCEPT ![j] = Absent])
  /\ status' = [status EXCEPT ![j] = "deleted"]
  /\ task' = Cancelled({j})
  /\ UNCHANGED <<now, phase, inFlight, asked, fired, stoppedAt>>

-----------------------------------------------------------------------------
(* The tick and the life of a task.                                        *)

Due(lead) == {j \in Present(mem) \ inFlight : Trigger(mem[j], lead) <= now}

Tick(lead) ==
  /\ phase = "up" /\ Due(lead) # {}
  /\ inFlight' = inFlight \cup Due(lead)
  /\ task' = [j \in Jobs |-> IF j \in Due(lead) THEN Started(mem[j]) ELSE task[j]]
  /\ fired' = fired \cup {<<j, mem[j].fire>> : j \in Due(lead)}
  /\ UNCHANGED <<now, phase, mem, file, status, asked, stoppedAt>>

Step(j, from, to) ==
  /\ task[j].step = from /\ ~ task[j].cancelled
  /\ task' = [task EXCEPT ![j].step = to]
  /\ UNCHANGED <<now, phase, mem, file, inFlight, status, asked, fired,
                 stoppedAt>>

(* The first step of the task: a soft job asks the agent loop for a turn,  *)
(* an instant one pushes its message.                                      *)
Begin(j) == Step(j, "created", IF task[j].job.soft THEN "turn" ELSE "push")
TurnDone(j) == Step(j, "turn", "push")
Send(j) == Step(j, "push", "sent")

(* What the end of a task leaves of its job: a recurring one moves past    *)
(* both the clock and its own nominal time, a one-shot one is dropped.     *)
Rescheduled(job) ==
  IF job.kind = "once" THEN Absent
  ELSE [job EXCEPT !.fire = Advance(job, Later(now, job.fire) + 1)]

(* Mutant: the in-flight mark stays.                                       *)
MarkStays(j) == inFlight

Unmarked(j) == inFlight \ {j}

(* Mutant: a one-shot job is dropped from memory only.                     *)
FinishUnsaved(j, saved) ==
  /\ task[j].step \in {"turn", "push", "sent"} /\ ~ task[j].cancelled
  /\ LET job == task[j].job
     IN  /\ mem' = [mem EXCEPT ![j] = Rescheduled(job)]
         /\ file' = IF job.kind = "once" THEN file ELSE mem'
         /\ status' = [status EXCEPT ![j] =
                         IF job.kind = "once" THEN "done" ELSE @]
  /\ inFlight' = Unmarked(j)
  /\ task' = [task EXCEPT ![j] = Idle]
  /\ UNCHANGED <<now, phase, asked, fired, stoppedAt>>

(* The task ends, by success or by an exception other than a cancellation. *)
(* The memory changes before the save, which may raise.                    *)
Finish(j, saved) ==
  /\ task[j].step \in {"turn", "push", "sent"} /\ ~ task[j].cancelled
  /\ LET job == task[j].job
     IN  /\ mem' = [mem EXCEPT ![j] = Rescheduled(job)]
         /\ status' = [status EXCEPT ![j] =
                         IF job.kind = "once" THEN "done" ELSE @]
  /\ file' = IF saved THEN mem' ELSE file
  /\ inFlight' = Unmarked(j)
  /\ task' = [task EXCEPT ![j] = Idle]
  /\ UNCHANGED <<now, phase, asked, fired, stoppedAt>>

(* A cancelled task ends without touching the job list.  One that never    *)
(* ran a step never reaches its finally: its in-flight mark stays.         *)
Unwind(j) ==
  /\ task[j].cancelled
  /\ inFlight' = IF task[j].step = "created" THEN inFlight ELSE Unmarked(j)
  /\ task' = [task EXCEPT ![j] = Idle]
  /\ fired' = fired \ {<<j, task[j].job.fire>>}
  /\ UNCHANGED <<now, phase, mem, file, status, asked, stoppedAt>>

(* /stop or a cancelled chat turn cancels the turn's own task; the job's   *)
(* task awaits it and sees the same CancelledError as at a shutdown.       *)
Interrupt(j) ==
  /\ task[j].step = "turn" /\ ~ task[j].cancelled
  /\ inFlight' = Unmarked(j)
  /\ task' = [task EXCEPT ![j] = Idle]
  /\ UNCHANGED <<now, phase, mem, file, status, asked, fired, stoppedAt>>

-----------------------------------------------------------------------------
(* Start, shutdown and crash.                                              *)

Expired(job) == job.kind = "once" /\ now - job.fire > Grace

Recovered(job) ==
  IF job.kind = "none" \/ Expired(job) THEN Absent
  ELSE IF job.kind = "cron" /\ job.fire > now
       THEN [job EXCEPT !.fire = NextCron(now)]
  ELSE IF job.kind # "once" /\ job.fire <= now
       THEN [job EXCEPT !.fire = Advance(job, now)]
  ELSE job

(* Mutant: what recovery changed is not written back.                      *)
LoadUnsaved(saved) ==
  /\ phase = "down"
  /\ mem' = [j \in Jobs |-> Recovered(file[j])]
  /\ phase' = "up"
  /\ status' = [j \in Jobs |-> IF status[j] = "accepted" /\ Expired(file[j])
                               THEN "expired" ELSE status[j]]
  /\ UNCHANGED <<now, file, inFlight, task, asked, fired, stoppedAt>>

(* run(): recover the list, write it back when it changed, then loop.  A   *)
(* write that raises ends run(); the public operations stay available.     *)
Load(saved) ==
  /\ phase = "down"
  /\ mem' = [j \in Jobs |-> Recovered(file[j])]
  /\ file' = IF saved THEN mem' ELSE file
  /\ phase' = IF saved \/ mem' = file THEN "up" ELSE "dead"
  /\ status' = [j \in Jobs |-> IF status[j] = "accepted" /\ Expired(file[j])
                               THEN "expired" ELSE status[j]]
  /\ UNCHANGED <<now, inFlight, task, asked, fired, stoppedAt>>

(* The job file cannot be read or holds an entry that is refused.          *)
LoadRaises ==
  /\ phase = "down" /\ Present(file) # {}
  /\ phase' = "dead"
  /\ UNCHANGED <<now, mem, file, inFlight, task, status, asked, fired,
                 stoppedAt>>

(* stop(): no more ticks, every task is cancelled.                         *)
Stop ==
  /\ phase \in {"up", "dead"}
  /\ phase' = "stopped"
  /\ task' = Cancelled(Jobs)
  /\ UNCHANGED <<now, mem, file, inFlight, status, asked, fired, stoppedAt>>

(* The process ends, after stop() or without it; the occurrences its tasks *)
(* were at are cut off.  A new process takes a while to come up.           *)
Exit ==
  /\ Serving
  /\ phase' = "down"
  /\ mem' = [j \in Jobs |-> Absent]
  /\ inFlight' = {}
  /\ task' = [j \in Jobs |-> Idle]
  /\ fired' = fired \ {<<j, task[j].job.fire>> : j \in Executing}
  /\ stoppedAt' = now
  /\ UNCHANGED <<now, file, status, asked>>

Pass ==
  /\ now < MaxTime
  /\ now' = now + 1
  /\ UNCHANGED <<phase, mem, file, inFlight, task, status, asked, fired,
                 stoppedAt>>

-----------------------------------------------------------------------------
Saved == IF "save" \in faults THEN BOOLEAN ELSE {TRUE}

Run(j) == Begin(j) \/ TurnDone(j) \/ Send(j) \/ Unwind(j)
            \/ \E saved \in Saved : Finish(j, saved)

Boot == /\ stoppedAt < now
        /\ \E saved \in Saved : Load(saved)

Next ==
  /\ \/ \E j \in Jobs, job \in Defined : AddJob(j, job) \/ UpdateJob(j, job)
     \/ \E j \in Jobs : CancelJob(j) \/ Run(j)
     \/ \E lead \in Leads : Tick(lead)
     \/ "interrupt" \in faults /\ \E j \in Jobs : Interrupt(j)
     \/ "load" \in faults /\ LoadRaises
     \/ "restart" \in faults /\ (Stop \/ Exit)
     \/ Boot
     \/ Pass
  /\ UNCHANGED faults

Spec == Init /\ [][Next]_vars

(* run()'s loop ticks every second; a task that has work runs, and the     *)
(* turn or the push it awaits comes to an end.                             *)
FairSpec == /\ Spec
            /\ WF_vars(Boot /\ UNCHANGED faults)
            /\ WF_vars((\E lead \in Leads : Tick(lead)) /\ UNCHANGED faults)
            /\ \A j \in Jobs : WF_vars(Run(j) /\ UNCHANGED faults)

-----------------------------------------------------------------------------
(* Properties.                                                             *)

(* A job the user cancelled is gone from memory and disk for good, also    *)
(* when its task was under way, after failed saves and over restarts, and  *)
(* its task does nothing any more.                                         *)
DeletedStays ==
  \A j \in Jobs : status[j] = "deleted" =>
    /\ mem[j] = Absent /\ file[j] = Absent
    /\ j \in Executing => task[j].cancelled

(* A job its creator was told of, and every edit that was accepted, is on  *)
(* disk until the job has run, is cancelled or expires, if the file can be *)
(* read at every start.                                                    *)
AcceptedOnDisk ==
  \A j \in Jobs : status[j] = "accepted" =>
    j \in Present(file) /\ FormOf(file[j]) = asked[j]
AcceptedDurable == "load" \notin faults => AcceptedOnDisk

(* While no save fails, the job list a ticking service works from is the   *)
(* list on disk.                                                           *)
MemoryIsFile == "save" \notin faults => (phase = "up" => mem = file)

(* No occurrence of a job is started twice, unless a shutdown cut it off.  *)
(* Left out are behaviours in which saves fail or turns are interrupted,   *)
(* which repeat theirs, and soft cron jobs, which recovery moves back to   *)
(* the occurrence that ran ahead of its time.                              *)
Again(j) == <<j, mem[j].fire>> \in fired
SoftCronJob(job) == job.kind = "cron" /\ job.soft
StartedOnce == [][\A j \in Executing' \ Executing : ~ Again(j)]_vars
OccurrenceOnce ==
  [][faults \cap {"save", "interrupt"} = {} =>
       \A j \in Executing' \ Executing : SoftCronJob(mem[j]) \/ ~ Again(j)]_vars

(* No job stays due for ever: it is started, edited or cancelled.          *)
Overdue(j) == /\ phase = "up" /\ j \in Present(mem) /\ mem[j].fire <= now
              /\ j \notin Executing

DueFires == \A j \in Jobs : []<>~ Overdue(j)
=============================================================================
