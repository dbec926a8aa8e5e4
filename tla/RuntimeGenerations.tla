------------------------- MODULE RuntimeGenerations -------------------------
(***************************************************************************)
(* Replacing the configuration of a running backend.  Each applied         *)
(* configuration is a generation: prepared beside the current one,         *)
(* published in one synchronous step, retired when it is replaced and      *)
(* closed when nothing references it any more (bootstrap/runtime).  Work   *)
(* pins the generation it started on with a lease, the desktop service of  *)
(* a generation pins it while it still has chats to finish, and so does    *)
(* the runner of its background loops.  When a channel changes its         *)
(* connection, publication first waits for all accepted work.              *)
(*                                                                         *)
(* asyncio runs the code between two awaits without interruption: each     *)
(* such stretch is one action.                                             *)
(***************************************************************************)
EXTENDS Naturals

CONSTANTS
  MaxGen,          \* bound: how many generations are ever published
  Work,            \* operations that need admission: turns, jobs, RPCs
  Exempt,          \* RPCs of admission_exempt methods (chat.cancel, ...)
  WithBackground,  \* the generations whose configuration has background loops
  SlowClose        \* those whose desktop service still recovers voice assets
                   \* (a remote call) when it is closed

Gens == 1..MaxGen
Ops == Work \cup Exempt

ASSUME Parameters ==
  /\ MaxGen \in Nat \ {0}
  /\ Work \cap Exempt = {}
  /\ WithBackground \subseteq Gens
  /\ SlowClose \subseteq Gens

VARIABLES
  current,    \* GenerationManager.current
  life,       \* of each generation: absent, published, closing, closed
  retired,    \* the generations replaced or being shut down
  unseen,     \* those whose retirement task has not looked at them yet
  lease,      \* the generation each operation pins, 0 for none
  ended,      \* bound: the operations that have run, each runs once
  desk,       \* the desktop service of each generation, its pinned lease
  runner,     \* the background runner of each generation
  prev,       \* the generation whose runner it waits for, 0 for none
  orphan,     \* generations with a replaced runner that has not ended
  stopped,    \* the background groups told to stop
  admission,  \* GenerationManager.admission
  apply,      \* RuntimeSettingsApplication: where the one apply stands
  drained,    \* the generations the handover found without work
  phase       \* of the process: up, bridge_closed, closing, retiring

vars == <<current, life, retired, unseen, lease, ended, desk, runner, prev,
          orphan, stopped, admission, apply, drained, phase>>
retirement == <<retired, unseen>>
leases == <<lease, ended>>
background == <<runner, prev, orphan, stopped>>
applying == <<admission, apply, drained>>

Handover == {"drain_background", "drain_work", "switching"}
RunnerLives == {"waiting", "running"}
DeskHolds == {"serving", "draining", "closing", "lost"}

TypeOK ==
  /\ current \in Gens
  /\ life \in [Gens -> {"absent", "published", "closing", "closed"}]
  /\ retired \subseteq Gens
  /\ unseen \subseteq Gens
  /\ lease \in [Ops -> Gens \cup {0}]
  /\ ended \subseteq Ops
  /\ desk \in [Gens -> {"none", "released"} \cup DeskHolds]
  /\ runner \in [Gens -> {"none", "waiting", "running", "done", "failed"}]
  /\ prev \in [Gens -> Gens \cup {0}]
  /\ orphan \subseteq Gens
  /\ stopped \subseteq Gens
  /\ admission \in BOOLEAN
  /\ apply \in {"idle", "ready"} \cup Handover
  /\ drained \subseteq Gens
  /\ phase \in {"up", "bridge_closed", "closing", "retiring"}

Init ==
  /\ current = 1
  /\ life = [g \in Gens |-> IF g = 1 THEN "published" ELSE "absent"]
  /\ retired = {}
  /\ unseen = {}
  /\ lease = [o \in Ops |-> 0]
  /\ ended = {}
  /\ desk = [g \in Gens |-> IF g = 1 THEN "serving" ELSE "none"]
  /\ runner = [g \in Gens |-> IF g = 1 /\ 1 \in WithBackground
                              THEN "waiting" ELSE "none"]
  /\ prev = [g \in Gens |-> 0]
  /\ orphan = {}
  /\ stopped = {}
  /\ admission = TRUE
  /\ apply = "idle"
  /\ drained = {}
  /\ phase = "up"

-----------------------------------------------------------------------------
(* Leases.  A generation is referenced by the operations that pin it, by   *)
(* its desktop service and by its background runners.                      *)

New(o) == lease[o] = 0 /\ o \notin ended

Referenced(g) ==
  \/ \E o \in Ops : lease[o] = g
  \/ desk[g] \in DeskHolds
  \/ runner[g] \in RunnerLives
  \/ g \in orphan

(* Mutant: a lease is handed out on any generation still tracked.          *)
AcquirableTracked(g) == life[g] \in {"published", "closing"}

(* RuntimeCandidate.acquire refuses a generation that is closed, or that   *)
(* is retired and about to close.                                          *)
Acquirable(g) ==
  /\ life[g] = "published"
  /\ g \in retired => Referenced(g)

(* close_if_idle: the last release of a retired generation closes it.      *)
CloseIfIdle(g) ==
  life' = IF g \in retired' /\ life[g] = "published" /\ ~Referenced(g)'
          THEN [life EXCEPT ![g] = "closing"] ELSE life

(* New work of a channel, the scheduler or the bridge pins the published   *)
(* generation, once admission is open; channels pause their intake in the  *)
(* same step that closes it.                                               *)
Accept(o) ==
  /\ o \in Work
  /\ New(o)
  /\ admission
  /\ phase \in {"up", "bridge_closed"}
  /\ lease' = [lease EXCEPT ![o] = current]
  /\ UNCHANGED <<current, life, retirement, ended, desk, background,
                 applying, phase>>

(* A cancellation goes to the generation that runs what it cancels,        *)
(* published or retired, and does not wait for admission.                  *)
AcceptExempt(o, g) ==
  /\ o \in Exempt
  /\ New(o)
  /\ phase = "up"
  /\ Acquirable(g)
  /\ lease' = [lease EXCEPT ![o] = g]
  /\ UNCHANGED <<current, life, retirement, ended, desk, background,
                 applying, phase>>

(* RuntimeLease.retain: a detached child pins what its parent pins.        *)
Spawn(parent, o) ==
  /\ lease[parent] \in Gens
  /\ New(o)
  /\ parent \in Work <=> o \in Work
  /\ lease' = [lease EXCEPT ![o] = lease[parent]]
  /\ UNCHANGED <<current, life, retirement, ended, desk, background,
                 applying, phase>>

BackgroundSpawn(g, o) ==
  /\ runner[g] = "running"
  /\ o \in Work
  /\ New(o)
  /\ lease' = [lease EXCEPT ![o] = g]
  /\ UNCHANGED <<current, life, retirement, ended, desk, background,
                 applying, phase>>

(* Mutant: a lease is returned without looking whether it was the last.    *)
ReleaseOnly(o) ==
  /\ lease[o] \in Gens
  /\ lease' = [lease EXCEPT ![o] = 0]
  /\ ended' = ended \cup {o}
  /\ UNCHANGED <<current, life, retirement, desk, background, applying,
                 phase>>

Release(o) == \E g \in Gens :
  /\ lease[o] = g
  /\ lease' = [lease EXCEPT ![o] = 0]
  /\ ended' = ended \cup {o}
  /\ UNCHANGED <<current, retirement, desk, background, applying, phase>>
  /\ CloseIfIdle(g)

(* The task GenerationManager.retire or close_all spawned: it closes a     *)
(* generation found idle and leaves any other to its last release.         *)
RetireIdle(g) ==
  /\ g \in unseen
  /\ unseen' = unseen \ {g}
  /\ UNCHANGED <<current, retired, leases, desk, background, applying,
                 phase>>
  /\ CloseIfIdle(g)

(* The core stops and its memory closes; `drained` is set either way.      *)
FinishClose(g) ==
  /\ life[g] = "closing"
  /\ life' = [life EXCEPT ![g] = "closed"]
  /\ UNCHANGED <<current, retirement, leases, desk, background, applying,
                 phase>>

(* The desktop service of a replaced generation finishes its requests and  *)
(* chats, then closes and unpins the generation.                           *)
CloseDesk(g) ==
  /\ desk[g] = "draining"
  /\ phase = "up"
  /\ g \in SlowClose
  /\ desk' = [desk EXCEPT ![g] = "closing"]
  /\ UNCHANGED <<current, life, retirement, leases, background, applying,
                 phase>>

ReleaseDesk(g) ==
  /\ \/ desk[g] = "closing"
     \/ desk[g] = "draining" /\ g \notin SlowClose
     \/ desk[g] \in {"serving", "draining"} /\ phase = "bridge_closed"
  /\ desk' = [desk EXCEPT ![g] = "released"]
  /\ UNCHANGED <<current, retirement, leases, background, applying, phase>>
  /\ CloseIfIdle(g)

-----------------------------------------------------------------------------
(* Background loops (proactive ticks, memory optimizer).  The runner of a  *)
(* new generation waits for the runner it replaces, holding its own lease. *)

RunnerOver(g) == runner[g] \notin RunnerLives

(* Mutant: the new loops start as soon as they are published.              *)
RunnerStartAtOnce(g) ==
  /\ runner[g] = "waiting"
  /\ runner' = [runner EXCEPT ![g] = "running"]
  /\ UNCHANGED <<current, life, retirement, leases, desk, prev, orphan,
                 stopped, applying, phase>>

(* previous.drain() returns at once when that group never had a runner and *)
(* raises when its runner failed; a group stopped meanwhile never runs.    *)
RunnerStart(g) ==
  /\ runner[g] = "waiting"
  /\ prev[g] # 0 => RunnerOver(prev[g])
  /\ runner' = [runner EXCEPT ![g] =
                  IF prev[g] # 0 /\ runner[prev[g]] = "failed" THEN "failed"
                  ELSE IF g \in stopped THEN "done" ELSE "running"]
  /\ UNCHANGED <<current, retirement, leases, desk, prev, orphan, stopped,
                 applying, phase>>
  /\ CloseIfIdle(g)

(* A stopped group finishes the ticks it had accepted.                     *)
RunnerEnd(g) ==
  /\ runner[g] = "running"
  /\ g \in stopped
  /\ runner' = [runner EXCEPT ![g] = "done"]
  /\ UNCHANGED <<current, retirement, leases, desk, prev, orphan, stopped,
                 applying, phase>>
  /\ CloseIfIdle(g)

(* A loop raises out of its own error handling; its siblings are not       *)
(* followed any further.                                                   *)
RunnerFail(g) ==
  /\ runner[g] = "running"
  /\ runner' = [runner EXCEPT ![g] = "failed"]
  /\ UNCHANGED <<current, retirement, leases, desk, prev, orphan, stopped,
                 applying, phase>>
  /\ CloseIfIdle(g)

OrphanEnd(g) ==
  /\ g \in orphan
  /\ orphan' = orphan \ {g}
  /\ UNCHANGED <<current, retirement, leases, desk, runner, prev, stopped,
                 applying, phase>>
  /\ CloseIfIdle(g)

-----------------------------------------------------------------------------
(* One apply at a time, under the settings lock.                           *)

Prepare ==
  /\ apply = "idle"
  /\ phase = "up"
  /\ current < MaxGen
  /\ apply' = "ready"
  /\ UNCHANGED <<current, life, retirement, leases, desk, background,
                 admission, drained, phase>>

(* Preparation or the durable commit fails, or a channel cannot pause: the *)
(* candidate is discarded.                                                 *)
Discard ==
  /\ apply = "ready"
  /\ apply' = "idle"
  /\ UNCHANGED <<current, life, retirement, leases, desk, background,
                 admission, drained, phase>>

(* Durable commit, pointer, background, retirement of the previous         *)
(* generation, desktop service and barrier exit: no await separates them.  *)
Swap ==
  LET new == current + 1 IN
  /\ current' = new
  /\ life' = [life EXCEPT ![new] = "published"]
  /\ retired' = retired \cup {current}
  /\ unseen' = unseen \cup {current}
  /\ stopped' = stopped \cup {current}
  /\ runner' = [runner EXCEPT ![new] =
                  IF new \in WithBackground THEN "waiting" ELSE "none"]
  /\ prev' = [prev EXCEPT ![new] = current]
  /\ desk' = [desk EXCEPT ![new] = "serving", ![current] = "draining"]
  /\ admission' = TRUE
  /\ apply' = "idle"
  /\ drained' = {}
  /\ UNCHANGED <<leases, orphan, phase>>

(* No channel changes its connection: running work goes on undisturbed.    *)
PublishDirect == apply = "ready" /\ Swap

(* channel_handover_barrier: intake and admission close, every accepted    *)
(* background group is told to stop.                                       *)
BeginHandover ==
  /\ apply = "ready"
  /\ apply' = "drain_background"
  /\ admission' = FALSE
  /\ drained' = {g \in Gens : life[g] \in {"absent", "closed"}}
  /\ stopped' = stopped \cup {g \in Gens : life[g] = "published"}
  /\ UNCHANGED <<current, life, retirement, leases, desk, runner, prev,
                 orphan, phase>>

BackgroundDrained ==
  /\ apply = "drain_background"
  /\ \A g \in Gens \ drained : runner[g] \in {"none", "done"}
  /\ apply' = "drain_work"
  /\ UNCHANGED <<current, life, retirement, leases, desk, background,
                 admission, drained, phase>>

(* wait_for_work of one generation: only its desktop service is left.      *)
WorkDrained(g) ==
  /\ apply = "drain_work"
  /\ g \notin drained
  /\ \A o \in Ops : lease[o] # g
  /\ RunnerOver(g) /\ g \notin orphan
  /\ drained' = drained \cup {g}
  /\ UNCHANGED <<current, life, retirement, leases, desk, background,
                 admission, apply, phase>>

(* Mutant: the barrier waits for the published generation only.            *)
CurrentDrained ==
  /\ apply = "drain_work"
  /\ current \in drained
  /\ apply' = "switching"
  /\ UNCHANGED <<current, life, retirement, leases, desk, background,
                 admission, drained, phase>>

(* Every generation was found idle once and the outbound queue is empty.   *)
OutboundDrained ==
  /\ apply = "drain_work"
  /\ drained = Gens
  /\ apply' = "switching"
  /\ UNCHANGED <<current, life, retirement, leases, desk, background,
                 admission, drained, phase>>

(* Old connections stop, new ones start, then the commit and publication.  *)
SwitchChannels == apply = "switching" /\ Swap

(* Mutant: the barrier reopens admission only when the handover succeeds.  *)
RestoreClosed ==
  /\ apply' = "idle"
  /\ UNCHANGED <<current, life, retirement, leases, background, admission,
                 drained>>

(* The handover is given up: a new group takes over the scheduling of the  *)
(* current generation without waiting for the one it replaces.             *)
Restore ==
  /\ apply' = "idle"
  /\ admission' = TRUE
  /\ drained' = {}
  /\ runner' = [runner EXCEPT ![current] =
                  IF current \in WithBackground THEN "waiting" ELSE "none"]
  /\ prev' = [prev EXCEPT ![current] = 0]
  /\ orphan' = IF RunnerOver(current) THEN orphan ELSE orphan \cup {current}
  /\ stopped' = stopped \ {current}
  /\ UNCHANGED <<current, life, retirement, leases>>

AbortHandover ==
  /\ \/ apply = "switching"
     \/ /\ apply = "drain_background"
        /\ \A g \in Gens \ drained : RunnerOver(g)
        /\ \E g \in Gens \ drained : runner[g] = "failed"
  /\ Restore
  /\ UNCHANGED <<desk, phase>>

-----------------------------------------------------------------------------
(* The bridge stream ends: requests are cancelled, the apply among them,   *)
(* and the tasks that retire desktop services.  One cancelled inside       *)
(* run_cleanup_steps skips the release and forgets its entry.              *)
CloseBridge ==
  /\ phase = "up"
  /\ phase' = "bridge_closed"
  /\ desk' = [g \in Gens |-> IF desk[g] = "closing" THEN "lost" ELSE desk[g]]
  /\ IF apply \in Handover
     THEN Restore
     ELSE /\ apply' = "idle"
          /\ UNCHANGED <<current, life, retirement, leases, background,
                         admission, drained>>

(* Mutant: shutdown waits for the background loops without stopping them.  *)
ShutdownKeepsLoops ==
  /\ phase = "bridge_closed"
  /\ \A g \in Gens : desk[g] \notin {"serving", "draining"}
  /\ phase' = "closing"
  /\ UNCHANGED <<current, life, retirement, leases, desk, background,
                 applying>>

(* AppRuntime.shutdown: no generation can be acquired through the manager  *)
(* any more, intake closes and the background groups are stopped.          *)
Shutdown ==
  /\ phase = "bridge_closed"
  /\ \A g \in Gens : desk[g] \notin {"serving", "draining"}
  /\ phase' = "closing"
  /\ stopped' = stopped \cup {g \in Gens : life[g] = "published"}
  /\ UNCHANGED <<current, life, retirement, leases, desk, runner, prev,
                 orphan, applying>>

(* close_all, after the background groups drained.                         *)
RetireAll ==
  /\ phase = "closing"
  /\ \A g \in Gens : RunnerOver(g)
  /\ phase' = "retiring"
  /\ retired' = retired \cup {g \in Gens : life[g] = "published"}
  /\ unseen' = unseen \cup {g \in Gens : life[g] = "published"}
  /\ UNCHANGED <<current, life, leases, desk, background, applying>>

Exited == /\ phase = "retiring"
          /\ \A g \in Gens : life[g] \in {"absent", "closed"}

Exit == Exited /\ UNCHANGED vars

Next ==
  \/ \E o \in Ops : Accept(o) \/ Release(o)
  \/ \E o \in Ops, g \in Gens : AcceptExempt(o, g) \/ BackgroundSpawn(g, o)
  \/ \E o, p \in Ops : Spawn(p, o)
  \/ \E g \in Gens : \/ RetireIdle(g) \/ FinishClose(g)
                     \/ CloseDesk(g) \/ ReleaseDesk(g)
                     \/ RunnerStart(g) \/ RunnerEnd(g) \/ RunnerFail(g)
                     \/ OrphanEnd(g) \/ WorkDrained(g)
  \/ Prepare \/ Discard \/ PublishDirect
  \/ BeginHandover \/ BackgroundDrained \/ OutboundDrained
  \/ SwitchChannels \/ AbortHandover
  \/ CloseBridge \/ Shutdown \/ RetireAll \/ Exit

Spec == Init /\ [][Next]_vars

(* Accepted work ends, retirement tasks run, stopped loops finish their    *)
(* tick, and the apply goes on once what it waits for is there.  Nothing   *)
(* makes a user send work, apply settings or close the bridge.             *)
Fairness ==
  /\ \A o \in Ops : WF_vars(Release(o))
  /\ \A g \in Gens : /\ WF_vars(RetireIdle(g)) /\ WF_vars(FinishClose(g))
                     /\ WF_vars(CloseDesk(g)) /\ WF_vars(ReleaseDesk(g))
                     /\ WF_vars(RunnerStart(g))
                     /\ WF_vars(RunnerEnd(g)) /\ WF_vars(OrphanEnd(g))
                     /\ WF_vars(WorkDrained(g))
  /\ WF_vars(BackgroundDrained) /\ WF_vars(OutboundDrained)
  /\ WF_vars(SwitchChannels \/ AbortHandover)
  /\ WF_vars(Shutdown) /\ WF_vars(RetireAll)

FairSpec == Spec /\ Fairness

-----------------------------------------------------------------------------
(* No operation, desktop service or runner ever uses a generation whose    *)
(* resources are being or have been closed, whatever order publication,    *)
(* retirement, detached children and shutdown come in.                     *)
NoUseAfterClose ==
  \A g \in Gens : Referenced(g) => life[g] = "published"

(* Two generations never schedule proactive ticks and memory optimization  *)
(* at the same time while the bridge is up: RuntimeBackground.start        *)
(* "transfers scheduling only after the previous accepted work finishes".  *)
(* Holds when every generation has background loops.                       *)
OneBackground ==
  phase = "up" => \A g, h \in Gens :
    runner[g] = "running" /\ runner[h] = "running" => g = h

(* When a channel connection is switched, all work that was accepted on    *)
(* the old connection has ended and none has been accepted since.          *)
SwitchedQuietly ==
  apply = "switching" =>
    /\ \A o \in Work : lease[o] \notin Gens
    /\ \A g \in Gens : RunnerOver(g)

(* A handover always ends, with admission open again.                      *)
AdmissionReopens == ~admission ~> admission

(* A replaced generation is closed in the end.                             *)
RetiredCloses ==
  \A g \in Gens : (g \in retired) ~> (life[g] = "closed")

(* A process that began to shut down closes everything and exits:          *)
(* shutdown.py "Closes the process without leaving queued generation       *)
(* references behind".  Holds when no bridge close falls into the closing  *)
(* of a replaced desktop service.                                          *)
ShutdownEnds == phase = "closing" ~> Exited
=============================================================================
