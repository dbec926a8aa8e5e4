---------------------- MODULE RuntimeGenerationsProofs ----------------------
(***************************************************************************)
(* Safety of RuntimeGenerations for any number of generations and          *)
(* operations.                                                             *)
(*                                                                         *)
(* NoUseAfterClose is not inductive alone: new work pins the published     *)
(* generation, which must therefore be open (PublishedOpen), and           *)
(* that holds because only replaced generations are retired and an apply   *)
(* ends with the bridge.  The barrier's guarantee rests on the admission   *)
(* gate and on drained generations staying quiet.                          *)
(***************************************************************************)
EXTENDS RuntimeGenerations, TLAPS

(* An apply is under way only while the bridge is up, below the bound, and *)
(* a handover keeps admission closed.                                      *)
ApplyInUp ==
  /\ apply # "idle" => phase = "up" /\ current < MaxGen
  /\ apply \in Handover => ~admission
  /\ apply \notin Handover => drained = {}
  /\ apply = "switching" => drained = Gens

(* Generations are published in order and replaced by later ones.          *)
InOrder ==
  /\ \A g \in Gens : life[g] = "absent" <=> g > current
  /\ phase # "retiring" => \A g \in retired : g < current

(* The published generation is open until the process shuts down: new work *)
(* can always be started on it.                                            *)
PublishedOpen ==
  phase # "retiring" => life[current] = "published" /\ current \notin retired

(* A generation the barrier found idle runs no loop and no accepted work.  *)
DrainedQuiet ==
  \A g \in drained : /\ RunnerOver(g)
                     /\ \A o \in Work : lease[o] # g

IInv == /\ TypeOK /\ NoUseAfterClose /\ PublishedOpen
        /\ ApplyInUp /\ InOrder /\ DrainedQuiet

\* The inductive invariant holds at the start.
LEMMA InitInv == Init => IInv
<1> SUFFICES ASSUME Init PROVE IInv
  OBVIOUS
<1>1. 1 \in Gens /\ 0 \notin Gens /\ Gens \subseteq Nat /\ Work \subseteq Ops
  BY Parameters DEF Gens, Ops
<1>2. TypeOK
  BY <1>1 DEF Init, TypeOK, DeskHolds, Handover
<1>3. NoUseAfterClose /\ PublishedOpen
  <2>1. ASSUME NEW g \in Gens, g # 1 PROVE ~Referenced(g)
    BY <1>1, <2>1 DEF Init, Referenced, DeskHolds, RunnerLives
  <2>2. QED
    BY <1>1, <2>1 DEF Init, NoUseAfterClose, PublishedOpen
<1>4. ApplyInUp /\ InOrder /\ DrainedQuiet
  BY <1>1 DEF Init, ApplyInUp, InOrder, DrainedQuiet, Handover, Gens
<1>5. QED
  BY <1>2, <1>3, <1>4 DEF IInv

(* A conditional close keeps the type of `life`, and touches no generation *)
(* but an unreferenced, retired one.                                       *)
LEMMA CloseEffect ==
  ASSUME TypeOK, NEW g \in Gens, CloseIfIdle(g)
  PROVE  /\ life' \in [Gens -> {"absent", "published", "closing", "closed"}]
         /\ \A h \in Gens :
              \/ life'[h] = life[h]
              \/ /\ h = g /\ life[h] = "published" /\ life'[h] = "closing"
                 /\ g \in retired' /\ ~Referenced(g)'
BY DEF TypeOK, CloseIfIdle

\* New work, accepted or started by other work, keeps the invariant.
LEMMA LeaseSteps ==
  ASSUME IInv, NEW o \in Ops, NEW p \in Ops, NEW g \in Gens,
         Accept(o) \/ AcceptExempt(o, g) \/ Spawn(p, o) \/ BackgroundSpawn(g, o)
  PROVE  IInv'
<1> USE DEF IInv
<1>1. /\ Gens \subseteq Nat /\ Work \subseteq Ops /\ 0 \notin Gens
  BY Parameters DEF Gens, Ops
<1>2. \E h \in Gens : /\ lease' = [lease EXCEPT ![o] = h]
                      /\ life[h] = "published"
                      /\ o \in Work => h \notin drained
  <2>1. CASE Accept(o)
    BY <1>1, <2>1 DEF Accept, TypeOK, PublishedOpen, ApplyInUp
  <2>2. CASE AcceptExempt(o, g)
    BY <1>1, <2>2, Parameters DEF AcceptExempt, Acquirable
  <2>3. CASE Spawn(p, o)
    BY <1>1, <2>3 DEF Spawn, TypeOK, NoUseAfterClose, Referenced, DrainedQuiet
  <2>4. CASE BackgroundSpawn(g, o)
    BY <1>1, <2>4 DEF BackgroundSpawn, TypeOK, NoUseAfterClose, Referenced,
                      RunnerLives, RunnerOver, DrainedQuiet
  <2>5. QED
    BY <2>1, <2>2, <2>3, <2>4
<1>3. UNCHANGED <<current, life, retirement, ended, desk, background,
                  applying, phase>>
  BY DEF Accept, AcceptExempt, Spawn, BackgroundSpawn
<1>4. PICK h \in Gens : /\ lease' = [lease EXCEPT ![o] = h]
                        /\ life[h] = "published"
                        /\ o \in Work => h \notin drained
  BY <1>2
<1>5. TypeOK'
  BY <1>3, <1>4 DEF TypeOK, retirement, background, applying
<1>6. NoUseAfterClose'
  BY <1>3, <1>4 DEF TypeOK, NoUseAfterClose, Referenced, background
<1>7. PublishedOpen' /\ ApplyInUp' /\ InOrder'
  BY <1>3 DEF PublishedOpen, ApplyInUp, InOrder, retirement, applying
<1>8. DrainedQuiet'
  BY <1>1, <1>3, <1>4 DEF DrainedQuiet, TypeOK, RunnerOver, background, applying
<1>9. QED
  BY <1>5, <1>6, <1>7, <1>8

(* References only go away, and the generation may close.                  *)
LEMMA ReleaseSteps ==
  ASSUME IInv, NEW g \in Gens,
         \/ \E o \in Ops : Release(o)
         \/ RetireIdle(g) \/ FinishClose(g) \/ CloseDesk(g)
         \/ ReleaseDesk(g) \/ OrphanEnd(g)
  PROVE  IInv'
<1> USE DEF IInv
<1>1. /\ Gens \subseteq Nat /\ Work \subseteq Ops /\ 0 \notin Gens
  BY Parameters DEF Gens, Ops
<1>2. /\ TypeOK'
      /\ \A h \in Gens : Referenced(h)' => Referenced(h)
      /\ \A h \in Gens :
           \/ life'[h] = life[h]
           \/ /\ life[h] = "published" /\ life'[h] = "closing"
              /\ h \in retired /\ ~Referenced(h)'
           \/ life[h] = "closing" /\ life'[h] = "closed"
      /\ UNCHANGED <<current, retired, runner, applying, phase>>
      /\ \A w \in Ops : lease'[w] = lease[w] \/ lease'[w] = 0
  <2>1. CASE \E o \in Ops : Release(o)
    <3>1. PICK o \in Ops, h \in Gens :
            /\ lease[o] = h
            /\ lease' = [lease EXCEPT ![o] = 0]
            /\ ended' = ended \cup {o}
            /\ UNCHANGED <<current, retirement, desk, background, applying,
                           phase>>
            /\ CloseIfIdle(h)
      BY <2>1 DEF Release
    <3>2. TypeOK'
      BY <3>1, CloseEffect DEF TypeOK, retirement, background, applying
    <3>3. \A i \in Gens : Referenced(i)' => Referenced(i)
      BY <3>1, <1>1 DEF TypeOK, Referenced, background
    <3>4. QED
      BY <3>1, <3>2, <3>3, CloseEffect DEF TypeOK, retirement, background
  <2>2. CASE RetireIdle(g)
    <3>1. TypeOK'
      BY <2>2, CloseEffect DEF RetireIdle, TypeOK, leases, background, applying
    <3>2. QED
      BY <2>2, <3>1, CloseEffect DEF RetireIdle, TypeOK, leases, background,
                                     Referenced
  <2>3. CASE FinishClose(g)
    BY <2>3 DEF FinishClose, TypeOK, leases, background, retirement, applying,
                Referenced
  <2>4. CASE CloseDesk(g)
    BY <2>4 DEF CloseDesk, TypeOK, leases, background, retirement, applying,
                Referenced, DeskHolds
  <2>5. CASE ReleaseDesk(g)
    <3>1. TypeOK'
      BY <2>5, CloseEffect DEF ReleaseDesk, TypeOK, leases, background,
                               retirement, applying
    <3>2. \A h \in Gens : Referenced(h)' => Referenced(h)
      BY <2>5 DEF ReleaseDesk, TypeOK, leases, background, Referenced, DeskHolds
    <3>3. QED
      BY <2>5, <3>1, <3>2, CloseEffect DEF ReleaseDesk, TypeOK, leases,
                                           background, retirement
  <2>6. CASE OrphanEnd(g)
    <3>1. TypeOK'
      BY <2>6, CloseEffect DEF OrphanEnd, TypeOK, leases, retirement, applying
    <3>2. \A h \in Gens : Referenced(h)' => Referenced(h)
      BY <2>6 DEF OrphanEnd, TypeOK, leases, Referenced
    <3>3. QED
      BY <2>6, <3>1, <3>2, CloseEffect DEF OrphanEnd, TypeOK, leases, retirement
  <2>7. QED
    BY <2>1, <2>2, <2>3, <2>4, <2>5, <2>6
<1>3. NoUseAfterClose'
  <2> SUFFICES ASSUME NEW h \in Gens, Referenced(h)'
               PROVE  life'[h] = "published"
    BY DEF NoUseAfterClose
  <2>1. life[h] = "published"
    BY <1>2 DEF NoUseAfterClose
  <2>2. QED
    BY <1>2, <2>1
<1>4. PublishedOpen'
  BY <1>2 DEF PublishedOpen, TypeOK
<1>5. ApplyInUp' /\ InOrder'
  BY <1>2 DEF ApplyInUp, InOrder, applying
<1>6. DrainedQuiet'
  BY <1>1, <1>2 DEF DrainedQuiet, RunnerOver, applying, TypeOK
<1>7. QED
  BY <1>2, <1>3, <1>4, <1>5, <1>6

\* The start and the end of a generation's loops keep the invariant.
LEMMA RunnerSteps ==
  ASSUME IInv, NEW g \in Gens, RunnerStart(g) \/ RunnerEnd(g) \/ RunnerFail(g)
  PROVE  IInv'
<1> USE DEF IInv
<1>1. PICK r \in {"running", "done", "failed"} :
        /\ runner' = [runner EXCEPT ![g] = r]
        /\ runner[g] \in RunnerLives
  BY DEF RunnerStart, RunnerEnd, RunnerFail, RunnerLives
<1>2. /\ CloseIfIdle(g)
      /\ UNCHANGED <<current, retirement, leases, desk, prev, orphan, stopped,
                     applying, phase>>
  BY DEF RunnerStart, RunnerEnd, RunnerFail
<1>3. TypeOK'
  BY <1>1, <1>2, CloseEffect DEF TypeOK, leases, retirement, applying
<1>4. NoUseAfterClose'
  <2> SUFFICES ASSUME NEW h \in Gens, Referenced(h)'
               PROVE  life'[h] = "published"
    BY DEF NoUseAfterClose
  <2>1. Referenced(h)
    BY <1>1, <1>2 DEF Referenced, TypeOK, leases
  <2>2. QED
    BY <1>2, <2>1, CloseEffect DEF NoUseAfterClose
<1>5. PublishedOpen'
  BY <1>2, CloseEffect DEF PublishedOpen, TypeOK, retirement
<1>6. ApplyInUp' /\ InOrder'
  BY <1>2, CloseEffect DEF ApplyInUp, InOrder, applying, retirement
<1>7. DrainedQuiet'
  BY <1>1, <1>2 DEF DrainedQuiet, RunnerOver, applying, TypeOK, leases
<1>8. QED
  BY <1>3, <1>4, <1>5, <1>6, <1>7

\* Publishing a candidate keeps the invariant.
LEMMA PublishStep ==
  ASSUME IInv, Swap, apply \in {"ready", "switching"}
  PROVE  IInv'
<1> USE DEF IInv
<1> DEFINE new == current + 1
<1>1. /\ phase = "up" /\ current < MaxGen /\ new \in Gens /\ current \in Gens
      /\ Gens \subseteq Nat /\ new # current
  BY Parameters DEF ApplyInUp, TypeOK, Gens
<1>2. TypeOK'
  BY <1>1 DEF Swap, TypeOK, leases, DeskHolds
<1>3. NoUseAfterClose'
  <2> SUFFICES ASSUME NEW h \in Gens, Referenced(h)'
               PROVE  life'[h] = "published"
    BY DEF NoUseAfterClose
  <2>1. CASE h = new
    BY <1>1, <2>1 DEF Swap, TypeOK
  <2>2. CASE h = current
    BY <1>1, <2>2 DEF Swap, TypeOK, PublishedOpen
  <2>3. CASE h # new /\ h # current
    <3>1. Referenced(h)
      BY <1>1, <2>3 DEF Swap, TypeOK, Referenced, leases
    <3>2. QED
      BY <2>3, <3>1 DEF Swap, TypeOK, NoUseAfterClose
  <2>4. QED
    BY <2>1, <2>2, <2>3
<1>4. PublishedOpen' /\ InOrder'
  BY <1>1 DEF Swap, TypeOK, PublishedOpen, InOrder
<1>5. ApplyInUp' /\ DrainedQuiet'
  BY DEF Swap, ApplyInUp, DrainedQuiet, Handover
<1>6. QED
  BY <1>2, <1>3, <1>4, <1>5

\* Putting the replaced generation back keeps the invariant.
LEMMA RestoreStep ==
  ASSUME IInv, Restore, phase # "retiring",
         desk' \in [Gens -> {"none", "released"} \cup DeskHolds],
         \A g \in Gens : desk'[g] \in DeskHolds => desk[g] \in DeskHolds,
         phase' \in {"up", "bridge_closed"}
  PROVE  IInv'
<1> USE DEF IInv
<1>1. TypeOK'
  BY DEF Restore, TypeOK, leases, retirement
<1>2. NoUseAfterClose'
  <2> SUFFICES ASSUME NEW h \in Gens, Referenced(h)'
               PROVE  life'[h] = "published"
    BY DEF NoUseAfterClose
  <2>1. CASE h = current
    BY <2>1 DEF Restore, PublishedOpen
  <2>2. CASE h # current
    <3>1. Referenced(h)
      BY <2>2 DEF Restore, TypeOK, Referenced, leases
    <3>2. QED
      BY <3>1 DEF Restore, NoUseAfterClose
  <2>3. QED
    BY <2>1, <2>2
<1>3. PublishedOpen' /\ InOrder'
  BY DEF Restore, PublishedOpen, InOrder, retirement
<1>4. ApplyInUp' /\ DrainedQuiet'
  BY DEF Restore, ApplyInUp, DrainedQuiet, Handover
<1>5. QED
  BY <1>1, <1>2, <1>3, <1>4

(* The steps of an apply other than publication.                           *)
LEMMA ApplySteps ==
  ASSUME IInv,
         \/ Prepare \/ Discard \/ BeginHandover \/ BackgroundDrained
         \/ \E g \in Gens : WorkDrained(g)
         \/ OutboundDrained \/ AbortHandover
  PROVE  IInv'
<1> USE DEF IInv
<1>1. CASE Prepare \/ Discard \/ BackgroundDrained \/ OutboundDrained
  <2>1. /\ TypeOK'
        /\ UNCHANGED <<current, life, retirement, leases, desk, background,
                       admission, drained, phase>>
    BY <1>1 DEF Prepare, Discard, BackgroundDrained, OutboundDrained, TypeOK,
                leases, background, retirement, Handover
  <2>2. NoUseAfterClose' /\ PublishedOpen' /\ InOrder' /\ DrainedQuiet'
    BY <2>1 DEF NoUseAfterClose, PublishedOpen, InOrder, DrainedQuiet,
                Referenced, RunnerOver, leases, background, retirement
  <2>3. ApplyInUp'
    BY <1>1 DEF Prepare, Discard, BackgroundDrained, OutboundDrained,
                ApplyInUp, Handover
  <2>4. QED
    BY <2>1, <2>2, <2>3
<1>2. CASE BeginHandover
  <2>1. TypeOK'
    BY <1>2 DEF BeginHandover, TypeOK, leases, retirement, Handover
  <2>2. NoUseAfterClose' /\ PublishedOpen' /\ InOrder' /\ ApplyInUp'
    BY <1>2 DEF BeginHandover, NoUseAfterClose, PublishedOpen, InOrder,
                ApplyInUp, Handover, Referenced, leases, retirement
  <2>3. DrainedQuiet'
    <3> SUFFICES ASSUME NEW g \in drained'
                 PROVE  /\ RunnerOver(g)'
                        /\ \A o \in Work : lease'[o] # g
      BY DEF DrainedQuiet
    <3>1. g \in Gens /\ ~Referenced(g)
      BY <1>2 DEF BeginHandover, NoUseAfterClose
    <3>2. QED
      BY <1>2, <3>1, Parameters DEF BeginHandover, Referenced, RunnerOver,
                                    leases, Ops
  <2>4. QED
    BY <2>1, <2>2, <2>3
<1>3. CASE \E g \in Gens : WorkDrained(g)
  <2>1. PICK g \in Gens : WorkDrained(g)
    BY <1>3
  <2>2. TypeOK'
    BY <2>1 DEF WorkDrained, TypeOK, leases, background, retirement
  <2>3. NoUseAfterClose' /\ PublishedOpen' /\ InOrder' /\ ApplyInUp'
    BY <2>1 DEF WorkDrained, NoUseAfterClose, PublishedOpen, InOrder,
                ApplyInUp, Handover, Referenced, leases, background, retirement
  <2>4. DrainedQuiet'
    BY <2>1, Parameters DEF WorkDrained, DrainedQuiet, RunnerOver, leases,
                            background, Ops
  <2>5. QED
    BY <2>2, <2>3, <2>4
<1>4. CASE AbortHandover
  <2>1. phase = "up"
    BY <1>4 DEF AbortHandover, ApplyInUp
  <2>2. QED
    BY <1>4, <2>1, RestoreStep DEF AbortHandover, TypeOK
<1>5. QED
  BY <1>1, <1>2, <1>3, <1>4

\* Closing the bridge and retiring every generation keep the invariant.
LEMMA ShutdownSteps ==
  ASSUME IInv, CloseBridge \/ Shutdown \/ RetireAll
  PROVE  IInv'
<1> USE DEF IInv
<1>1. CASE CloseBridge
  <2>1. /\ desk' \in [Gens -> {"none", "released"} \cup DeskHolds]
        /\ \A g \in Gens : desk'[g] \in DeskHolds => desk[g] \in DeskHolds
    BY <1>1 DEF CloseBridge, TypeOK, DeskHolds
  <2>2. CASE apply \in Handover
    BY <1>1, <2>1, <2>2, RestoreStep DEF CloseBridge
  <2>3. CASE apply \notin Handover
    <3>1. TypeOK' /\ NoUseAfterClose'
      BY <1>1, <2>1, <2>3 DEF CloseBridge, TypeOK, NoUseAfterClose, Referenced,
                              leases, background, retirement
    <3>2. PublishedOpen' /\ InOrder' /\ ApplyInUp' /\ DrainedQuiet'
      BY <1>1, <2>3 DEF CloseBridge, PublishedOpen, InOrder, ApplyInUp,
                        DrainedQuiet, Handover, retirement
    <3>3. QED
      BY <3>1, <3>2
  <2>4. QED
    BY <2>2, <2>3
<1>2. CASE Shutdown
  <2>1. TypeOK' /\ NoUseAfterClose'
    BY <1>2 DEF Shutdown, TypeOK, NoUseAfterClose, Referenced, leases,
                retirement, applying
  <2>2. PublishedOpen' /\ InOrder' /\ ApplyInUp' /\ DrainedQuiet'
    BY <1>2 DEF Shutdown, PublishedOpen, InOrder, ApplyInUp, DrainedQuiet,
                Handover, RunnerOver, leases, retirement, applying
  <2>3. QED
    BY <2>1, <2>2
<1>3. CASE RetireAll
  <2>1. TypeOK' /\ NoUseAfterClose'
    BY <1>3 DEF RetireAll, TypeOK, NoUseAfterClose, Referenced, leases,
                background, applying
  <2>2. PublishedOpen' /\ InOrder' /\ ApplyInUp' /\ DrainedQuiet'
    BY <1>3 DEF RetireAll, PublishedOpen, InOrder, ApplyInUp, DrainedQuiet,
                Handover, RunnerOver, leases, background, applying
  <2>3. QED
    BY <2>1, <2>2
<1>4. QED
  BY <1>1, <1>2, <1>3

\* Every step keeps the invariant.
LEMMA Inductive == IInv /\ [Next]_vars => IInv'
<1> SUFFICES ASSUME IInv, [Next]_vars PROVE IInv'
  OBVIOUS
<1>0. 1 \in Gens
  BY Parameters DEF Gens
<1>1. CASE \/ \E o \in Ops : Accept(o)
           \/ \E o \in Ops, g \in Gens :
                AcceptExempt(o, g) \/ BackgroundSpawn(g, o)
           \/ \E o, p \in Ops : Spawn(p, o)
  <2>1. PICK o \in Ops, p \in Ops, g \in Gens :
          \/ Accept(o) \/ AcceptExempt(o, g)
          \/ Spawn(p, o) \/ BackgroundSpawn(g, o)
    BY <1>0, <1>1
  <2>2. QED
    BY <2>1, LeaseSteps
<1>2. CASE \/ \E o \in Ops : Release(o)
           \/ \E g \in Gens : \/ RetireIdle(g) \/ FinishClose(g) \/ CloseDesk(g)
                              \/ ReleaseDesk(g) \/ OrphanEnd(g)
  BY <1>0, <1>2, ReleaseSteps
<1>3. CASE \E g \in Gens : RunnerStart(g) \/ RunnerEnd(g) \/ RunnerFail(g)
  BY <1>3, RunnerSteps
<1>4. CASE PublishDirect \/ SwitchChannels
  BY <1>4, PublishStep DEF PublishDirect, SwitchChannels
<1>5. CASE \/ Prepare \/ Discard \/ BeginHandover \/ BackgroundDrained
           \/ \E g \in Gens : WorkDrained(g)
           \/ OutboundDrained \/ AbortHandover
  BY <1>5, ApplySteps
<1>6. CASE CloseBridge \/ Shutdown \/ RetireAll
  BY <1>6, ShutdownSteps
<1>7. CASE UNCHANGED vars
  BY <1>7 DEF vars, IInv, TypeOK, NoUseAfterClose, PublishedOpen,
              ApplyInUp, InOrder, DrainedQuiet, Referenced, RunnerOver
<1>8. QED
  BY <1>1, <1>2, <1>3, <1>4, <1>5, <1>6, <1>7 DEF Next, Exit

(* The state of publication, handover, retirement and shutdown keeps its   *)
(* types.                                                                  *)
THEOREM TypeCorrect == Spec => []TypeOK
<1>1. IInv => TypeOK
  BY DEF IInv
<1>2. QED
  BY InitInv, Inductive, <1>1, PTL DEF Spec

(* Nothing references a generation that is closing or closed.              *)
THEOREM NoUseAfterCloseCorrect == Spec => []NoUseAfterClose
<1>1. IInv => NoUseAfterClose
  BY DEF IInv
<1>2. QED
  BY InitInv, Inductive, <1>1, PTL DEF Spec

(* A connection is switched only when no loop runs and no accepted work is *)
(* left.                                                                   *)
THEOREM SwitchedQuietlyCorrect == Spec => []SwitchedQuietly
<1>1. IInv => SwitchedQuietly
  BY DEF IInv, SwitchedQuietly, ApplyInUp, DrainedQuiet
<1>2. QED
  BY InitInv, Inductive, <1>1, PTL DEF Spec

(* With loops in every generation, each generation's runner waits for the  *)
(* one before it, and only the oldest unfinished runner is running.        *)
LoopsInOrder == phase = "up" =>
  \A g \in Gens :
    /\ g > current <=> runner[g] = "none"
    /\ prev[g] = 0 \/ prev[g] = g - 1
    /\ g <= current /\ (prev[g] = 0 \/ runner[g] # "waiting") =>
         \A h \in Gens : h < g => RunnerOver(h)

\* A runner waits for those of older generations.
LEMMA LoopsInductive ==
  ASSUME WithBackground = Gens, IInv, LoopsInOrder, [Next]_vars
  PROVE  LoopsInOrder'
<1> USE DEF LoopsInOrder
<1>1. SUFFICES ASSUME phase' = "up" PROVE LoopsInOrder'
  OBVIOUS
<1>2. phase = "up" /\ TypeOK /\ Gens \subseteq Nat /\ 0 \notin Gens
  BY <1>1, Parameters
     DEF IInv, Gens, Next, vars, Exit, Accept, Release, AcceptExempt, Spawn,
         BackgroundSpawn, RetireIdle, FinishClose, CloseDesk, ReleaseDesk,
         RunnerStart, RunnerEnd, RunnerFail, OrphanEnd, WorkDrained, Prepare,
         Discard, PublishDirect, Swap, BeginHandover, BackgroundDrained,
         OutboundDrained, SwitchChannels, AbortHandover, CloseBridge, Shutdown,
         RetireAll
<1>3. CASE UNCHANGED <<current, runner, prev>>
  BY <1>2, <1>3 DEF RunnerOver
<1>4. ASSUME NEW g \in Gens, RunnerStart(g) \/ RunnerEnd(g) \/ RunnerFail(g)
      PROVE  LoopsInOrder'
  <2>1. /\ UNCHANGED <<current, prev>>
        /\ runner' \in [Gens -> {"none", "waiting", "running", "done", "failed"}]
        /\ \A h \in Gens \ {g} : runner'[h] = runner[h]
        /\ runner'[g] \in {"running", "done", "failed"}
        /\ runner[g] \in RunnerLives
    BY <1>2, <1>4 DEF RunnerStart, RunnerEnd, RunnerFail, TypeOK, RunnerLives
  <2>2. \A h \in Gens : h < g => RunnerOver(h)
    <3>1. CASE runner[g] = "waiting"
      <4>1. prev[g] # 0 => RunnerOver(prev[g])
        BY <1>4, <3>1 DEF RunnerStart, RunnerEnd, RunnerFail
      <4>2. CASE prev[g] = 0
        BY <1>2, <2>1, <3>1, <4>2 DEF TypeOK
      <4>3. CASE prev[g] = g - 1 /\ prev[g] # 0
        <5>1. /\ g \in Nat /\ current \in Nat /\ g <= current
              /\ g - 1 \in Gens /\ g - 1 <= current
          BY <1>2, <3>1, <4>3 DEF TypeOK
        <5>2. runner[g - 1] # "waiting" /\ RunnerOver(g - 1)
          BY <4>1, <4>3 DEF RunnerOver, RunnerLives
        <5>3. \A h \in Gens : h < g - 1 => RunnerOver(h)
          BY <1>2, <5>1, <5>2
        <5>4. QED
          BY <1>2, <5>1, <5>2, <5>3
      <4>4. QED
        BY <1>2, <4>2, <4>3
    <3>2. CASE runner[g] = "running"
      BY <1>2, <3>2 DEF TypeOK
    <3>3. QED
      BY <2>1, <3>1, <3>2 DEF RunnerLives
  <2>3. \A h \in Gens : RunnerOver(h) => RunnerOver(h)'
    BY <2>1 DEF RunnerOver
  <2>4. QED
    BY <1>2, <2>1, <2>2, <2>3 DEF TypeOK, RunnerLives
<1>5. CASE PublishDirect \/ SwitchChannels
  <2>1. Swap /\ current < MaxGen /\ current \in Gens /\ current + 1 \in Gens
    BY <1>2, <1>5, Parameters DEF PublishDirect, SwitchChannels, IInv, ApplyInUp,
                                  TypeOK, Gens
  <2>2. /\ current' = current + 1
        /\ runner' = [runner EXCEPT ![current + 1] = "waiting"]
        /\ prev' = [prev EXCEPT ![current + 1] = current]
    BY <2>1 DEF Swap
  <2>3. QED
    BY <1>2, <2>1, <2>2 DEF TypeOK, RunnerOver, RunnerLives
<1>6. CASE AbortHandover
  <2>1. \A g \in Gens : RunnerOver(g)
    BY <1>6 DEF AbortHandover, IInv, ApplyInUp, DrainedQuiet
  <2>2. /\ current' = current /\ current \in Gens
        /\ runner' = [runner EXCEPT ![current] = "waiting"]
        /\ prev' = [prev EXCEPT ![current] = 0]
    BY <1>2, <1>6 DEF AbortHandover, Restore, TypeOK
  <2>3. QED
    BY <1>2, <2>1, <2>2 DEF TypeOK, RunnerOver, RunnerLives
<1>7. CASE CloseBridge
  BY <1>1, <1>7 DEF CloseBridge
<1>8. QED
  BY <1>3, <1>4, <1>5, <1>6, <1>7
     DEF Next, vars, Exit, Accept, Release, AcceptExempt, Spawn,
         BackgroundSpawn, RetireIdle, FinishClose, CloseDesk, ReleaseDesk,
         OrphanEnd, WorkDrained, Prepare, Discard, BeginHandover,
         BackgroundDrained, OutboundDrained, Shutdown, RetireAll, background

(* When every generation has background loops, those of two generations    *)
(* never run at once.                                                      *)
THEOREM OneBackgroundCorrect ==
  ASSUME WithBackground = Gens
  PROVE  Spec => []OneBackground
<1>1. Init => LoopsInOrder
  BY Parameters DEF Init, LoopsInOrder, Gens
<1>2. IInv /\ LoopsInOrder /\ [Next]_vars => LoopsInOrder'
  BY LoopsInductive
<1>3. IInv /\ LoopsInOrder => OneBackground
  <2> SUFFICES ASSUME IInv, LoopsInOrder, phase = "up",
                      NEW g \in Gens, NEW h \in Gens,
                      runner[g] = "running", runner[h] = "running", g < h
               PROVE  FALSE
    BY DEF OneBackground, Gens
  <2>1. h <= current
    BY DEF LoopsInOrder, IInv, TypeOK, Gens
  <2>2. QED
    BY <2>1 DEF LoopsInOrder, RunnerOver, RunnerLives
<1>4. QED
  BY InitInv, Inductive, <1>1, <1>2, <1>3, PTL DEF Spec
=============================================================================
