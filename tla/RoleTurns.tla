------------------------------ MODULE RoleTurns ------------------------------
(* The turns of one role: every transport shares the role's session, its lock *)
(* and one entry in the interrupt registry of AgentLoop.  Desktop turns come  *)
(* from DesktopChatService.start_chat_turn, inbound turns from the single     *)
(* consumer RuntimeDispatcher.run, job turns from soft scheduled jobs.  A     *)
(* turn's work runs in an inner task (_process_role_scoped) which a wrapper   *)
(* (process_direct, process_inbound) awaits; a desktop turn has a runner task *)
(* around the wrapper.                                                        *)
EXTENDS Naturals

CONSTANTS Desktop, Inbound, Jobs,  \* the turns, by origin
          Cancels, Stops,          \* interrupt requests of the desktop and of channels
          None

Turns == Desktop \cup Inbound \cup Jobs

ASSUME Origins == /\ Desktop \cap Inbound = {} /\ Desktop \cap Jobs = {} /\ Inbound \cap Jobs = {}
                  /\ Cancels \cap Stops = {} /\ None \notin Turns \cup Cancels \cup Stops
                  /\ \A d \in Desktop : None # [turn |-> d, completed |-> FALSE]

VARIABLES
  where,      \* how far each turn is
  outcome,    \* how the inner task of a desktop turn ended, until its runner reads it
  cancelling, \* inner tasks with an undelivered cancellation
  aborting,   \* desktop turns whose runner task was cancelled
  holder,     \* the turn holding the role's turn_lock
  ahead,      \* the waiters each turn found at the lock, which is first-come first-served
  active,     \* _active_tasks[key]: the turn registered last
  state,      \* _active_turn_states[key]: absent, or does it hold a partial trace
  snap,       \* _interrupt_states[key]: the request that took the snapshot
  resumed,    \* turns that continue an interrupted one
  slot,       \* DesktopChatService._tasks_by_session[key]
  committed,  \* desktop turns whose handlers saw a TurnCommitted (run_chat_turn)
  terminal,   \* the terminal event of a desktop turn
  full,       \* the reply of a desktop turn: none, in the session cache, in the database
  partial,    \* how many interrupted replies were saved under a turn's id
  pending,    \* desktop cancellations waiting for their turn's cleanup
  used        \* interrupt requests made so far

turnVars == <<where, outcome, cancelling, holder, ahead>>
registry == <<active, state>>
interrupts == <<snap, resumed>>
desk == <<slot, committed, terminal, aborting>>
log == <<full, partial>>
requests == <<pending, used>>
vars == <<turnVars, registry, interrupts, desk, log, requests>>

\* The inner task holds the role lock from "running" to "announced" and is done from "closed" on.
Executing == {"running", "saving", "saved", "announced"}
Live == Executing \cup {"queued"}
Places == Live \cup {"new", "closed", "ending", "emitting", "over"}
Outcomes == {"none", "returned", "raised", "cancelled"}
Slot == [turn : Desktop, completed : BOOLEAN]
States == {"none", "blank", "traced"}
Request == [by : Cancels, turn : Desktop, trace : States]

\* The variables take values the code can give them; a registered turn has a state.
TypeOK ==
  /\ where \in [Turns -> Places]
  /\ outcome \in [Desktop -> Outcomes]
  /\ cancelling \subseteq Turns
  /\ aborting \subseteq Desktop
  /\ holder \in Turns \cup {None}
  /\ ahead \in [Turns -> SUBSET Turns]
  /\ active \in Turns \cup {None}
  /\ state \in States /\ (active # None => state # "none")
  /\ snap \in Cancels \cup Stops \cup {None}
  /\ resumed \subseteq Turns
  /\ slot \in Slot \cup {None}
  /\ committed \subseteq Desktop
  /\ terminal \in [Desktop -> {"none", "done", "error"}]
  /\ full \in [Desktop -> {"none", "cached", "stored"}]
  /\ partial \in [Desktop -> Nat]
  /\ pending \subseteq Request
  /\ used \subseteq Cancels \cup Stops

Init ==
  /\ where = [t \in Turns |-> "new"]
  /\ outcome = [d \in Desktop |-> "none"]
  /\ cancelling = {} /\ aborting = {} /\ resumed = {} /\ committed = {}
  /\ pending = {} /\ used = {}
  /\ holder = None /\ active = None /\ state = "none" /\ snap = None /\ slot = None
  /\ ahead = [t \in Turns |-> {}]
  /\ terminal = [d \in Desktop |-> "none"]
  /\ full = [d \in Desktop |-> "none"]
  /\ partial = [d \in Desktop |-> 0]

-----------------------------------------------------------------------------
(* Starting a turn: its registration replaces the one of any other turn.      *)

Move(t, place) == where' = [where EXCEPT ![t] = place]

Register(t) ==
  /\ where[t] = "new"
  /\ Move(t, "queued")
  /\ ahead' = [ahead EXCEPT ![t] = {u \in Turns : where[u] = "queued"}]
  /\ active' = t
  /\ state' = "blank"
  /\ UNCHANGED <<outcome, cancelling, holder, interrupts, log, requests>>

Busy == slot # None /\ ~slot.completed /\ where[slot.turn] # "over"

StartDesktop(d) ==
  /\ ~Busy
  /\ Register(d)
  /\ slot' = [turn |-> d, completed |-> FALSE]
  /\ UNCHANGED <<committed, terminal, aborting>>

\* The consumer of inbound items awaits each of them; jobs start whenever they are due.
StartOther(t) ==
  /\ t \in Inbound => \A m \in Inbound : where[m] \in {"new", "over"}
  /\ Register(t)
  /\ UNCHANGED desk

-----------------------------------------------------------------------------
(* The inner task.  A cancelled one takes no further step of its own.         *)

\* A turn from a channel continues the interrupted one or drops its expired snapshot;
\* a desktop message and the report of a background task leave it alone.
Resume(t) ==
  \/ UNCHANGED <<snap, resumed, state>>
  \/ /\ t \notin Desktop /\ snap # None
     /\ snap' = None
     /\ UNCHANGED <<resumed, state>>
  \/ /\ t \notin Desktop /\ snap # None
     /\ resumed' = resumed \cup {t}
     /\ state' = "blank"
     /\ UNCHANGED snap

Enter(t) ==
  /\ where[t] = "queued" /\ t \notin cancelling
  /\ holder = None
  /\ \A u \in ahead[t] : where[u] # "queued"
  /\ holder' = t
  /\ Move(t, "running")
  /\ ahead' = [ahead EXCEPT ![t] = {}]
  /\ Resume(t)
  /\ UNCHANGED <<outcome, cancelling, active, desk, log, requests>>

\* A streamed delta or a finished step goes to whatever state is registered.
Trace(t) ==
  /\ where[t] = "running" /\ t \notin cancelling
  /\ state = "blank"
  /\ state' = "traced"
  /\ UNCHANGED <<turnVars, active, interrupts, desk, log, requests>>

Replied(t, how) == [d \in Desktop |-> IF d = t THEN how ELSE full[d]]

\* The messages are added to the cached session, then wait for its write lock.
Cache(t) ==
  /\ where[t] = "running" /\ t \notin cancelling
  /\ Move(t, "saving")
  /\ full' = Replied(t, "cached")
  /\ UNCHANGED <<outcome, cancelling, holder, ahead, registry, interrupts, desk, partial, requests>>

Store(t) ==
  /\ where[t] = "saving" /\ t \notin cancelling
  /\ Move(t, "saved")
  /\ full' = Replied(t, "stored")
  /\ UNCHANGED <<outcome, cancelling, holder, ahead, registry, interrupts, desk, partial, requests>>

\* Handlers are on from the start of a desktop turn to the end of run_chat_turn.
Listening == {d \in Desktop : where[d] \in Live \cup {"closed", "ending"}}

Announce(t) ==
  /\ where[t] = "saved" /\ t \notin cancelling
  /\ Move(t, "announced")
  /\ committed' = committed \cup Listening
  /\ UNCHANGED <<outcome, cancelling, holder, ahead, registry, interrupts, slot, terminal, aborting, log, requests>>

\* Mutant: a cancelled waiter releases the lock of whoever holds it.
CloseReleases(t, how) ==
  /\ Move(t, "closed")
  /\ outcome' = [d \in Desktop |-> IF d = t THEN how ELSE outcome[d]]
  /\ cancelling' = cancelling \ {t}
  /\ resumed' = resumed \ {t}
  /\ holder' = None
  /\ ahead' = [ahead EXCEPT ![t] = {}]
  /\ UNCHANGED <<registry, desk, log, requests>>

\* Mutant: the lock is released after the operation but not in a finally.
CloseKeeps(t, how) ==
  /\ Move(t, "closed")
  /\ outcome' = [d \in Desktop |-> IF d = t THEN how ELSE outcome[d]]
  /\ cancelling' = cancelling \ {t}
  /\ resumed' = resumed \ {t}
  /\ holder' = IF holder = t /\ how = "returned" THEN None ELSE holder
  /\ ahead' = [ahead EXCEPT ![t] = {}]
  /\ UNCHANGED <<registry, desk, log, requests>>

\* The inner task ends and lets go of the lock if it has it.
Close(t, how) ==
  /\ Move(t, "closed")
  /\ outcome' = [d \in Desktop |-> IF d = t THEN how ELSE outcome[d]]
  /\ cancelling' = cancelling \ {t}
  /\ resumed' = resumed \ {t}
  /\ holder' = IF holder = t THEN None ELSE holder
  /\ ahead' = [ahead EXCEPT ![t] = {}]
  /\ UNCHANGED <<registry, desk, log, requests>>

\* A turn that resumed an interrupted one drops whatever snapshot is there.
Consume(t) == snap' = IF t \in resumed THEN None ELSE snap

Complete(t) ==
  /\ where[t] = "announced" /\ t \notin cancelling
  /\ Close(t, "returned")
  /\ Consume(t)

\* A gate or a provider error ends the turn with a text and no persisted reply.
Refuse(t) ==
  /\ where[t] = "running" /\ t \notin cancelling
  /\ Close(t, "returned")
  /\ Consume(t)

Raise(t) ==
  /\ where[t] \in Live /\ t \notin cancelling
  /\ Close(t, "raised")
  /\ UNCHANGED snap

Unwind(t) ==
  /\ where[t] \in Live /\ t \in cancelling
  /\ Close(t, "cancelled")
  /\ UNCHANGED snap

-----------------------------------------------------------------------------
(* The wrapper and, for a desktop turn, the runner.                           *)

\* Mutant: the end of any turn clears the registry.
ReturnClears(t) ==
  /\ where[t] = "closed"
  /\ Move(t, IF t \in Desktop THEN "ending" ELSE "over")
  /\ active' = None /\ state' = "none"
  /\ UNCHANGED <<outcome, cancelling, holder, ahead, interrupts, desk, log, requests>>

Return(t) ==
  /\ where[t] = "closed"
  /\ Move(t, IF t \in Desktop THEN "ending" ELSE "over")
  /\ IF active = t THEN active' = None /\ state' = "none" ELSE UNCHANGED registry
  /\ UNCHANGED <<outcome, cancelling, holder, ahead, interrupts, desk, log, requests>>

Verdict(d) == IF outcome[d] = "returned" /\ d \in committed THEN "done" ELSE "error"

\* A runner cancelled while it ends may or may not have collected its terminal event.
Finish(d) ==
  /\ where[d] = "ending"
  /\ Move(d, "emitting")
  /\ \E event \in {"none", Verdict(d)} :
       /\ event = "none" => outcome[d] = "cancelled" \/ d \in aborting
       /\ outcome[d] = "cancelled" => event = "none"
       /\ terminal' = [terminal EXCEPT ![d] = event]
  /\ slot' = IF slot # None /\ slot.turn = d THEN [slot EXCEPT !.completed = TRUE] ELSE slot
  /\ outcome' = [outcome EXCEPT ![d] = "none"]
  /\ committed' = committed \ {d}
  /\ aborting' = aborting \ {d}
  /\ UNCHANGED <<cancelling, holder, ahead, registry, interrupts, log, requests>>

\* Mutant: the done callback drops the session's entry without looking whose it is.
DiscardAny(d) ==
  /\ where[d] = "emitting"
  /\ Move(d, "over")
  /\ slot' = None
  /\ UNCHANGED <<outcome, cancelling, holder, ahead, registry, interrupts, committed, terminal, aborting, log, requests>>

Discard(d) ==
  /\ where[d] = "emitting"
  /\ Move(d, "over")
  /\ slot' = IF slot # None /\ slot.turn = d THEN None ELSE slot
  /\ UNCHANGED <<outcome, cancelling, holder, ahead, registry, interrupts, committed, terminal, aborting, log, requests>>

-----------------------------------------------------------------------------
(* Interrupt requests.                                                        *)

Interruptible == active # None /\ where[active] \in Live

Stop(r) ==
  /\ r \notin used
  /\ used' = used \cup {r}
  /\ Interruptible
  /\ snap' = r
  /\ cancelling' = cancelling \cup {active}
  /\ UNCHANGED <<where, outcome, holder, ahead, registry, resumed, desk, log, pending>>

\* chat.cancel and voice.turn.cancel of the current desktop turn: the registered turn is
\* interrupted, and the runner with the turn it awaits is cancelled too.
CancelTurn(r, d) ==
  /\ r \notin used
  /\ used' = used \cup {r}
  /\ slot # None /\ slot.turn = d /\ where[d] # "over"
  /\ pending' = pending \cup {[by |-> r, turn |-> d,
                             trace |-> IF Interruptible THEN state ELSE "none"]}
  /\ IF Interruptible
     THEN /\ snap' = r
          /\ aborting' = aborting \cup ({d} \cap Listening)
          /\ cancelling' = cancelling \cup {active} \cup {e \in {d} : where[e] \in Live}
     ELSE UNCHANGED <<snap, aborting, cancelling>>
  /\ UNCHANGED <<where, outcome, holder, ahead, registry, resumed, slot, committed, terminal, log>>

\* Mutant: only replies that reached the database count.
HasStoredReply(d) == full[d] = "stored" \/ partial[d] > 0

\* _has_completed_turn: does the session hold an assistant message of this turn.
HasReply(d) == full[d] # "none" \/ partial[d] > 0

\* After the cleanup the partial reply is saved, unless a reply is there, and its snapshot dropped.
Answer(q) ==
  /\ where[q.turn] = "over"
  /\ pending' = pending \ {q}
  /\ IF q.trace = "traced" /\ ~HasReply(q.turn)
     THEN partial' = [partial EXCEPT ![q.turn] = @ + 1]
     ELSE UNCHANGED partial
  /\ snap' = IF snap = q.by THEN None ELSE snap
  /\ UNCHANGED <<turnVars, registry, resumed, desk, full, used>>

-----------------------------------------------------------------------------

Work(t) == \/ Enter(t) \/ Cache(t) \/ Store(t) \/ Announce(t)
           \/ Complete(t) \/ Refuse(t) \/ Unwind(t) \/ Return(t)

\* What the event loop has to run, once it is asked for.  A turn may fail, but no turn
\* counts on it: one that waits for the lock is only let in or cancelled.
Progress == \/ \E t \in Turns : Work(t)
            \/ \E d \in Desktop : Finish(d) \/ Discard(d)
            \/ \E q \in pending : Answer(q)

Next ==
  \/ Progress
  \/ \E d \in Desktop : StartDesktop(d)
  \/ \E t \in Inbound \cup Jobs : StartOther(t)
  \/ \E t \in Turns : Raise(t) \/ Trace(t)
  \/ \E r \in Stops : Stop(r)
  \/ \E r \in Cancels, d \in Desktop : CancelTurn(r, d)

Spec == Init /\ [][Next]_vars

(* The event loop never rests while a task is ready, and reasoning ends: the  *)
(* model's requests time out and its iterations are bounded.                  *)
FairSpec == Spec /\ WF_vars(Progress)

-----------------------------------------------------------------------------
(* Properties.                                                                *)

\* execute_thread "runs role work serially across all transport threads": two turns of a role
\* are never past the lock at once, whoever is cancelled while it holds or awaits the lock.
Serial == \A t, u \in Turns : where[t] \in Executing /\ where[u] \in Executing => t = u

\* A desktop turn leaves at most one assistant message in its session: a cancellation that
\* meets the reply on its way, or a second one, saves no interrupted reply beside it.
RepliedOnce == \A d \in Desktop : partial[d] <= IF full[d] = "none" THEN 1 ELSE 0

\* chat.cancel finds a desktop turn until its terminal event is decided: the late cleanup of
\* the session's previous turn does not take its entry away.
DesktopCancellable == \A d \in Listening : slot = [turn |-> d, completed |-> FALSE]

\* A registration is only taken away by the turn it names, after its work has ended, so the
\* end of an older turn leaves the newer one interruptible.
OwnRegistration == [][active # None /\ active' = None => where[active] = "closed"]_vars

\* Every accepted turn comes to its end and every cancellation to its answer, whatever is
\* cancelled or fails meanwhile: the role lock, the desktop's slot and the turn awaiting a
\* cleanup are never left behind.
TurnsEnd == <>[]((\A t \in Turns : where[t] \in {"new", "over"}) /\ pending = {})

\* build_chat_terminal_event "completes an uncommitted turn as an error without inventing a
\* persisted reply": a desktop turn reported as done has a reply of its own.
DoneOwn == \A d \in Desktop : terminal[d] = "done" => full[d] = "stored"

=============================================================================
