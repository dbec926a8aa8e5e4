-------------------------- MODULE RoleTurnsProofs ---------------------------
(* What RoleTurns does for any number of turns and requests.                 *)
EXTENDS RoleTurns, TLAPS

-----------------------------------------------------------------------------
(* Types.                                                                    *)

\* At the start no turn exists.
LEMMA InitTypes == Init => TypeOK
  BY DEF Init, TypeOK, Places, Live, Executing, Outcomes, States

\* The starts of turns keep the types.
LEMMA StartTypes ==
  ASSUME TypeOK,
         (\E d \in Desktop : StartDesktop(d)) \/ (\E t \in Inbound \cup Jobs : StartOther(t))
  PROVE  TypeOK'
<1>1. ASSUME NEW t \in Turns, Register(t), slot' \in Slot \cup {None},
             UNCHANGED <<committed, terminal, aborting>>
      PROVE  TypeOK'
  BY <1>1 DEF TypeOK, Register, Move, Places, Live, Executing, States, interrupts, log, requests
<1>2. CASE \E d \in Desktop : StartDesktop(d)
  BY <1>1, <1>2 DEF StartDesktop, Slot, Turns
<1>3. CASE \E t \in Inbound \cup Jobs : StartOther(t)
  BY <1>1, <1>3 DEF StartOther, Turns, desk, TypeOK, Slot
<1> QED BY <1>2, <1>3

\* Entering the lock, and the way to the announcement of the reply.
LEMMA RunTypes ==
  ASSUME TypeOK, NEW t \in Turns,
         Enter(t) \/ Trace(t) \/ Cache(t) \/ Store(t) \/ Announce(t)
  PROVE  TypeOK'
<1>1. CASE Enter(t)
  <2>1. /\ snap' \in Cancels \cup Stops \cup {None}
        /\ resumed' \subseteq Turns
        /\ state' \in States
        /\ (active' # None => state' # "none")
    BY <1>1 DEF Enter, Resume, TypeOK, States
  <2> QED BY <1>1, <2>1 DEF Enter, TypeOK, Move, Places, Live, Executing, desk, log, requests
<1>2. CASE Trace(t)
  BY <1>2 DEF Trace, TypeOK, States, turnVars, interrupts, desk, log, requests
<1>3. ASSUME NEW how \in {"cached", "stored"}, full' = Replied(t, how)
      PROVE  full' \in [Desktop -> {"none", "cached", "stored"}]
  BY <1>3 DEF Replied, TypeOK
<1>4. CASE Cache(t)
  BY <1>3, <1>4 DEF Cache, TypeOK, Move, Places, Live, Executing, registry, interrupts, desk, requests
<1>5. CASE Store(t)
  BY <1>3, <1>5 DEF Store, TypeOK, Move, Places, Live, Executing, registry, interrupts, desk, requests
<1>6. CASE Announce(t)
  BY <1>6 DEF Announce, Listening, TypeOK, Move, Places, Live, Executing, registry, interrupts, log, requests
<1> QED BY <1>1, <1>2, <1>4, <1>5, <1>6

\* The end of an inner task, of its wrapper and of a runner.
LEMMA EndTypes ==
  ASSUME TypeOK
  PROVE  /\ \A t \in Turns : Complete(t) \/ Refuse(t) \/ Raise(t) \/ Unwind(t) \/ Return(t) => TypeOK'
         /\ \A d \in Desktop : Finish(d) \/ Discard(d) => TypeOK'
<1>1. ASSUME NEW t \in Turns, NEW how \in Outcomes, Close(t, how), snap' \in {snap, None}
      PROVE  TypeOK'
  BY <1>1 DEF Close, TypeOK, Move, Places, Live, Executing, registry, desk, log, requests
<1>2. ASSUME NEW t \in Turns, Complete(t) \/ Refuse(t) \/ Raise(t) \/ Unwind(t)
      PROVE  TypeOK'
  BY <1>1, <1>2 DEF Complete, Refuse, Raise, Unwind, Consume, Outcomes
<1>3. ASSUME NEW t \in Turns, Return(t)
      PROVE  TypeOK'
  BY <1>3 DEF Return, TypeOK, States, Move, Places, Live, Executing, registry, interrupts, desk, log, requests
<1>4. ASSUME NEW d \in Desktop, Finish(d)
      PROVE  TypeOK'
  <2>1. /\ where' \in [Turns -> Places]
        /\ terminal' \in [Desktop -> {"none", "done", "error"}]
        /\ slot' \in Slot \cup {None}
        /\ outcome' \in [Desktop -> Outcomes]
    BY <1>4 DEF Finish, Verdict, TypeOK, Slot, Move, Places, Live, Executing, Outcomes
  <2> QED BY <1>4, <2>1 DEF Finish, TypeOK, registry, interrupts, log, requests
<1>5. ASSUME NEW d \in Desktop, Discard(d)
      PROVE  TypeOK'
  BY <1>5 DEF Discard, TypeOK, Move, Places, Live, Executing, registry, interrupts, log, requests
<1> QED BY <1>2, <1>3, <1>4, <1>5

\* Interrupts and the answers to them.
LEMMA RequestTypes ==
  ASSUME TypeOK,
         \/ \E r \in Stops : Stop(r)
         \/ \E r \in Cancels, d \in Desktop : CancelTurn(r, d)
         \/ \E q \in pending : Answer(q)
  PROVE  TypeOK'
<1>1. CASE \E r \in Stops : Stop(r)
  BY <1>1 DEF Stop, Interruptible, TypeOK, registry, desk, log
<1>2. CASE \E r \in Cancels, d \in Desktop : CancelTurn(r, d)
  <2>1. PICK r \in Cancels, d \in Desktop : CancelTurn(r, d)
    BY <1>2
  <2>2. pending' \subseteq Request /\ used' \subseteq Cancels \cup Stops
    BY <2>1 DEF CancelTurn, TypeOK, Request, States
  <2>3. snap' \in Cancels \cup Stops \cup {None} /\ aborting' \subseteq Desktop /\ cancelling' \subseteq Turns
    BY <2>1 DEF CancelTurn, TypeOK, Interruptible, Turns
  <2> QED BY <2>1, <2>2, <2>3 DEF CancelTurn, TypeOK, registry, log
<1>3. CASE \E q \in pending : Answer(q)
  BY <1>3 DEF Answer, TypeOK, Request, turnVars, registry, desk
<1> QED BY <1>1, <1>2, <1>3

\* Every step keeps the types.
LEMMA NextTypes == TypeOK /\ [Next]_vars => TypeOK'
<1> SUFFICES ASSUME TypeOK, [Next]_vars PROVE TypeOK'
  OBVIOUS
<1>1. CASE Next
  BY <1>1, StartTypes, RunTypes, EndTypes, RequestTypes DEF Next, Progress, Work
<1>2. CASE UNCHANGED vars
  BY <1>2 DEF vars, TypeOK, turnVars, registry, interrupts, desk, log, requests
<1> QED BY <1>1, <1>2

\* For any number of turns and requests, the registry, the lock, the desktop's slot, the
\* snapshots and the session only take values the code can give them.
THEOREM TypeCorrect == Spec => []TypeOK
  BY InitTypes, NextTypes, PTL DEF Spec

-----------------------------------------------------------------------------
(* The lock.                                                                 *)

\* Exactly the turn that is past the lock holds it.
Holds == \A t \in Turns : where[t] \in Executing <=> holder = t

\* Every step keeps the recorded holder the turn that is past the lock.
LEMMA HoldsInductive == TypeOK /\ Holds /\ [Next]_vars => Holds'
<1> SUFFICES ASSUME TypeOK, Holds, [Next]_vars PROVE Holds'
  OBVIOUS
<1> USE DEF Holds, TypeOK
<1>1. ASSUME UNCHANGED <<where, holder>>
      PROVE  Holds'
  BY <1>1
<1>2. ASSUME NEW t \in Turns, NEW place \in Places, Move(t, place), UNCHANGED holder,
             where[t] \in Executing <=> place \in Executing
      PROVE  Holds'
  BY <1>2 DEF Move
<1>3. ASSUME NEW t \in Turns, Enter(t)
      PROVE  Holds'
  BY <1>3, Origins DEF Enter, Move, Executing
<1>4. ASSUME NEW t \in Turns, NEW how, Close(t, how)
      PROVE  Holds'
  BY <1>4, Origins DEF Close, Move, Executing
<1>5. ASSUME NEW t \in Turns, Work(t) \/ Raise(t)
      PROVE  Holds'
  <2>1. CASE Cache(t) \/ Store(t) \/ Announce(t)
    BY <1>2, <2>1 DEF Cache, Store, Announce, Executing, Live, Places
  <2>2. CASE Return(t)
    BY <1>2, <2>2 DEF Return, Executing, Live, Places
  <2> QED BY <1>3, <1>4, <1>5, <2>1, <2>2 DEF Work, Complete, Refuse, Raise, Unwind
<1>6. ASSUME NEW d \in Desktop, Finish(d) \/ Discard(d)
      PROVE  Holds'
  BY <1>2, <1>6 DEF Finish, Discard, Executing, Live, Places, Turns
<1>7. ASSUME NEW t \in Turns, Register(t)
      PROVE  Holds'
  BY <1>2, <1>7 DEF Register, Executing, Live, Places
<1>8. CASE Next
  BY <1>1, <1>5, <1>6, <1>7, <1>8
     DEF Next, Progress, StartDesktop, StartOther, Turns, Trace, Stop, CancelTurn, Answer, turnVars
<1>9. CASE UNCHANGED vars
  BY <1>1, <1>9 DEF vars, turnVars
<1> QED BY <1>8, <1>9

\* However many turns of a role there are and whichever of them are cancelled while they hold
\* or await the lock, no two of them work at once.
THEOREM SerialCorrect == Spec => []Serial
<1>1. Init => Holds
  BY Origins DEF Init, Holds, Executing
<1>2. Holds => Serial
  BY DEF Holds, Serial
<1> QED BY <1>1, <1>2, HoldsInductive, TypeCorrect, PTL DEF Spec

-----------------------------------------------------------------------------
(* The desktop's slot.                                                       *)

\* No step takes the slot from a desktop turn whose end is not announced.
LEMMA SlotInductive == TypeOK /\ DesktopCancellable /\ [Next]_vars => DesktopCancellable'
<1> SUFFICES ASSUME TypeOK, DesktopCancellable, [Next]_vars PROVE DesktopCancellable'
  OBVIOUS
<1> USE DEF DesktopCancellable, TypeOK
<1>1. ASSUME Listening' \subseteq Listening, UNCHANGED slot
      PROVE  DesktopCancellable'
  BY <1>1
<1>2. ASSUME NEW t \in Turns, NEW place \in Places, Move(t, place), UNCHANGED slot,
             t \notin Desktop \/ where[t] \in Live \cup {"closed", "ending"}
                \/ place \notin Live \cup {"closed", "ending"}
      PROVE  DesktopCancellable'
  BY <1>1, <1>2 DEF Move, Listening, Turns
<1>3. ASSUME NEW d \in Desktop, StartDesktop(d)
      PROVE  DesktopCancellable'
  <2>1. Listening = {}
    BY <1>3, Origins DEF StartDesktop, Busy, Listening, Live, Executing, Turns
  <2>2. Listening' = {d}
    BY <1>3, <2>1 DEF StartDesktop, Register, Move, Listening, Live, Executing, Turns
  <2> QED BY <1>3, <2>2 DEF StartDesktop
<1>4. ASSUME NEW t \in Turns, Work(t) \/ Raise(t)
      PROVE  DesktopCancellable'
  <2>1. ASSUME NEW how, Close(t, how), where[t] \in Live
        PROVE  DesktopCancellable'
    BY <1>2, <2>1 DEF Close, desk, Places
  <2> QED
    BY <1>2, <1>4, <2>1
       DEF Work, Enter, Cache, Store, Announce, Complete, Refuse, Raise, Unwind, Return,
           desk, Live, Executing, Places
<1>5. ASSUME NEW d \in Desktop, Finish(d) \/ Discard(d)
      PROVE  DesktopCancellable'
  <2>1. Listening' \subseteq Listening \ {d}
    BY <1>5 DEF Finish, Discard, Move, Listening, Live, Executing, Turns
  <2>2. ASSUME NEW e \in Listening'
        PROVE  slot' = [turn |-> e, completed |-> FALSE]
    <3>1. e # d /\ slot = [turn |-> e, completed |-> FALSE]
      BY <2>1, <2>2
    <3>2. slot.turn # d
      BY <3>1
    <3> QED BY <1>5, <3>1, <3>2 DEF Finish, Discard
  <2> QED BY <2>2
<1>6. ASSUME NEW t \in Inbound \cup Jobs, StartOther(t)
      PROVE  DesktopCancellable'
  BY <1>2, <1>6, Origins DEF StartOther, Register, desk, Places, Live, Turns
<1>7. CASE Next
  BY <1>1, <1>3, <1>4, <1>5, <1>6, <1>7
     DEF Next, Progress, Trace, Stop, CancelTurn, Answer, turnVars, desk, Listening
<1>8. CASE UNCHANGED vars
  BY <1>1, <1>8 DEF vars, turnVars, desk, Listening
<1> QED BY <1>7, <1>8

\* With any number of desktop turns, one that has not decided its terminal event is the one
\* chat.cancel finds under the session.
THEOREM DesktopCancellableCorrect == Spec => []DesktopCancellable
<1>1. Init => DesktopCancellable
  BY DEF Init, DesktopCancellable, Listening, Live, Executing, Turns
<1> QED BY <1>1, SlotInductive, TypeCorrect, PTL DEF Spec

-----------------------------------------------------------------------------
(* The session.                                                              *)

\* An interrupted reply is saved after the end of its turn, when there is no other.
PartialLast == \A d \in Desktop :
  partial[d] # 0 => partial[d] = 1 /\ full[d] = "none" /\ where[d] = "over"

\* A partial reply is saved once, after its turn, and beside no other.
LEMMA PartialLastInductive == TypeOK /\ PartialLast /\ [Next]_vars => PartialLast'
<1> SUFFICES ASSUME TypeOK, PartialLast, [Next]_vars PROVE PartialLast'
  OBVIOUS
<1> USE DEF PartialLast, TypeOK
<1>1. ASSUME UNCHANGED <<where, full, partial>>
      PROVE  PartialLast'
  BY <1>1
<1>2. ASSUME NEW t \in Turns, NEW place \in Places, Move(t, place), where[t] # "over",
             UNCHANGED partial, \A d \in Desktop : full'[d] # full[d] => d = t
      PROVE  PartialLast'
  BY <1>2 DEF Move, Turns
<1>3. ASSUME NEW t \in Turns, Work(t) \/ Raise(t)
      PROVE  PartialLast'
  <2>1. ASSUME NEW how, Close(t, how), where[t] # "over"
        PROVE  PartialLast'
    BY <1>2, <2>1 DEF Close, log, Places
  <2>2. CASE Cache(t) \/ Store(t)
    BY <1>2, <2>2 DEF Cache, Store, Replied, Places, Live, Executing
  <2> QED
    BY <1>2, <1>3, <2>1, <2>2
       DEF Work, Enter, Announce, Complete, Refuse, Raise, Unwind, Return, log, Live, Executing, Places
<1>4. ASSUME NEW d \in Desktop, Finish(d) \/ Discard(d)
      PROVE  PartialLast'
  BY <1>2, <1>4 DEF Finish, Discard, log, Places, Turns
<1>5. ASSUME NEW t \in Turns, Register(t)
      PROVE  PartialLast'
  BY <1>2, <1>5 DEF Register, log, Places, Live
<1>6. ASSUME NEW q \in pending, Answer(q)
      PROVE  PartialLast'
  <2>1. q.turn \in Desktop
    BY DEF Request
  <2>2. UNCHANGED <<where, full>> /\ where[q.turn] = "over"
    BY <1>6 DEF Answer, turnVars
  <2>3. CASE UNCHANGED partial
    BY <1>1, <2>2, <2>3
  <2>4. CASE ~HasReply(q.turn) /\ partial' = [partial EXCEPT ![q.turn] = @ + 1]
    <3>1. full[q.turn] = "none" /\ partial[q.turn] = 0
      BY <2>1, <2>4 DEF HasReply
    <3> QED BY <2>1, <2>2, <2>4, <3>1
  <2> QED BY <1>6, <2>3, <2>4 DEF Answer
<1>7. CASE Next
  BY <1>1, <1>3, <1>4, <1>5, <1>6, <1>7
     DEF Next, Progress, StartDesktop, StartOther, Turns, Trace, Stop, CancelTurn, turnVars, log
<1>8. CASE UNCHANGED vars
  BY <1>1, <1>8 DEF vars, turnVars, log
<1> QED BY <1>7, <1>8

\* Whatever number of cancellations meets a desktop turn, and wherever its reply is by then,
\* the session gets at most one assistant message for it.
THEOREM RepliedOnceCorrect == Spec => []RepliedOnce
<1>1. Init => PartialLast
  BY DEF Init, PartialLast
<1>2. PartialLast => RepliedOnce
  <2> SUFFICES ASSUME PartialLast, NEW d \in Desktop
               PROVE  partial[d] <= IF full[d] = "none" THEN 1 ELSE 0
    BY DEF RepliedOnce
  <2>1. partial[d] = 0 \/ (partial[d] = 1 /\ full[d] = "none")
    BY DEF PartialLast
  <2> QED BY <2>1
<1> QED BY <1>1, <1>2, PartialLastInductive, TypeCorrect, PTL DEF Spec

-----------------------------------------------------------------------------
(* The registry.                                                             *)

\* With any number of turns, a registration is only ever dropped by the turn it names, once
\* its work has ended.
THEOREM OwnRegistrationCorrect == Spec => OwnRegistration
<1>1. ASSUME [Next]_vars, active # None, active' = None
      PROVE  where[active] = "closed"
  <2>1. active' # active
    BY <1>1
  <2>2. ASSUME NEW t \in Turns, Register(t)
        PROVE  FALSE
    BY <1>1, <2>2, Origins DEF Register
  <2>3. ASSUME NEW t \in Turns, Work(t) \/ Raise(t)
        PROVE  where[active] = "closed"
    BY <2>1, <2>3
       DEF Work, Enter, Cache, Store, Announce, Complete, Refuse, Raise, Unwind, Close, Return, registry
  <2>4. CASE Next
    BY <2>1, <2>2, <2>3, <2>4
       DEF Next, Progress, StartDesktop, StartOther, Turns, Finish, Discard, Answer, Trace, Stop,
           CancelTurn, registry
  <2> QED BY <1>1, <2>1, <2>4 DEF vars, registry
<1> QED BY <1>1, PTL DEF Spec, OwnRegistration

=============================================================================
