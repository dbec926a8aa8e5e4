------------------------------ MODULE Proactive ------------------------------
(***************************************************************************)
(* One role's proactive loop: the tick pipeline (gate, fetch, judge,       *)
(* resolve, deliver), the drift turn that fills an empty tick, the task    *)
(* that repeats a delivered message on the role's other transports, the    *)
(* same-scene follow-up chain, and the user turns and scene observations   *)
(* that interfere with all of them.                                        *)
(*                                                                         *)
(* A tick and a turn hold the role's lock one after the other; the retry   *)
(* task, a scene observation and a desktop user's message do not wait for  *)
(* it.  What the clock decides (a scene is due or expired, loneliness, the *)
(* cooldown, the drift interval) and what the model decides (the verdict,  *)
(* the text, the items it cites) is chosen freely.  A behaviour is shorter *)
(* than the windows of the deduplication and of the acknowledgements.      *)
(***************************************************************************)
EXTENDS Integers, Sequences, FiniteSets

CONSTANTS
  Transports,   \* the role's targets, preferred first
  Contents,     \* the items of the content sources
  Alerts,       \* the items of the alert sources
  MaxTexts,     \* bound: different texts the model writes
  Delays,       \* how many follow-ups one scene has
  MaxTicks,     \* bound: ticks of the loop
  MaxTurns,     \* bound: turns of the user
  Faults,       \* the kinds of faults that may strike
  MaxFaults     \* bound: faults of one behaviour

Items == Contents \cup Alerts

FaultKinds == {"dispatch", "lost", "ack", "crash"}

ASSUME ProactiveBounds ==
  /\ Transports \in Seq(STRING) /\ Transports # <<>>
  /\ \A i, j \in 1 .. Len(Transports) : Transports[i] = Transports[j] => i = j
  /\ Contents \cap Alerts = {} /\ Items \cap Nat = {}
  /\ {Delays, MaxTexts, MaxTicks} \subseteq Nat \ {0}
  /\ {MaxTurns, MaxFaults} \subseteq Nat
  /\ Faults \subseteq FaultKinds

VARIABLES
  lock,        \* the role lock's FIFO; its head holds the lock
  running,     \* ProactiveLoop._running
  loop,        \* where the loop is: "interval", "tick" or "ended"
  tick,        \* AgentTickContext of the tick under way
  turn,        \* the user turn under way
  messages,    \* the proactive rows of the role session, oldest first
  user_at,     \* the presence store's last user message, as a count
  cancelled,   \* _retry_cancel_event
  retry,       \* _retry_task
  deliveries,  \* the keys of table deliveries
  acked,       \* items their sources no longer return
  chain,       \* attempt_index of the role's scene, or NoScene
  observing,   \* a scene observation is being decided
  ticks, turns,
  left,        \* faults that may still strike
  struck,      \* history: the kinds that have struck
  fresh,       \* history: the message nothing has followed yet, or 0
  followups    \* history: follow-ups sent since the user was last heard

loopVars == <<lock, running, loop, ticks>>
sceneVars == <<chain, observing>>
storeVars == <<messages, deliveries, acked>>
userVars == <<turn, turns, user_at>>
faultVars == <<left, struck>>
vars == <<loopVars, sceneVars, storeVars, userVars, tick, cancelled, retry,
          faultVars, fresh, followups>>

NoScene == -1

Idle == [at |-> "idle", selected |-> "none", active |-> "none", fetched |-> {},
         cited |-> {}, noted |-> {}, discarded |-> {}, key |-> {},
         verdict |-> "none"]

NoTurn == [at |-> "none", desktop |-> FALSE]

NoRetry == [of |-> 0, next |-> 0, at |-> "none"]

(* Every persisted message: who wrote it, its delivery key, the items it   *)
(* cites, the transports that showed it, and whether                       *)
(* ProactiveMessageCommitted was published for it.                         *)
Message(mode, key, cited) ==
  [mode |-> mode, key |-> key, cited |-> cited, sent_at |-> user_at,
   reached |-> {}, announced |-> FALSE]

TypeOK ==
  /\ lock \in Seq({"tick", "turn"}) /\ Len(lock) <= 2
  /\ running \in BOOLEAN /\ loop \in {"interval", "tick", "ended"}
  /\ tick.at \in {"idle", "gate", "fetch", "judge", "resolve", "dispatch",
                  "commit", "drift", "drift_dispatch"}
  /\ turn.at \in {"none", "waiting", "started", "reasoned"}
  /\ retry.at \in {"none", "waiting", "sending"}
  /\ retry.of \in 0 .. Len(messages) /\ fresh \in 0 .. Len(messages)
  /\ acked \subseteq Items
  /\ chain \in NoScene .. Delays - 1
  /\ cancelled \in BOOLEAN /\ observing \in BOOLEAN

Init ==
  /\ lock = <<>> /\ running = TRUE /\ loop = "interval" /\ ticks = 0
  /\ tick = Idle /\ turn = NoTurn /\ turns = 0
  /\ messages = <<>> /\ deliveries = {} /\ acked = {} /\ user_at = 0
  /\ cancelled = FALSE /\ retry = NoRetry
  /\ chain = NoScene /\ observing = FALSE
  /\ left = MaxFaults /\ struck = {}
  /\ fresh = 0 /\ followups = 0

(* What the model may write: a text that is in the session, or a new one.  *)
(* New texts are numbered in the order in which they are used.             *)
Texts == {t \in 1 .. MaxTexts :
            t = 1 \/ \E m \in 1 .. Len(messages) : messages[m].key = {t - 1}}

(* Faults strike, or none does.                                            *)
Strike(kinds) ==
  /\ kinds \subseteq Faults /\ Cardinality(kinds) <= left
  /\ left' = left - Cardinality(kinds) /\ struck' = struck \cup kinds

Holds(who) == lock # <<>> /\ Head(lock) = who

---------------------------------------------------------------------------
(* The transports.                                                         *)

(* The desktop sender refuses a message that is marked as persisted unless *)
(* it names the delivery key the commit stored.  The proactive port marks  *)
(* every message as persisted and names no key.                            *)
Accepts(transport) == transport # "desktop"

(* Outcomes of one dispatch: whether the transport showed the message,     *)
(* whether the port reports it, and the faults that explain it.            *)
Outcomes(transport) ==
  IF Accepts(transport)
  THEN {[shown |-> TRUE, reported |-> TRUE, kinds |-> {}],
        [shown |-> FALSE, reported |-> FALSE, kinds |-> {"dispatch"}],
        [shown |-> TRUE, reported |-> FALSE, kinds |-> {"lost"}]}
  ELSE {[shown |-> FALSE, reported |-> FALSE, kinds |-> {}]}

Shown(log, m, transport) == [log EXCEPT ![m].reached = @ \cup {transport}]

(* The log after a dispatch of message m to a transport.                   *)
After(outcome, m, transport) ==
  IF outcome.shown THEN Shown(messages, m, transport) ELSE messages

---------------------------------------------------------------------------
(* The retry task.                                                         *)

(* Cancelling a task that is inside the push leaves open whether the       *)
(* transport showed the message.                                           *)
Interrupted ==
  {messages} \cup
  IF retry.at = "sending" /\ Accepts(Transports[retry.next])
  THEN {Shown(messages, retry.of, Transports[retry.next])} ELSE {}

CancelRetry ==
  /\ cancelled' = TRUE
  /\ retry' = NoRetry
  /\ messages' \in Interrupted

(* A delivery gets an event of its own, not the one its predecessor's      *)
(* cancellation has set.                                                   *)
\* Mutant: the delivery goes on with the event that was set.
StaleEvent == TRUE

FreshEvent == FALSE

\* Mutant: only a turn that has begun counts as a reply.
RepliedByTurn(m) == cancelled

UserRepliedSince(m) == user_at > messages[m].sent_at

(* The wait is over.  A user who was heard since the message was sent ends *)
(* the task.                                                               *)
RetryWakes ==
  /\ retry.at = "waiting"
  /\ retry' = IF cancelled \/ UserRepliedSince(retry.of)
              THEN NoRetry ELSE [retry EXCEPT !.at = "sending"]
  /\ UNCHANGED <<loopVars, sceneVars, storeVars, userVars, tick, cancelled,
                 faultVars, fresh, followups>>

(* The dispatch returns, and the next transport waits its turn; an error   *)
(* ends the task, a mere refusal does not.                                 *)
RetrySent ==
  /\ retry.at = "sending"
  /\ \E outcome \in Outcomes(Transports[retry.next]) :
       /\ messages' = After(outcome, retry.of, Transports[retry.next])
       /\ \/ /\ retry.next < Len(Transports)
             /\ retry' = [retry EXCEPT !.next = @ + 1, !.at = "waiting"]
          \/ /\ ~outcome.reported \/ retry.next = Len(Transports)
             /\ retry' = NoRetry
       /\ Strike(outcome.kinds)
  /\ UNCHANGED <<loopVars, sceneVars, deliveries, acked, userVars, tick,
                 cancelled, fresh, followups>>

---------------------------------------------------------------------------
(* The loop and the gate.                                                  *)

(* The interval is over: the tick queues for the role lock.                *)
TickDue ==
  /\ running /\ loop = "interval" /\ ticks < MaxTicks
  /\ loop' = "tick" /\ ticks' = ticks + 1 /\ lock' = Append(lock, "tick")
  /\ tick' = [Idle EXCEPT !.at = "gate"]
  /\ UNCHANGED <<running, sceneVars, storeVars, userVars, cancelled, retry,
                 faultVars, fresh, followups>>

(* The tick returns, or its error is logged by the loop.                   *)
EndTick ==
  /\ tick' = Idle /\ loop' = "interval" /\ lock' = Tail(lock)
  /\ UNCHANGED <<running, ticks>>

GateBlocks ==
  /\ tick.at = "gate" /\ Holds("tick")
  /\ EndTick
  /\ UNCHANGED <<sceneVars, storeVars, userVars, cancelled, retry,
                 faultVars, fresh, followups>>

(* The scene's follow-up comes first; one that is not due, or that expired *)
(* and is deleted, leaves the choice to loneliness, which vetoes nothing.  *)
GatePasses ==
  /\ tick.at = "gate" /\ Holds("tick")
  /\ \/ /\ chain # NoScene
        /\ tick' = [tick EXCEPT !.at = "fetch", !.selected = "scene"]
        /\ UNCHANGED chain
     \/ /\ \E motive \in {"none", "relationship"} :
             tick' = [tick EXCEPT !.at = "fetch", !.selected = motive]
        /\ chain' \in {chain, NoScene}
  /\ UNCHANGED <<loopVars, observing, storeVars, userVars, cancelled,
                 retry, faultVars, fresh, followups>>

(* The gateway returns what the sources give: nothing of a source that     *)
(* failed.  Without candidates the motive takes the tick over, then drift, *)
(* then nobody.                                                            *)
Fetch ==
  /\ tick.at = "fetch"
  /\ \E fetched \in SUBSET (Items \ acked) :
       \/ /\ fetched # {}
          /\ tick' = [tick EXCEPT !.at = "judge", !.fetched = fetched]
       \/ /\ fetched = {} /\ tick.selected # "none"
          /\ tick' = [tick EXCEPT !.at = "judge", !.active = tick.selected]
       \/ /\ fetched = {} /\ tick.selected = "none"
          /\ tick' \in {[tick EXCEPT !.at = "drift"],
                        [tick EXCEPT !.at = "resolve", !.verdict = "closing"]}
  /\ UNCHANGED <<loopVars, sceneVars, storeVars, userVars, cancelled,
                 retry, faultVars, fresh, followups>>

---------------------------------------------------------------------------
(* Verdict and delivery.                                                   *)

(* A message is identified by the items it cites, else by its text.        *)
DeliveryKey(cited, text) == IF cited # {} THEN cited ELSE {text}

(* The tool calls of the judge: a reply cites fetched items; contents may  *)
(* be noted or discarded.  "closing" is a skip for scene_changed or        *)
(* no_content, "skip" every other skip and a judge that ran out of steps.  *)
Judge ==
  /\ tick.at = "judge"
  /\ \E cited \in SUBSET tick.fetched :
     \E noted \in SUBSET ((tick.fetched \cap Contents) \ cited) :
     \E discarded \in SUBSET ((tick.fetched \cap Contents) \ (cited \cup noted)) :
       LET judged == [tick EXCEPT !.at = "resolve", !.noted = noted,
                                  !.discarded = discarded]
       IN \/ \E text \in Texts :
               tick' = [judged EXCEPT !.verdict = "reply", !.cited = cited,
                                      !.key = DeliveryKey(cited, text)]
          \/ /\ cited = {}
             /\ \E verdict \in {"skip", "closing"} :
                  tick' = [judged EXCEPT !.verdict = verdict]
  /\ UNCHANGED <<loopVars, sceneVars, storeVars, userVars, cancelled,
                 retry, faultVars, fresh, followups>>

(* Acknowledgements are calls to the sources, each of which may fail.      *)
Acks(items) ==
  {[acked |-> acked \cup arrived,
    kinds |-> IF arrived = items THEN {} ELSE {"ack"}] : arrived \in SUBSET items}

(* The items a reply that the guards refused acknowledges.                 *)
GuardAcks == tick.cited \cup tick.noted \cup tick.discarded
             \cup (tick.fetched \cap Alerts)

(* A tick that stays silent still cancels the previous message's retries.  *)
(* A message counts as sent before by its key or by the model's comparison *)
(* with recent ones; then, and on a closing skip, the active scene closes. *)
ResolveSkips ==
  /\ tick.at = "resolve"
  /\ LET repeated == tick.verdict = "reply"
     IN /\ CancelRetry
        /\ \E acks \in Acks(IF repeated THEN GuardAcks ELSE tick.discarded) :
             acked' = acks.acked /\ Strike(acks.kinds)
        /\ chain' = IF tick.active = "scene"
                       /\ (repeated \/ tick.verdict = "closing")
                    THEN NoScene ELSE chain
  /\ fresh' = 0
  /\ EndTick
  /\ UNCHANGED <<observing, deliveries, userVars, followups>>

(* The message becomes a row of the role session before it is dispatched.  *)
ResolveSends ==
  /\ tick.at = "resolve" /\ tick.verdict = "reply"
  /\ tick.key \notin deliveries
  /\ retry' = NoRetry /\ cancelled' = FreshEvent
  /\ \E log \in Interrupted : messages' = Append(log, Message("turn", tick.key, tick.cited))
  /\ fresh' = Len(messages')
  /\ tick' = [tick EXCEPT !.at = "dispatch", !.selected = "none", !.fetched = {}]
  /\ UNCHANGED <<loopVars, sceneVars, deliveries, acked, userVars,
                 faultVars, followups>>

Last == Len(messages)

\* Mutant: the delivery is not recorded.
Unmarked(key) == deliveries

Marked(key) == deliveries \cup {key}

(* A dispatch that is reported as sent is recorded at once; any other ends *)
(* the tick with only the discarded items acknowledged.                    *)
Dispatch ==
  /\ tick.at = "dispatch"
  /\ \E outcome \in Outcomes(Head(Transports)) :
       /\ messages' = After(outcome, Last, Head(Transports))
       /\ followups' = IF outcome.shown /\ tick.active = "scene"
                       THEN followups + 1 ELSE followups
       /\ IF outcome.reported
          THEN /\ deliveries' = Marked(tick.key)
               /\ tick' = [tick EXCEPT !.at = "commit"]
               /\ Strike({})
               /\ UNCHANGED <<loopVars, acked>>
          ELSE /\ EndTick
               /\ \E acks \in Acks(tick.discarded) :
                    acked' = acks.acked /\ Strike(outcome.kinds \cup acks.kinds)
               /\ UNCHANGED deliveries
  /\ UNCHANGED <<sceneVars, userVars, cancelled, retry, fresh>>

\* Mutant: one delay more than the scene has.
FollowupSentLate(attempt) ==
  IF attempt >= Delays THEN {NoScene} ELSE {attempt + 1, NoScene}

(* Attempt number attempt of the scene was delivered.                      *)
FollowupSent(attempt) ==
  IF attempt >= Delays - 1 THEN {NoScene} ELSE {attempt + 1, NoScene}

Announce(log, m) == [log EXCEPT ![m].announced = TRUE]

(* After the acknowledgements: the active scene advances (an expired one   *)
(* is deleted), ProactiveMessageCommitted starts an observation and the    *)
(* other transports get their task.                                        *)
Commit ==
  /\ tick.at = "commit"
  /\ \E acks \in Acks(tick.cited \cup tick.noted \cup tick.discarded) :
       acked' = acks.acked /\ Strike(acks.kinds)
  /\ IF tick.active = "scene" /\ chain # NoScene
     THEN chain' \in FollowupSent(chain) ELSE UNCHANGED chain
  /\ messages' = Announce(messages, Last)
  /\ observing' = TRUE
  /\ retry' = IF Len(Transports) > 1
              THEN [of |-> Last, next |-> 2, at |-> "waiting"] ELSE retry
  /\ EndTick
  /\ UNCHANGED <<deliveries, userVars, cancelled, fresh, followups>>

---------------------------------------------------------------------------
(* Drift: an idle turn that may push one message through the same          *)
(* orchestrator.  It records the delivery but asks no guard, acknowledges  *)
(* nothing, and has no retries.                                            *)

DriftSilent ==
  /\ tick.at = "drift"
  /\ EndTick
  /\ UNCHANGED <<sceneVars, storeVars, userVars, cancelled, retry,
                 faultVars, fresh, followups>>

DriftWrites ==
  /\ tick.at = "drift"
  /\ \E text \in Texts :
       /\ messages' = Append(messages, Message("drift", {text}, {}))
       /\ tick' = [tick EXCEPT !.at = "drift_dispatch", !.key = {text}]
  /\ UNCHANGED <<loopVars, sceneVars, deliveries, acked, userVars,
                 cancelled, retry, faultVars, fresh, followups>>

DriftDispatch ==
  /\ tick.at = "drift_dispatch"
  /\ \E outcome \in Outcomes(Head(Transports)) :
       LET shown == After(outcome, Last, Head(Transports))
       IN /\ Strike(outcome.kinds)
          /\ IF outcome.reported
             THEN /\ messages' = Announce(shown, Last)
                  /\ deliveries' = Marked(tick.key)
                  /\ observing' = TRUE
             ELSE messages' = shown /\ UNCHANGED <<deliveries, observing>>
  /\ EndTick
  /\ UNCHANGED <<chain, acked, userVars, cancelled, retry, fresh,
                 followups>>

---------------------------------------------------------------------------
(* The user and the scene.                                                 *)

(* The user is heard: presence is recorded and a new scene chain starts.   *)
Heard ==
  /\ user_at' = user_at + 1 /\ chain' = 0 /\ followups' = 0

(* A turn queues for the lock.  The desktop stores the user's message      *)
(* before it starts the turn.                                              *)
TurnArrives ==
  /\ turn.at = "none" /\ turns < MaxTurns
  /\ turns' = turns + 1 /\ lock' = Append(lock, "turn")
  /\ \E desktop \in BOOLEAN :
       /\ turn' = [at |-> "waiting", desktop |-> desktop]
       /\ IF desktop THEN Heard ELSE UNCHANGED <<user_at, chain, followups>>
  /\ UNCHANGED <<running, loop, ticks, observing, storeVars, tick,
                 cancelled, retry, faultVars, fresh>>

(* TurnStarted cancels the retries while the loop lives; the scene         *)
(* controller cancels the observation of the exchange before.              *)
TurnStarts ==
  /\ turn.at = "waiting" /\ Holds("turn")
  /\ turn' = [turn EXCEPT !.at = "started"]
  /\ IF loop # "ended" THEN CancelRetry ELSE UNCHANGED <<cancelled, retry, messages>>
  /\ observing' = FALSE
  /\ fresh' = 0
  /\ UNCHANGED <<loopVars, chain, deliveries, acked, user_at, turns, tick,
                 faultVars, followups>>

(* A channel's message is recorded with the answer.                        *)
TurnReasons ==
  /\ turn.at = "started"
  /\ turn' = [turn EXCEPT !.at = "reasoned"]
  /\ IF turn.desktop THEN UNCHANGED <<user_at, chain, followups>> ELSE Heard
  /\ UNCHANGED <<loopVars, observing, storeVars, turns, tick, cancelled,
                 retry, faultVars, fresh>>

(* A finished turn is observed; one that fails is not.                     *)
TurnEnds ==
  /\ turn.at \in {"started", "reasoned"}
  /\ turn' = NoTurn /\ lock' = Tail(lock)
  /\ observing' \in IF turn.at = "reasoned" THEN BOOLEAN ELSE {FALSE}
  /\ UNCHANGED <<running, loop, ticks, chain, storeVars, user_at, turns,
                 tick, cancelled, retry, faultVars, fresh, followups>>

(* The observation is decided: the scene goes on, or closes (also when it  *)
(* has expired); a decision that fails changes nothing.                    *)
Observed ==
  /\ observing /\ observing' = FALSE
  /\ chain' \in {chain, NoScene}
  /\ UNCHANGED <<loopVars, storeVars, userVars, tick, cancelled, retry,
                 faultVars, fresh, followups>>

---------------------------------------------------------------------------
(* Stop and crash.                                                         *)

(* stop() wakes the loop; an accepted tick completes.                      *)
Stop ==
  /\ running /\ running' = FALSE
  /\ UNCHANGED <<lock, loop, ticks, sceneVars, storeVars, userVars, tick,
                 cancelled, retry, faultVars, fresh, followups>>

LoopEnds ==
  /\ ~running /\ loop = "interval"
  /\ loop' = "ended"
  /\ CancelRetry
  /\ fresh' = 0
  /\ UNCHANGED <<lock, running, ticks, sceneVars, deliveries, acked,
                 userVars, tick, faultVars, followups>>

(* The process restarts: rows, deliveries, presence and the scene are on   *)
(* disk, everything else starts anew.                                      *)
Crash ==
  /\ Strike({"crash"})
  /\ lock' = <<>> /\ running' = TRUE /\ loop' = "interval"
  /\ tick' = Idle /\ turn' = NoTurn
  /\ cancelled' = FALSE /\ retry' = NoRetry /\ observing' = FALSE
  /\ fresh' = 0
  /\ UNCHANGED <<ticks, chain, storeVars, user_at, turns, followups>>

---------------------------------------------------------------------------
TickStep ==
  \/ GateBlocks \/ GatePasses \/ Fetch \/ Judge \/ ResolveSkips
  \/ ResolveSends \/ Dispatch \/ Commit
  \/ DriftSilent \/ DriftWrites \/ DriftDispatch

TurnStep == TurnStarts \/ TurnReasons \/ TurnEnds

RetryStep == RetryWakes \/ RetrySent

Next ==
  \/ TickDue \/ TickStep \/ TurnArrives \/ TurnStep \/ RetryStep
  \/ Observed \/ Stop \/ LoopEnds \/ Crash

Spec == Init /\ [][Next]_vars

(* The event loop runs every task that is ready; nothing forces a tick to  *)
(* fall due, the user to write, or the program to stop or crash.           *)
FairSpec ==
  /\ Spec
  /\ WF_vars(TickStep) /\ WF_vars(TurnStep) /\ WF_vars(RetryStep)
  /\ WF_vars(LoopEnds)

---------------------------------------------------------------------------
(* Properties.                                                             *)

Struck(kinds) == struck \cap kinds # {}

(* The user is not told the same thing twice: no tick delivers a message   *)
(* whose delivery key an earlier message delivered, whoever wrote that     *)
(* one, and no item is cited in two delivered messages.  A process that    *)
(* dies between the transport and the record, and a transport that reports *)
(* a failure after it has sent, defeat the record; a lost acknowledgement  *)
(* defeats only the second half.                                           *)
NotTwice ==
  ~Struck({"crash", "lost"}) =>
    \A m, n \in 1 .. Last :
      m < n /\ messages[m].reached # {} /\ messages[n].reached # {} =>
        /\ messages[n].mode = "turn" => messages[n].key # messages[m].key
        /\ ~Struck({"ack"}) => messages[n].cited \cap messages[m].cited = {}

(* A retry never talks over what came after its message: it starts on a    *)
(* transport the message has not reached, only while no turn has begun, no *)
(* later tick has come to a verdict, the user has not been heard and the   *)
(* loop lives.                                                             *)
RetriesYield ==
  [][retry'.at = "sending" /\ retry.at # "sending" =>
       /\ retry.of = fresh /\ fresh # 0
       /\ user_at = messages[fresh].sent_at
       /\ Transports[retry.next] \notin messages[fresh].reached
       /\ loop # "ended"]_vars

(* A silent user gets at most Delays follow-ups of one scene, whatever     *)
(* observations, expiries and ticks lie between them.                      *)
FollowupsBounded == ~Struck({"crash", "lost"}) => followups <= Delays

(* Every message that was committed to the session was delivered and       *)
(* announced, unless its tick is still under way.                          *)
CommittedIsSent ==
  struck = {} =>
    \A m \in 1 .. Last :
      ~messages[m].announced =>
        m = Last /\ tick.at \in {"dispatch", "commit", "drift_dispatch"}

(* While a desktop user's message waits for its turn and no tick runs, the *)
(* follow-ups it has started stay scheduled.                               *)
WaitingSceneKept ==
  [][turn.at = "waiting" /\ turn.desktop /\ tick.at = "idle"
       /\ chain # NoScene => chain' # NoScene]_vars

(* Ticks and turns give the lock back, retries end, a stopped loop ends;   *)
(* and without faults the last message has reached every transport unless  *)
(* the user, a later tick or the end of the loop came first.               *)
Unanswered ==
  fresh # 0 /\ messages[fresh].announced /\ user_at = messages[fresh].sent_at

Settles ==
  <>[](/\ lock = <<>> /\ retry.at = "none"
       /\ ~running => loop = "ended"
       /\ struck = {} /\ Unanswered =>
            messages[fresh].reached = {Transports[i] : i \in 1 .. Len(Transports)})
=============================================================================
