---------------------------- MODULE ProactiveProofs ----------------------------
(* What TLC checks of Proactive on two transports and one alert, proved for *)
(* any number of transports, items, ticks, turns, follow-ups and faults.    *)
EXTENDS Proactive, SequenceTheorems, TLAPS

Names == {Transports[i] : i \in 1..Len(Transports)}
Motives == {"none", "scene", "relationship"}
Keys == SUBSET (Items \cup Nat)

Rows == [mode : {"turn", "drift"}, key : Keys, cited : SUBSET Items,
         sent_at : Nat, reached : SUBSET Names, announced : BOOLEAN]

Ticks == [at : {"idle", "gate", "fetch", "judge", "resolve", "dispatch",
                "commit", "drift", "drift_dispatch"},
          selected : Motives, active : Motives, fetched : SUBSET Items,
          cited : SUBSET Items, noted : SUBSET Items, discarded : SUBSET Items,
          key : Keys, verdict : {"none", "reply", "skip", "closing"}]

Retries == [of : Nat, next : Nat, at : {"none", "waiting", "sending"}]

(* The types of the state, with the shape of every record.                 *)
Types ==
    /\ running \in BOOLEAN /\ loop \in {"interval", "tick", "ended"}
    /\ tick \in Ticks
    /\ turn \in [at : {"none", "waiting", "started", "reasoned"}, desktop : BOOLEAN]
    /\ messages \in Seq(Rows)
    /\ retry \in Retries
    /\ cancelled \in BOOLEAN /\ observing \in BOOLEAN
    /\ acked \subseteq Items /\ deliveries \subseteq Keys
    /\ user_at \in Nat /\ followups \in Nat
    /\ chain \in NoScene .. Delays - 1

(* Who queues for the role lock, and who is past it.                       *)
Locks ==
    /\ lock \in {<<>>, <<"tick">>, <<"turn">>, <<"tick", "turn">>, <<"turn", "tick">>}
    /\ loop = "tick" <=> lock \in {<<"tick">>, <<"tick", "turn">>, <<"turn", "tick">>}
    /\ turn.at # "none" <=> lock \in {<<"turn">>, <<"tick", "turn">>, <<"turn", "tick">>}
    /\ tick.at = "idle" <=> loop # "tick"
    /\ tick.at \notin {"idle", "gate"} => Holds("tick")
    /\ turn.at \in {"started", "reasoned"} => Holds("turn")

(* Only the message nothing has followed is repeated, and only on          *)
(* transports after those it was tried on.                                 *)
Repeats ==
    /\ fresh \in 0..Last /\ retry.of \in 0..Last
    /\ \A m \in 1..Last : messages[m].sent_at <= user_at
    /\ retry.at # "none" =>
         /\ retry.of = fresh /\ fresh # 0 /\ loop # "ended"
         /\ retry.next \in 2..Len(Transports)
         /\ messages[fresh].reached # {}
         /\ messages[fresh].reached \subseteq {Transports[i] : i \in 1..retry.next - 1}

(* The message under way is the last row, and nothing repeats it yet.      *)
UnderWay ==
    /\ tick.at \in {"dispatch", "commit", "drift_dispatch"} =>
         Last # 0 /\ messages[Last].key = tick.key
    /\ tick.at \in {"dispatch", "commit"} =>
         fresh = Last /\ retry.at = "none" /\ messages[Last].cited = tick.cited
    /\ tick.at = "drift_dispatch" => fresh # Last /\ messages[Last].cited = {}
    /\ tick.at \in {"dispatch", "drift_dispatch"} => messages[Last].reached = {}
    /\ tick.at = "commit" => messages[Last].reached = {Head(Transports)}

(* The scene's attempts count the follow-ups that were sent.               *)
Counted ==
    ~Struck({"crash", "lost"}) =>
      /\ followups <= Delays
      /\ tick.at \notin {"idle", "commit"} /\ "scene" \in {tick.selected, tick.active} =>
           followups <= Delays - 1
      /\ chain # NoScene =>
           \/ followups <= chain
           \/ tick.at = "commit" /\ tick.active = "scene" /\ followups <= chain + 1

(* What was shown is recorded, and no later reply has its key.             *)
Recorded ==
    ~Struck({"crash", "lost"}) =>
      /\ \A m \in 1..Last : messages[m].reached # {} => messages[m].key \in deliveries
      /\ \A m, n \in 1..Last :
           m < n /\ messages[m].reached # {} /\ messages[n].mode = "turn" =>
             messages[n].key # messages[m].key

(* What was shown and cited is acknowledged, a tick that commits aside,    *)
(* and what a tick may cite is not.                                        *)
Acknowledged ==
    ~Struck({"crash", "lost", "ack"}) =>
      /\ tick.at \in {"gate", "fetch"} => tick.fetched = {}
      /\ tick.at \in {"judge", "resolve"} => tick.fetched \cap acked = {}
      /\ tick.at = "resolve" /\ tick.verdict = "reply" => tick.cited \subseteq tick.fetched
      /\ \A m \in 1..Last : messages[m].reached # {} =>
           messages[m].cited \subseteq acked \/ (m = Last /\ tick.at = "commit")
      /\ \A m, n \in 1..Last :
           m < n /\ messages[m].reached # {} => messages[n].cited \cap messages[m].cited = {}

IInv == Types /\ Locks /\ Repeats /\ UnderWay /\ Counted /\ Recorded /\ Acknowledged

-----------------------------------------------------------------------------
(* The rows of the session.                                                *)

\* Two rows that are the same message.
Same(r, s) ==
  r.mode = s.mode /\ r.key = s.key /\ r.cited = s.cited /\ r.sent_at = s.sent_at

\* The log without new rows, in which at most row m was shown once more.
Alike(log, m) ==
  /\ log \in Seq(Rows) /\ Len(log) = Last
  /\ \A k \in 1..Last :
       /\ Same(log[k], messages[k])
       /\ messages[k].reached \subseteq log[k].reached
       /\ k # m => log[k].reached = messages[k].reached

\* Every transport has a name.
LEMMA Named == \A i \in 1..Len(Transports) : Transports[i] \in Names
  BY DEF Names

\* The preferred transport is the first.
LEMMA Preferred == /\ Len(Transports) \in Nat \ {0}
                   /\ Head(Transports) = Transports[1] /\ Head(Transports) \in Names
  BY ProactiveBounds DEF Names

\* The number of rows.
LEMMA Lasts == ASSUME Types PROVE Last \in Nat /\ \A k \in 1..Last : messages[k] \in Rows
  BY DEF Types, Last

\* Showing a row changes where it was shown, and nothing else.
LEMMA ShownRow ==
  ASSUME NEW log \in Seq(Rows), NEW m \in 1..Len(log), NEW t \in Names
  PROVE  /\ Shown(log, m, t) \in Seq(Rows) /\ Len(Shown(log, m, t)) = Len(log)
         /\ \A k \in 1..Len(log) :
              /\ Same(Shown(log, m, t)[k], log[k])
              /\ Shown(log, m, t)[k].reached =
                   IF k = m THEN log[k].reached \cup {t} ELSE log[k].reached
<1> DEFINE row == [log[m] EXCEPT !.reached = @ \cup {t}]
<1>1. row \in Rows /\ Same(row, log[m]) /\ row.reached = log[m].reached \cup {t}
  <2>1. log[m] \in Rows
    OBVIOUS
  <2> QED
    BY <2>1 DEF Rows, Same
<1>2. Shown(log, m, t) = [log EXCEPT ![m] = row]
  BY DEF Shown
<1> HIDE DEF row
<1>3. /\ [log EXCEPT ![m] = row] \in Seq(Rows) /\ Len([log EXCEPT ![m] = row]) = Len(log)
      /\ \A k \in 1..Len(log) : [log EXCEPT ![m] = row][k] = IF k = m THEN row ELSE log[k]
  BY <1>1
<1> QED
  BY <1>1, <1>2, <1>3 DEF Same

\* Announcing a row leaves the message and where it was shown.
LEMMA AnnouncedRow ==
  ASSUME NEW log \in Seq(Rows), NEW m \in 1..Len(log)
  PROVE  /\ Announce(log, m) \in Seq(Rows) /\ Len(Announce(log, m)) = Len(log)
         /\ \A k \in 1..Len(log) : /\ Same(Announce(log, m)[k], log[k])
                                   /\ Announce(log, m)[k].reached = log[k].reached
<1> DEFINE row == [log[m] EXCEPT !.announced = TRUE]
<1>1. row \in Rows /\ Same(row, log[m]) /\ row.reached = log[m].reached
  <2>1. log[m] \in Rows
    OBVIOUS
  <2> QED
    BY <2>1 DEF Rows, Same
<1>2. Announce(log, m) = [log EXCEPT ![m] = row]
  BY DEF Announce
<1> HIDE DEF row
<1>3. /\ [log EXCEPT ![m] = row] \in Seq(Rows) /\ Len([log EXCEPT ![m] = row]) = Len(log)
      /\ \A k \in 1..Len(log) : [log EXCEPT ![m] = row][k] = IF k = m THEN row ELSE log[k]
  BY <1>1
<1> QED
  BY <1>1, <1>2, <1>3 DEF Same

\* What a dispatch may do: it is recorded as sent only if it was shown, and
\* shown without being recorded only if its answer was lost.
LEMMA OutcomeOf ==
  ASSUME NEW t \in Names, NEW outcome \in Outcomes(t)
  PROVE  \/ outcome = [shown |-> TRUE, reported |-> TRUE, kinds |-> {}]
         \/ outcome = [shown |-> TRUE, reported |-> FALSE, kinds |-> {"lost"}]
         \/ outcome.shown = FALSE /\ outcome.reported = FALSE
  BY DEF Outcomes

\* The log after a dispatch.
LEMMA AfterLog ==
  ASSUME Types, NEW m \in 1..Last, NEW t \in Names, NEW outcome \in Outcomes(t)
  PROVE  /\ Alike(After(outcome, m, t), m)
         /\ After(outcome, m, t)[m].reached =
              IF outcome.shown THEN messages[m].reached \cup {t} ELSE messages[m].reached
<1>1. messages \in Seq(Rows) /\ Last = Len(messages)
  BY DEF Types, Last
<1>2. CASE outcome.shown
  <2>1. After(outcome, m, t) = Shown(messages, m, t)
    BY <1>2 DEF After
  <2>2. /\ Shown(messages, m, t) \in Seq(Rows) /\ Len(Shown(messages, m, t)) = Last
        /\ \A k \in 1..Last :
             /\ Same(Shown(messages, m, t)[k], messages[k])
             /\ Shown(messages, m, t)[k].reached =
                  IF k = m THEN messages[k].reached \cup {t} ELSE messages[k].reached
    BY <1>1, ShownRow
  <2> QED
    BY <1>2, <2>1, <2>2 DEF Alike
<1>3. CASE ~outcome.shown
  BY <1>1, <1>3 DEF After, Alike, Same
<1> QED
  BY <1>2, <1>3

\* The log after a cancelled retry: a row that was shown before may have been
\* shown once more.
LEMMA InterruptedLog ==
  ASSUME Types, Repeats, NEW log \in Interrupted
  PROVE  /\ Alike(log, fresh)
         /\ \A k \in 1..Last : log[k].reached # {} => messages[k].reached # {}
         /\ retry.at = "none" => log = messages
<1>1. messages \in Seq(Rows) /\ Last = Len(messages)
  BY DEF Types, Last
<1>2. CASE log = messages
  BY <1>1, <1>2 DEF Alike, Same
<1>3. CASE log # messages
  <2>1. /\ retry.at = "sending" /\ log = Shown(messages, retry.of, Transports[retry.next])
    BY <1>3 DEF Interrupted
  <2>2. retry.of = fresh /\ fresh \in 1..Last /\ Transports[retry.next] \in Names
        /\ messages[fresh].reached # {}
    BY <2>1, Named DEF Repeats, Types, Last
  <2>3. Alike(log, fresh)
    <3> DEFINE t == Transports[retry.next]
    <3>0. t \in Names /\ log = Shown(messages, fresh, t) /\ fresh \in 1..Len(messages)
      BY <1>1, <2>1, <2>2
    <3> HIDE DEF t
    <3>1. /\ Shown(messages, fresh, t) \in Seq(Rows) /\ Len(Shown(messages, fresh, t)) = Last
          /\ \A k \in 1..Last :
               /\ Same(Shown(messages, fresh, t)[k], messages[k])
               /\ Shown(messages, fresh, t)[k].reached =
                    IF k = fresh THEN messages[k].reached \cup {t} ELSE messages[k].reached
      BY <1>1, <3>0, ShownRow
    <3> QED
      BY <3>0, <3>1 DEF Alike
  <2>4. \A k \in 1..Last : log[k].reached # {} => messages[k].reached # {}
    BY <2>2, <2>3 DEF Alike
  <2> QED
    BY <2>1, <2>3, <2>4
<1> QED
  BY <1>2, <1>3


-----------------------------------------------------------------------------
(* Types.                                                                  *)

\* A tick that is over, a task that is over and a turn that is over.
LEMMA Rests == Idle \in Ticks /\ NoRetry \in Retries
  BY DEF Idle, Ticks, Motives, Keys, NoRetry, Retries

\* A new row.
LEMMA NewRow ==
  ASSUME Types, NEW mode \in {"turn", "drift"}, NEW key \in Keys, NEW cited \in SUBSET Items
  PROVE  Message(mode, key, cited) \in Rows
  BY DEF Message, Rows, Types

\* What a judged tick may be delivered under.
LEMMA KeyTypes ==
  ASSUME NEW text \in Texts, NEW cited \in SUBSET Items
  PROVE  DeliveryKey(cited, text) \in Keys /\ {text} \in Keys
<1>1. text \in Nat
  BY ProactiveBounds DEF Texts
<1> QED
  BY <1>1 DEF DeliveryKey, Keys

\* A scene has at least one follow-up; no scene is a value of its own.
LEMMA Attempts == /\ Delays \in Nat \ {0}
                  /\ NoScene \in NoScene .. Delays - 1 /\ 0 \in NoScene .. Delays - 1
<1>1. Delays \in Nat \ {0}
  BY ProactiveBounds
<1> QED
  BY <1>1 DEF NoScene

\* The initial state.
LEMMA InitTypes == Init => Types
<1> SUFFICES ASSUME Init PROVE Types
  OBVIOUS
<1>1. turn \in [at : {"none", "waiting", "started", "reasoned"}, desktop : BOOLEAN]
  BY DEF Init, NoTurn
<1>2. chain \in NoScene .. Delays - 1
  BY Attempts DEF Init
<1>3. messages \in Seq(Rows) /\ tick \in Ticks /\ retry \in Retries
  BY Rests DEF Init
<1> QED
  BY <1>1, <1>2, <1>3 DEF Init, Types

\* Steps that leave the rows, the stores and the retries alone.
LEMMA TypesPlain ==
  ASSUME Types,
         TickDue \/ GateBlocks \/ GatePasses \/ Fetch \/ Judge \/ DriftSilent
           \/ TurnArrives \/ TurnReasons \/ TurnEnds \/ Observed \/ Stop \/ RetryWakes
  PROVE  Types'
<1> USE Attempts, Rests
<1>1. CASE TickDue
  <2>1. tick' \in Ticks
    BY <1>1 DEF TickDue, Idle, Ticks, Motives, Keys
  <2> QED
    BY <1>1, <2>1 DEF TickDue, Types, loopVars, sceneVars, storeVars, userVars
<1>2. CASE GateBlocks
  BY <1>2 DEF GateBlocks, EndTick, Types, sceneVars, storeVars, userVars
<1>3. CASE GatePasses
  <2>1. tick' \in Ticks
    BY ZenonT(60), <1>3 DEF GatePasses, Types, Ticks, Motives
  <2>2. chain' \in NoScene .. Delays - 1
    BY <1>3 DEF GatePasses, Types, NoScene
  <2> QED
    BY <1>3, <2>1, <2>2 DEF GatePasses, Types, loopVars, storeVars, userVars
<1>4. CASE Fetch
  <2>1. PICK fetched \in SUBSET (Items \ acked) :
          \/ tick' = [tick EXCEPT !.at = "judge", !.fetched = fetched]
          \/ tick' = [tick EXCEPT !.at = "judge", !.active = tick.selected]
          \/ tick' \in {[tick EXCEPT !.at = "drift"],
                        [tick EXCEPT !.at = "resolve", !.verdict = "closing"]}
    BY <1>4 DEF Fetch
  <2>2. tick \in Ticks /\ fetched \in SUBSET Items
    BY DEF Types
  <2>3. tick' \in Ticks
    BY ZenonT(60), <2>1, <2>2 DEF Ticks
  <2> QED
    BY <1>4, <2>3 DEF Fetch, Types, loopVars, sceneVars, storeVars, userVars
<1>5. CASE Judge
  <2>1. PICK cited \in SUBSET tick.fetched :
        \E noted \in SUBSET ((tick.fetched \cap Contents) \ cited) :
        \E discarded \in SUBSET ((tick.fetched \cap Contents) \ (cited \cup noted)) :
          \/ \E text \in Texts :
               tick' = [tick EXCEPT !.at = "resolve", !.noted = noted, !.discarded = discarded,
                                    !.verdict = "reply", !.cited = cited,
                                    !.key = DeliveryKey(cited, text)]
          \/ \E verdict \in {"skip", "closing"} :
               tick' = [tick EXCEPT !.at = "resolve", !.noted = noted, !.discarded = discarded,
                                    !.verdict = verdict]
    BY <1>5 DEF Judge
  <2>2. tick.fetched \subseteq Items /\ tick \in Ticks /\ cited \in SUBSET Items
    BY DEF Types, Ticks
  <2>3. \A text \in Texts : DeliveryKey(cited, text) \in Keys
    BY <2>2, KeyTypes
  <2>4. PICK noted \in SUBSET ((tick.fetched \cap Contents) \ cited) :
        \E discarded \in SUBSET ((tick.fetched \cap Contents) \ (cited \cup noted)) :
          \/ \E text \in Texts :
               tick' = [tick EXCEPT !.at = "resolve", !.noted = noted, !.discarded = discarded,
                                    !.verdict = "reply", !.cited = cited,
                                    !.key = DeliveryKey(cited, text)]
          \/ \E verdict \in {"skip", "closing"} :
               tick' = [tick EXCEPT !.at = "resolve", !.noted = noted, !.discarded = discarded,
                                    !.verdict = verdict]
    BY <2>1
  <2>5. PICK discarded \in SUBSET ((tick.fetched \cap Contents) \ (cited \cup noted)) :
          \/ \E text \in Texts :
               tick' = [tick EXCEPT !.at = "resolve", !.noted = noted, !.discarded = discarded,
                                    !.verdict = "reply", !.cited = cited,
                                    !.key = DeliveryKey(cited, text)]
          \/ \E verdict \in {"skip", "closing"} :
               tick' = [tick EXCEPT !.at = "resolve", !.noted = noted, !.discarded = discarded,
                                    !.verdict = verdict]
    BY <2>4
  <2>6. noted \in SUBSET Items /\ discarded \in SUBSET Items
    BY <2>2
  <2>7. tick' \in Ticks
    <3>1. CASE \E text \in Texts :
               tick' = [tick EXCEPT !.at = "resolve", !.noted = noted, !.discarded = discarded,
                                    !.verdict = "reply", !.cited = cited,
                                    !.key = DeliveryKey(cited, text)]
      <4>1. PICK key \in Keys :
               tick' = [tick EXCEPT !.at = "resolve", !.noted = noted, !.discarded = discarded,
                                    !.verdict = "reply", !.cited = cited, !.key = key]
        BY <3>1, <2>3
      <4> QED
        BY <4>1, <2>2, <2>6 DEF Ticks
    <3>2. CASE \E verdict \in {"skip", "closing"} :
               tick' = [tick EXCEPT !.at = "resolve", !.noted = noted, !.discarded = discarded,
                                    !.verdict = verdict]
      BY ZenonT(60), <3>2, <2>2, <2>6 DEF Ticks
    <3> QED
      BY <2>5, <3>1, <3>2
  <2> QED
    BY <1>5, <2>7 DEF Judge, Types, loopVars, sceneVars, storeVars, userVars
<1>6. CASE DriftSilent
  BY <1>6 DEF DriftSilent, EndTick, Types, sceneVars, storeVars, userVars
<1>7. CASE TurnArrives
  <2>1. turn' \in [at : {"none", "waiting", "started", "reasoned"}, desktop : BOOLEAN]
    BY <1>7 DEF TurnArrives
  <2>2. user_at' \in Nat /\ followups' \in Nat /\ chain' \in NoScene .. Delays - 1
    BY <1>7 DEF TurnArrives, Heard, Types, NoScene
  <2> QED
    BY <1>7, <2>1, <2>2 DEF TurnArrives, Types, storeVars
<1>8. CASE TurnReasons
  <2>1. turn' \in [at : {"none", "waiting", "started", "reasoned"}, desktop : BOOLEAN]
    BY <1>8 DEF TurnReasons, Types
  <2>2. user_at' \in Nat /\ followups' \in Nat /\ chain' \in NoScene .. Delays - 1
    BY <1>8 DEF TurnReasons, Heard, Types, NoScene
  <2> QED
    BY <1>8, <2>1, <2>2 DEF TurnReasons, Types, storeVars, loopVars
<1>9. CASE TurnEnds
  <2>1. turn' \in [at : {"none", "waiting", "started", "reasoned"}, desktop : BOOLEAN]
    BY <1>9 DEF TurnEnds, NoTurn
  <2>2. observing' \in BOOLEAN
    BY <1>9 DEF TurnEnds
  <2> QED
    BY <1>9, <2>1, <2>2 DEF TurnEnds, Types, storeVars
<1>10. CASE Observed
  BY <1>10 DEF Observed, Types, NoScene, loopVars, storeVars, userVars
<1>11. CASE Stop
  BY <1>11 DEF Stop, Types, sceneVars, storeVars, userVars
<1>12. CASE RetryWakes
  <2>1. retry' \in Retries
    BY <1>12 DEF RetryWakes, Types, Retries
  <2> QED
    BY <1>12, <2>1 DEF RetryWakes, Types, loopVars, sceneVars, storeVars, userVars
<1> QED
  BY <1>1, <1>2, <1>3, <1>4, <1>5, <1>6, <1>7, <1>8, <1>9, <1>10, <1>11, <1>12


-----------------------------------------------------------------------------
(* What a step does to the rows.                                           *)

\* No row is added, and none shown for the first time.
Steady ==
  /\ Alike(messages', fresh)
  /\ \A k \in 1..Last : messages'[k].reached # {} => messages[k].reached # {}

\* One row is added behind the others, shown nowhere.
Wrote(mode, cited) ==
  /\ messages' \in Seq(Rows) /\ Last' = Last + 1
  /\ \A k \in 1..Last :
       /\ Same(messages'[k], messages[k])
       /\ messages[k].reached \subseteq messages'[k].reached
       /\ k # fresh => messages'[k].reached = messages[k].reached
       /\ messages'[k].reached # {} => messages[k].reached # {}
  /\ messages'[Last + 1].mode = mode /\ messages'[Last + 1].key = tick'.key
  /\ messages'[Last + 1].cited = cited /\ messages'[Last + 1].reached = {}
  /\ messages'[Last + 1].sent_at = user_at

\* Unchanged rows are steady.
LEMMA StillSteady == ASSUME Types, messages' = messages PROVE Steady
  BY Lasts DEF Types, Steady, Alike, Same, Last

\* A cancelled retry is steady.
LEMMA CancelSteady ==
  ASSUME Types, Repeats, messages' \in Interrupted
  PROVE  Steady
  BY InterruptedLog DEF Steady

\* A retry's dispatch is steady: its row was shown before.
LEMMA RetrySteady ==
  ASSUME Types, Repeats, RetrySent
  PROVE  /\ Steady
         /\ messages'[fresh].reached \subseteq messages[fresh].reached \cup {Transports[retry.next]}
<1>1. PICK outcome \in Outcomes(Transports[retry.next]) :
        messages' = After(outcome, retry.of, Transports[retry.next])
  BY DEF RetrySent
<1>2. retry.of = fresh /\ fresh \in 1..Last /\ Transports[retry.next] \in Names
      /\ messages[fresh].reached # {}
  BY Named DEF RetrySent, Repeats, Types, Last
<1> DEFINE t == Transports[retry.next]
<1>3. outcome \in Outcomes(t) /\ messages' = After(outcome, fresh, t) /\ t \in Names
  BY <1>1, <1>2
<1> HIDE DEF t
<1>4. Alike(messages', fresh) /\ messages'[fresh].reached \subseteq messages[fresh].reached \cup {t}
  BY <1>2, <1>3, AfterLog
<1>5. \A k \in 1..Last : messages'[k].reached # {} => messages[k].reached # {}
  BY <1>2, <1>4 DEF Alike
<1> QED
  BY <1>4, <1>5 DEF Steady, t

\* An announcement is steady.
LEMMA CommitSteady ==
  ASSUME Types, Repeats, UnderWay, Commit
  PROVE  /\ Steady /\ Last \in 1..Last
         /\ \A k \in 1..Last : messages'[k].reached = messages[k].reached
<1>1. messages \in Seq(Rows) /\ Last = Len(messages) /\ Last # 0 /\ Last \in Nat
  BY DEF Types, Last, UnderWay, Commit
<1>2. messages' = Announce(messages, Last) /\ Last \in 1..Len(messages)
  BY <1>1 DEF Commit
<1>3. /\ Announce(messages, Last) \in Seq(Rows) /\ Len(Announce(messages, Last)) = Len(messages)
      /\ \A k \in 1..Len(messages) : /\ Same(Announce(messages, Last)[k], messages[k])
                                     /\ Announce(messages, Last)[k].reached = messages[k].reached
  BY <1>1, <1>2, AnnouncedRow
<1> QED
  BY <1>1, <1>2, <1>3 DEF Steady, Alike

\* Every step but a new row and a first dispatch is steady.
LEMMA SteadyStep ==
  ASSUME Types, Repeats, UnderWay, [Next]_vars,
         ~ ResolveSends, ~ DriftWrites, ~ Dispatch, ~ DriftDispatch
  PROVE  Steady
<1>1. CASE messages' = messages
  BY <1>1, StillSteady
<1>2. CASE ResolveSkips \/ TurnStarts \/ LoopEnds
  <2>1. messages' \in Interrupted \/ messages' = messages
    BY <1>2 DEF ResolveSkips, TurnStarts, LoopEnds, CancelRetry
  <2> QED
    BY <2>1, StillSteady, CancelSteady
<1>3. CASE RetrySent
  BY <1>3, RetrySteady
<1>4. CASE Commit
  BY <1>4, CommitSteady
<1>5. messages' = messages \/ ResolveSkips \/ TurnStarts \/ LoopEnds \/ RetrySent \/ Commit
  BY DEF Next, vars, TickStep, TurnStep, RetryStep, TickDue, GateBlocks, GatePasses, Fetch, Judge,
         DriftSilent, TurnArrives, TurnReasons, TurnEnds, RetryWakes, Observed, Stop, Crash, storeVars
<1> QED
  BY <1>1, <1>2, <1>3, <1>4, <1>5

\* The two ways a row is added.
LEMMA WroteRow ==
  ASSUME Types, Repeats, NEW log, Alike(log, fresh),
         \A k \in 1..Last : log[k].reached # {} => messages[k].reached # {},
         NEW mode \in {"turn", "drift"}, NEW cited \in SUBSET Items, tick'.key \in Keys,
         messages' = Append(log, Message(mode, tick'.key, cited))
  PROVE  Wrote(mode, cited)
<1> DEFINE row == Message(mode, tick'.key, cited)
<1>1. row \in Rows
  BY NewRow
<1>2. /\ row.mode = mode /\ row.key = tick'.key /\ row.cited = cited /\ row.reached = {}
      /\ row.sent_at = user_at
  BY DEF Message
<1>3. messages' = Append(log, row)
  OBVIOUS
<1> HIDE DEF row
<1>4. log \in Seq(Rows) /\ Len(log) = Last /\ Last \in Nat
  BY Lasts DEF Alike
<1>5. messages' \in Seq(Rows) /\ Last' = Last + 1 /\ messages'[Last + 1] = row
      /\ \A k \in 1..Last : messages'[k] = log[k]
  BY <1>1, <1>3, <1>4 DEF Last
<1> QED
  BY <1>2, <1>5 DEF Wrote, Alike

\* A judged tick adds the row of its reply, with the items it cites.
LEMMA ReplyWrote ==
  ASSUME Types, Repeats, ResolveSends
  PROVE  Wrote("turn", tick.cited) /\ tick'.key = tick.key /\ tick'.cited = tick.cited
<1>1. tick'.key = tick.key /\ tick.key \in Keys /\ tick.cited \in SUBSET Items
      /\ tick'.cited = tick.cited
  BY DEF ResolveSends, Types, Ticks
<1>2. PICK log \in Interrupted : messages' = Append(log, Message("turn", tick.key, tick.cited))
  BY DEF ResolveSends
<1> QED
  BY <1>1, <1>2, InterruptedLog, WroteRow

\* A drift tick adds the row of its text and cites nothing.
LEMMA DriftWrote ==
  ASSUME Types, Repeats, DriftWrites
  PROVE  Wrote("drift", {}) /\ tick' \in Ticks
<1>1. PICK text \in Texts :
        /\ messages' = Append(messages, Message("drift", {text}, {}))
        /\ tick' = [tick EXCEPT !.at = "drift_dispatch", !.key = {text}]
  BY DEF DriftWrites
<1>2. {text} \in Keys
  BY KeyTypes
<1>3. tick' \in Ticks /\ tick'.key = {text}
  BY <1>1, <1>2 DEF Types, Ticks
<1>4. Alike(messages, fresh)
  BY Lasts DEF Types, Alike, Same, Last
<1>5. /\ messages' = Append(messages, Message("drift", tick'.key, {})) /\ tick'.key \in Keys
      /\ {} \in SUBSET Items /\ "drift" \in {"turn", "drift"}
  BY <1>1, <1>2, <1>3
<1> QED
  BY <1>3, <1>4, <1>5, WroteRow

\* The first dispatch of a message: it is shown if it is recorded, and only a
\* lost answer makes it shown and not recorded.
LEMMA FirstDispatch ==
  ASSUME Types, UnderWay, Dispatch \/ DriftDispatch
  PROVE  /\ Last \in 1..Last /\ Alike(messages', Last)
         /\ \/ /\ messages'[Last].reached = {Head(Transports)}
               /\ deliveries' = deliveries \cup {messages[Last].key}
               /\ Dispatch => tick'.at = "commit"
            \/ messages'[Last].reached = {} /\ tick'.at = "idle" /\ deliveries' = deliveries
            \/ "lost" \in struck' /\ tick'.at = "idle"
<1>1. messages \in Seq(Rows) /\ Last = Len(messages) /\ Last # 0 /\ Last \in Nat
      /\ messages[Last].reached = {} /\ messages[Last].key = tick.key /\ Last \in 1..Last
  BY DEF Types, Last, UnderWay, Dispatch, DriftDispatch
<1> DEFINE t == Head(Transports)
<1>2. t \in Names
  BY Preferred
<1> HIDE DEF t
<1>3. CASE Dispatch
  <2>1. PICK outcome \in Outcomes(t) :
          /\ messages' = After(outcome, Last, t)
          /\ IF outcome.reported
             THEN deliveries' = Marked(tick.key) /\ tick' = [tick EXCEPT !.at = "commit"]
             ELSE /\ tick' = Idle /\ deliveries' = deliveries
                  /\ \E acks \in Acks(tick.discarded) : Strike(outcome.kinds \cup acks.kinds)
    BY <1>3 DEF Dispatch, EndTick, t
  <2>2. /\ Alike(messages', Last)
        /\ messages'[Last].reached = IF outcome.shown THEN messages[Last].reached \cup {t}
                                                      ELSE messages[Last].reached
    BY <1>1, <1>2, <2>1, AfterLog
  <2>3. CASE outcome = [shown |-> TRUE, reported |-> TRUE, kinds |-> {}]
    <3>1. deliveries' = Marked(tick.key) /\ tick' = [tick EXCEPT !.at = "commit"]
      BY <2>1, <2>3
    <3>2. tick'.at = "commit"
      BY <3>1 DEF Types, Ticks
    <3>3. messages'[Last].reached = {t}
      BY <1>1, <2>2, <2>3
    <3> QED
      BY <1>1, <2>2, <3>1, <3>2, <3>3, Zenon DEF Marked, t
  <2>4. CASE outcome = [shown |-> TRUE, reported |-> FALSE, kinds |-> {"lost"}]
    <3>1. tick' = Idle /\ "lost" \in struck'
      BY <2>1, <2>4 DEF Strike
    <3> QED
      BY <1>1, <2>2, <3>1 DEF Idle
  <2>5. CASE outcome.shown = FALSE /\ outcome.reported = FALSE
    <3>1. tick' = Idle /\ deliveries' = deliveries
      BY <2>1, <2>5
    <3>2. messages'[Last].reached = {}
      BY <1>1, <2>2, <2>5
    <3> QED
      BY <1>1, <2>2, <3>1, <3>2 DEF Idle
  <2> QED
    BY <1>2, <2>3, <2>4, <2>5, OutcomeOf
<1>4. CASE DriftDispatch
  <2>1. PICK outcome \in Outcomes(t) :
          /\ Strike(outcome.kinds)
          /\ IF outcome.reported
             THEN /\ messages' = Announce(After(outcome, Last, t), Last)
                  /\ deliveries' = Marked(tick.key)
             ELSE messages' = After(outcome, Last, t) /\ deliveries' = deliveries
    BY <1>4 DEF DriftDispatch, t
  <2>2. tick'.at = "idle"
    BY <1>4 DEF DriftDispatch, EndTick, Idle
  <2> DEFINE log == After(outcome, Last, t)
  <2>3. /\ Alike(log, Last)
        /\ log[Last].reached = IF outcome.shown THEN messages[Last].reached \cup {t}
                                                ELSE messages[Last].reached
    BY <1>1, <1>2, <2>1, AfterLog
  <2>4. CASE outcome = [shown |-> TRUE, reported |-> TRUE, kinds |-> {}]
    <3>1. messages' = Announce(log, Last) /\ deliveries' = Marked(tick.key)
      BY <2>1, <2>4
    <3> HIDE DEF log
    <3>2. log \in Seq(Rows) /\ Last \in 1..Len(log) /\ Len(log) = Last
      BY <1>1, <2>3 DEF Alike
    <3>3. /\ messages' \in Seq(Rows) /\ Len(messages') = Last
          /\ \A k \in 1..Last : /\ Same(messages'[k], log[k])
                                /\ messages'[k].reached = log[k].reached
      BY <3>1, <3>2, AnnouncedRow
    <3>4. Alike(messages', Last)
      BY <2>3, <3>3 DEF Alike, Same
    <3>5. messages'[Last].reached = {t}
      BY <1>1, <2>3, <2>4, <3>3
    <3> QED
      BY <1>1, <1>4, <2>2, <3>1, <3>4, <3>5 DEF Marked, t, Dispatch, DriftDispatch
  <2>5. CASE outcome = [shown |-> TRUE, reported |-> FALSE, kinds |-> {"lost"}]
    <3>1. messages' = log /\ "lost" \in struck'
      BY <2>1, <2>5 DEF Strike
    <3> QED
      BY <1>1, <2>2, <2>3, <3>1
  <2>6. CASE outcome.shown = FALSE /\ outcome.reported = FALSE
    <3>1. messages' = log /\ deliveries' = deliveries
      BY <2>1, <2>6
    <3>2. messages'[Last].reached = {}
      BY <1>1, <2>3, <2>6, <3>1
    <3> QED
      BY <1>1, <2>2, <2>3, <3>1, <3>2
  <2> QED
    BY <1>2, <2>4, <2>5, <2>6, OutcomeOf
<1> QED
  BY <1>3, <1>4


\* Steps that change the rows, the stores or the retries.
LEMMA TypesRows ==
  ASSUME Types, Repeats, UnderWay,
         ResolveSkips \/ ResolveSends \/ Dispatch \/ Commit \/ DriftWrites \/ DriftDispatch
           \/ RetrySent \/ TurnStarts \/ LoopEnds \/ Crash
  PROVE  Types'
<1> USE Attempts, Rests
<1>1. tick.cited \in SUBSET Items /\ tick.noted \in SUBSET Items /\ tick.fetched \in SUBSET Items
      /\ tick.discarded \in SUBSET Items /\ tick.key \in Keys
  BY DEF Types, Ticks
<1>2. \A items \in SUBSET Items : \A acks \in Acks(items) : acked \cup acks.acked \subseteq Items
  BY DEF Acks, Types
<1>3. messages' \in Seq(Rows)
  <2>1. CASE ResolveSends \/ DriftWrites
    BY <2>1, ReplyWrote, DriftWrote DEF Wrote
  <2>2. CASE Dispatch \/ DriftDispatch
    BY <2>2, FirstDispatch DEF Alike
  <2>3. CASE ~ (ResolveSends \/ DriftWrites \/ Dispatch \/ DriftDispatch)
    <3>1. [Next]_vars
      BY DEF Next, TickStep, TurnStep, RetryStep
    <3> QED
      BY <2>3, <3>1, SteadyStep DEF Steady, Alike
  <2> QED
    BY <2>1, <2>2, <2>3
<1>4. CASE ResolveSkips
  <2>1. GuardAcks \in SUBSET Items
    BY <1>1, ProactiveBounds DEF GuardAcks, Items
  <2>2. acked' \subseteq Items
    <3>1. PICK acks \in Acks(IF tick.verdict = "reply" THEN GuardAcks ELSE tick.discarded) :
            acked' = acks.acked
      BY <1>4 DEF ResolveSkips
    <3> QED
      BY <1>1, <1>2, <2>1, <3>1
  <2>3. chain' \in NoScene .. Delays - 1
    BY <1>4 DEF ResolveSkips, Types
  <2> QED
    BY <1>3, <1>4, <2>2, <2>3 DEF ResolveSkips, EndTick, CancelRetry, Types, userVars
<1>5. CASE ResolveSends
  <2>1. tick' \in Ticks
    BY <1>5 DEF ResolveSends, Types, Ticks, Motives
  <2> QED
    BY <1>3, <1>5, <2>1 DEF ResolveSends, FreshEvent, Types, loopVars, sceneVars, userVars
<1>6. CASE Dispatch
  <2>1. tick' \in Ticks /\ acked' \subseteq Items /\ deliveries' \subseteq Keys
        /\ loop' \in {"interval", "tick", "ended"} /\ running' \in BOOLEAN
    <3>1. PICK outcome \in Outcomes(Head(Transports)) :
           IF outcome.reported
           THEN /\ deliveries' = Marked(tick.key) /\ tick' = [tick EXCEPT !.at = "commit"]
                /\ UNCHANGED <<loopVars, acked>>
           ELSE /\ EndTick /\ UNCHANGED deliveries
                /\ \E acks \in Acks(tick.discarded) : acked' = acks.acked
      BY <1>6 DEF Dispatch
    <3>2. CASE outcome.reported
      BY <1>1, <3>1, <3>2 DEF Types, Ticks, Marked, loopVars
    <3>3. CASE ~ outcome.reported
      BY <1>1, <1>2, <3>1, <3>3 DEF Types, EndTick
    <3> QED
      BY <3>2, <3>3
  <2>2. followups' \in Nat
    BY <1>6 DEF Dispatch, Types
  <2> QED
    BY <1>3, <1>6, <2>1, <2>2 DEF Dispatch, Types, sceneVars, userVars
<1>7. CASE Commit
  <2>1. tick.cited \cup tick.noted \cup tick.discarded \in SUBSET Items
    BY <1>1
  <2>2. acked' \subseteq Items
    BY <1>2, <1>7, <2>1 DEF Commit
  <2>3. chain' \in NoScene .. Delays - 1
    BY <1>7 DEF Commit, FollowupSent, NoScene, Types
  <2>4. retry' \in Retries
    BY <1>7, Lasts DEF Commit, Retries, Types
  <2> QED
    BY <1>3, <1>7, <2>2, <2>3, <2>4 DEF Commit, EndTick, Types, userVars
<1>8. CASE DriftWrites
  BY <1>3, <1>8, DriftWrote DEF DriftWrites, Types, loopVars, sceneVars, userVars
<1>9. CASE DriftDispatch
  <2>1. deliveries' \subseteq Keys /\ observing' \in BOOLEAN
    BY <1>1, <1>9 DEF DriftDispatch, Marked, Types
  <2> QED
    BY <1>3, <1>9, <2>1 DEF DriftDispatch, EndTick, Types, userVars
<1>10. CASE RetrySent
  <2>1. retry' = [retry EXCEPT !.next = @ + 1, !.at = "waiting"] \/ retry' = NoRetry
    BY <1>10 DEF RetrySent
  <2>2. retry.next + 1 \in Nat /\ retry \in Retries
    BY DEF Types, Retries
  <2>3. retry' \in Retries
    BY <2>1, <2>2 DEF Retries
  <2> QED
    BY <1>3, <1>10, <2>3 DEF RetrySent, Types, loopVars, sceneVars, userVars
<1>11. CASE TurnStarts
  <2>1. turn' \in [at : {"none", "waiting", "started", "reasoned"}, desktop : BOOLEAN]
    BY <1>11 DEF TurnStarts, Types
  <2>2. cancelled' \in BOOLEAN /\ retry' \in Retries
    BY <1>11 DEF TurnStarts, CancelRetry, Types
  <2> QED
    BY <1>3, <1>11, <2>1, <2>2 DEF TurnStarts, Types, loopVars
<1>12. CASE LoopEnds
  BY <1>3, <1>12 DEF LoopEnds, CancelRetry, Types, sceneVars, userVars
<1>13. CASE Crash
  <2>1. turn' \in [at : {"none", "waiting", "started", "reasoned"}, desktop : BOOLEAN]
    BY <1>13 DEF Crash, NoTurn
  <2> QED
    BY <1>13, <2>1 DEF Crash, Types, storeVars
<1> QED
  BY <1>4, <1>5, <1>6, <1>7, <1>8, <1>9, <1>10, <1>11, <1>12, <1>13

\* Types are kept by every step.
LEMMA TypesStep == Types /\ Repeats /\ UnderWay /\ [Next]_vars => Types'
<1> SUFFICES ASSUME Types, Repeats, UnderWay, [Next]_vars PROVE Types'
  OBVIOUS
<1>1. CASE UNCHANGED vars
  BY <1>1 DEF Types, vars, loopVars, sceneVars, storeVars, userVars, faultVars
<1>2. CASE Next
  BY <1>2, TypesPlain, TypesRows DEF Next, TickStep, TurnStep, RetryStep
<1> QED
  BY <1>1, <1>2


-----------------------------------------------------------------------------
(* The role lock.                                                          *)

\* Who is served, and who is next.
LEMMA Queues ==
  /\ Append(<<>>, "tick") = <<"tick">> /\ Append(<<"turn">>, "tick") = <<"turn", "tick">>
  /\ Append(<<>>, "turn") = <<"turn">> /\ Append(<<"tick">>, "turn") = <<"tick", "turn">>
  /\ Tail(<<"tick">>) = <<>> /\ Tail(<<"tick", "turn">>) = <<"turn">>
  /\ Tail(<<"turn">>) = <<>> /\ Tail(<<"turn", "tick">>) = <<"tick">>
  /\ Head(<<"tick">>) = "tick" /\ Head(<<"tick", "turn">>) = "tick"
  /\ Head(<<"turn">>) = "turn" /\ Head(<<"turn", "tick">>) = "turn"
  /\ <<"tick">> # <<>> /\ <<"turn">> # <<>> /\ <<"tick", "turn">> # <<>> /\ <<"turn", "tick">> # <<>>
  /\ <<"tick">> # <<"turn">> /\ <<"tick", "turn">> # <<"turn", "tick">>
  /\ <<"tick", "turn">> \notin {<<"tick">>, <<"turn">>}
  /\ <<"turn", "tick">> \notin {<<"tick">>, <<"turn">>}
<1>1. /\ Append(<<>>, "tick") = <<"tick">> /\ Append(<<"turn">>, "tick") = <<"turn", "tick">>
      /\ Append(<<>>, "turn") = <<"turn">> /\ Append(<<"tick">>, "turn") = <<"tick", "turn">>
  <2>1. Append(<<>>, "tick") = <<"tick">>
    OBVIOUS
  <2>2. Append(<<"turn">>, "tick") = <<"turn", "tick">>
    <3> DEFINE s == Append(<<"turn">>, "tick")
               t == <<"turn", "tick">>
    <3>1. s \in Seq({"tick", "turn"}) /\ Len(s) = 2 /\ s[1] = "turn" /\ s[2] = "tick"
      OBVIOUS
    <3>2. t \in Seq({"tick", "turn"}) /\ Len(t) = 2 /\ t[1] = "turn" /\ t[2] = "tick"
      OBVIOUS
    <3> HIDE DEF s, t
    <3>3. s = t
      BY <3>1, <3>2, SeqEqual
    <3> QED
      BY <3>3 DEF s, t
  <2>3. Append(<<>>, "turn") = <<"turn">>
    OBVIOUS
  <2>4. Append(<<"tick">>, "turn") = <<"tick", "turn">>
    <3> DEFINE s == Append(<<"tick">>, "turn")
               t == <<"tick", "turn">>
    <3>1. s \in Seq({"tick", "turn"}) /\ Len(s) = 2 /\ s[1] = "tick" /\ s[2] = "turn"
      OBVIOUS
    <3>2. t \in Seq({"tick", "turn"}) /\ Len(t) = 2 /\ t[1] = "tick" /\ t[2] = "turn"
      OBVIOUS
    <3> HIDE DEF s, t
    <3>3. s = t
      BY <3>1, <3>2, SeqEqual
    <3> QED
      BY <3>3 DEF s, t
  <2> QED
    BY <2>1, <2>2, <2>3, <2>4
<1>2. /\ Tail(<<"tick">>) = <<>> /\ Tail(<<"tick", "turn">>) = <<"turn">>
      /\ Tail(<<"turn">>) = <<>> /\ Tail(<<"turn", "tick">>) = <<"tick">>
  OBVIOUS
<1>3. /\ Head(<<"tick">>) = "tick" /\ Head(<<"tick", "turn">>) = "tick"
      /\ Head(<<"turn">>) = "turn" /\ Head(<<"turn", "tick">>) = "turn"
  OBVIOUS
<1>4. /\ Len(<<"tick">>) = 1 /\ Len(<<"turn">>) = 1 /\ Len(<<>>) = 0
      /\ Len(<<"tick", "turn">>) = 2 /\ Len(<<"turn", "tick">>) = 2
  OBVIOUS
<1>5. <<"tick">> # <<"turn">> /\ <<"tick", "turn">> # <<"turn", "tick">>
  BY <1>3
<1> QED
  BY <1>1, <1>2, <1>3, <1>4, <1>5

\* What the lock lets run.
LEMMA Holding ==
  ASSUME Locks
  PROVE  /\ Holds("tick") <=> lock \in {<<"tick">>, <<"tick", "turn">>}
         /\ Holds("turn") <=> lock \in {<<"turn">>, <<"turn", "tick">>}
         /\ Holds("tick") => turn.at \in {"none", "waiting"} \/ turn.at \notin {"started", "reasoned"}
         /\ Holds("turn") => tick.at \in {"idle", "gate"}
         /\ tick.at \notin {"idle", "gate"} => lock \in {<<"tick">>, <<"tick", "turn">>}
         /\ turn.at \in {"started", "reasoned"} => lock \in {<<"turn">>, <<"turn", "tick">>}
  BY Queues DEF Locks, Holds

\* A tick that has the lock and ends.
LEMMA LocksEnd ==
  ASSUME Locks, lock \in {<<"tick">>, <<"tick", "turn">>}, EndTick, UNCHANGED turn
  PROVE  Locks'
<1>1. /\ lock' \in {<<>>, <<"turn">>} /\ loop' = "interval" /\ tick'.at = "idle"
      /\ lock' = <<"turn">> <=> lock = <<"tick", "turn">>
  BY Queues DEF EndTick, Idle
<1>2. turn.at \notin {"started", "reasoned"}
  BY Queues, Holding
<1> QED
  BY <1>1, <1>2, Queues DEF Locks

\* A tick that has the lock and goes on.
LEMMA LocksGo ==
  ASSUME Locks, tick'.at # "idle", tick.at # "idle", UNCHANGED <<lock, loop, turn>>,
         lock \in {<<"tick">>, <<"tick", "turn">>}
  PROVE  Locks'
<1>1. Holds("tick")
  BY Holding
<1> QED
  BY <1>1, Queues DEF Locks, Holds

\* The lock is kept by every step.
LEMMA LocksStep == Types /\ Locks /\ [Next]_vars => Locks'
<1> SUFFICES ASSUME Types, Locks, [Next]_vars PROVE Locks'
  OBVIOUS
<1>a. tick \in Ticks
  BY DEF Types
<1>1. CASE UNCHANGED <<lock, loop, tick, turn>>
  BY <1>1 DEF Locks, Holds
<1>2. CASE TickDue
  <2>1. /\ loop = "interval" /\ loop' = "tick" /\ tick'.at = "gate" /\ turn' = turn
        /\ lock' = Append(lock, "tick")
    BY <1>2 DEF TickDue, Idle, userVars
  <2>2. \/ lock = <<>> /\ lock' = <<"tick">>
        \/ lock = <<"turn">> /\ lock' = <<"turn", "tick">>
    BY <2>1, Queues DEF Locks
  <2> QED
    BY <2>1, <2>2, Queues DEF Locks, Holds
<1>3. CASE GateBlocks \/ DriftSilent \/ ResolveSkips \/ Commit \/ DriftDispatch
  <2>1. EndTick /\ turn' = turn /\ lock \in {<<"tick">>, <<"tick", "turn">>}
    BY <1>3, Holding DEF GateBlocks, DriftSilent, ResolveSkips, Commit, DriftDispatch, userVars
  <2> QED
    BY <2>1, LocksEnd
<1>4. CASE GatePasses \/ Fetch \/ Judge \/ ResolveSends \/ DriftWrites
  <2>1. UNCHANGED <<lock, loop, turn>> /\ tick.at # "idle" /\ lock \in {<<"tick">>, <<"tick", "turn">>}
    BY <1>4, Holding DEF GatePasses, Fetch, Judge, ResolveSends, DriftWrites, loopVars, userVars
  <2>2. tick'.at # "idle"
    BY <1>4, <1>a DEF GatePasses, Fetch, Judge, ResolveSends, DriftWrites, Ticks
  <2> QED
    BY <2>1, <2>2, LocksGo
<1>5. CASE Dispatch
  <2>1. turn' = turn /\ tick.at # "idle" /\ lock \in {<<"tick">>, <<"tick", "turn">>}
    BY <1>5, Holding DEF Dispatch, userVars
  <2>2. EndTick \/ (tick' = [tick EXCEPT !.at = "commit"] /\ UNCHANGED loopVars)
    BY <1>5 DEF Dispatch
  <2>3. EndTick \/ (tick'.at # "idle" /\ UNCHANGED <<lock, loop>>)
    BY <1>a, <2>2 DEF Ticks, loopVars
  <2> QED
    BY <2>1, <2>3, LocksEnd, LocksGo
<1>6. CASE TurnArrives
  <2>1. /\ turn.at = "none" /\ turn'.at = "waiting" /\ UNCHANGED <<loop, tick>>
        /\ lock' = Append(lock, "turn")
    BY <1>6 DEF TurnArrives
  <2>2. \/ lock = <<>> /\ lock' = <<"turn">>
        \/ lock = <<"tick">> /\ lock' = <<"tick", "turn">>
    BY <2>1, Queues DEF Locks
  <2> QED
    BY <2>1, <2>2, Queues DEF Locks, Holds
<1>7. CASE TurnStarts \/ TurnReasons
  <2>1. turn'.at \in {"started", "reasoned"} /\ turn.at # "none" /\ UNCHANGED <<lock, loop, tick>>
        /\ Holds("turn")
    BY <1>7 DEF TurnStarts, TurnReasons, loopVars, Types, Locks
  <2> QED
    BY <2>1 DEF Locks, Holds
<1>8. CASE TurnEnds
  <2>1. turn'.at = "none" /\ UNCHANGED <<loop, tick>> /\ lock' = Tail(lock)
        /\ lock \in {<<"turn">>, <<"turn", "tick">>}
    BY <1>8, Holding DEF TurnEnds, NoTurn
  <2>2. tick.at \in {"idle", "gate"}
    BY <2>1, Holding
  <2> QED
    BY <2>1, <2>2, Queues DEF Locks, Holds
<1>9. CASE LoopEnds
  <2>1. loop = "interval" /\ loop' = "ended" /\ UNCHANGED <<lock, turn, tick>>
    BY <1>9 DEF LoopEnds, userVars
  <2> QED
    BY <2>1 DEF Locks, Holds
<1>10. CASE Crash
  <2>1. lock' = <<>> /\ loop' = "interval" /\ tick'.at = "idle" /\ turn'.at = "none"
    BY <1>10 DEF Crash, Idle, NoTurn
  <2> QED
    BY <2>1, Queues DEF Locks, Holds
<1>11. \/ UNCHANGED <<lock, loop, tick, turn>> \/ TickDue \/ GateBlocks \/ DriftSilent
       \/ ResolveSkips \/ Commit \/ DriftDispatch \/ GatePasses \/ Fetch \/ Judge \/ ResolveSends
       \/ DriftWrites \/ Dispatch \/ TurnArrives \/ TurnStarts \/ TurnReasons \/ TurnEnds
       \/ LoopEnds \/ Crash
  BY DEF Next, vars, TickStep, TurnStep, RetryStep, RetryWakes, RetrySent, Observed, Stop,
         loopVars, userVars
<1> QED
  BY <1>1, <1>2, <1>3, <1>4, <1>5, <1>6, <1>7, <1>8, <1>9, <1>10, <1>11


-----------------------------------------------------------------------------
(* Retries.                                                                *)

\* The user is not unheard.
LEMMA HeardOn == ASSUME Types, [Next]_vars PROVE user_at <= user_at' /\ user_at' \in Nat
<1>1. user_at' = user_at \/ user_at' = user_at + 1
  BY DEF Next, vars, TickStep, TurnStep, RetryStep, TickDue, GateBlocks, GatePasses, Fetch, Judge,
         ResolveSkips, ResolveSends, Dispatch, Commit, DriftSilent, DriftWrites, DriftDispatch,
         TurnArrives, TurnStarts, TurnReasons, TurnEnds, RetryWakes, RetrySent, Observed, Stop,
         LoopEnds, Crash, userVars, storeVars, Heard
<1> QED
  BY <1>1 DEF Types

\* The rows after any step: those that were there, and at most one more.
LEMMA RowsStep ==
  ASSUME Types, Repeats, UnderWay, [Next]_vars
  PROVE  /\ Last \in Nat /\ Last' \in {Last, Last + 1}
         /\ \A k \in 1..Last : Same(messages'[k], messages[k])
         /\ Last' = Last + 1 => messages'[Last'].sent_at = user_at
<1>1. CASE ResolveSends \/ DriftWrites
  BY <1>1, Lasts, ReplyWrote, DriftWrote DEF Wrote
<1>2. CASE Dispatch \/ DriftDispatch
  BY <1>2, Lasts, FirstDispatch DEF Alike, Last
<1>3. CASE ~ (ResolveSends \/ DriftWrites \/ Dispatch \/ DriftDispatch)
  BY <1>3, Lasts, SteadyStep DEF Steady, Alike, Last
<1> QED
  BY <1>1, <1>2, <1>3

\* A drift message leaves the other rows as they were.
LEMMA DriftBeside ==
  ASSUME Types, Repeats, UnderWay, DriftWrites \/ DriftDispatch, fresh # 0
  PROVE  messages'[fresh].reached = messages[fresh].reached
<1>1. CASE DriftWrites
  <2>1. PICK text \in Texts : messages' = Append(messages, Message("drift", {text}, {}))
    BY <1>1 DEF DriftWrites
  <2> DEFINE row == Message("drift", {text}, {})
  <2>2. messages' = Append(messages, row) /\ row \in Rows /\ messages \in Seq(Rows)
    BY <2>1, KeyTypes, NewRow DEF Types
  <2> HIDE DEF row
  <2>3. fresh \in 1..Len(messages)
    BY DEF Repeats, Last, Types
  <2> QED
    BY <2>2, <2>3
<1>2. CASE DriftDispatch
  <2>1. fresh \in 1..Last /\ fresh # Last
    BY <1>2, Lasts DEF Repeats, UnderWay, DriftDispatch
  <2> QED
    BY <1>2, <2>1, FirstDispatch DEF Alike
<1> QED
  BY <1>1, <1>2

\* What Repeats says of the task.
Repeating ==
  retry.at # "none" =>
    /\ retry.of = fresh /\ fresh # 0 /\ loop # "ended"
    /\ retry.next \in 2..Len(Transports)
    /\ messages[fresh].reached # {}
    /\ messages[fresh].reached \subseteq {Transports[i] : i \in 1..retry.next - 1}

\* While the retry task runs, its message is the newest one that was sent.
LEMMA RepeatingStep ==
  ASSUME Types, Locks, Repeats, UnderWay, [Next]_vars
  PROVE  Repeating'
<1>a. Repeating /\ Last \in Nat /\ fresh \in 0..Last
  BY Lasts DEF Repeats, Repeating
<1>1. CASE retry'.at = "none"
  BY <1>1 DEF Repeating
<1>2. CASE retry' = retry /\ fresh' = fresh /\ loop' # "ended" /\ messages' = messages
  BY <1>a, <1>2 DEF Repeating
<1>3. CASE DriftWrites \/ DriftDispatch
  <2>1. retry' = retry /\ fresh' = fresh /\ (retry.at = "none" \/ loop' # "ended")
    BY <1>a, <1>3 DEF DriftWrites, DriftDispatch, EndTick, loopVars, Repeating
  <2>2. fresh # 0 => messages'[fresh].reached = messages[fresh].reached
    BY <1>3, DriftBeside
  <2> QED
    BY <1>a, <2>1, <2>2 DEF Repeating
<1>4. CASE RetryWakes
  <2>1. /\ retry'.at = "none" \/ (retry'.of = retry.of /\ retry'.next = retry.next)
        /\ retry.at # "none" /\ fresh' = fresh /\ loop' = loop /\ messages' = messages
    BY <1>4 DEF RetryWakes, NoRetry, Types, Retries, loopVars, storeVars
  <2> QED
    BY <1>a, <2>1 DEF Repeating
<1>5. CASE RetrySent
  <2>1. /\ \/ /\ retry.next < Len(Transports)
              /\ retry' = [retry EXCEPT !.next = @ + 1, !.at = "waiting"]
           \/ retry' = NoRetry
        /\ retry.at # "none" /\ fresh' = fresh /\ loop' = loop
    BY <1>5 DEF RetrySent, loopVars
  <2>2. \/ retry.next < Len(Transports) /\ retry'.of = retry.of /\ retry'.next = retry.next + 1
        \/ retry'.at = "none"
    <3>1. retry \in Retries /\ NoRetry.at = "none"
      BY DEF Types, NoRetry
    <3>2. CASE retry' = [retry EXCEPT !.next = @ + 1, !.at = "waiting"]
      BY <2>1, <3>1, <3>2 DEF Retries, NoRetry
    <3> QED
      BY <2>1, <3>1, <3>2
  <2>3. /\ messages'[fresh].reached \subseteq messages[fresh].reached \cup {Transports[retry.next]}
        /\ messages'[fresh].reached # {}
    BY <1>5, <1>a, <2>1, RetrySteady DEF Steady, Alike, Repeating
  <2>4. retry.next \in 2..Len(Transports) /\ Len(Transports) \in Nat
        /\ messages[fresh].reached \subseteq {Transports[i] : i \in 1..retry.next - 1}
    BY <1>a, <2>1, Preferred DEF Repeating
  <2>5. CASE retry.next < Len(Transports) /\ retry'.of = retry.of /\ retry'.next = retry.next + 1
    <3>1. messages'[fresh].reached \subseteq {Transports[i] : i \in 1..retry'.next - 1}
      <4>1. retry'.next - 1 = retry.next /\ retry.next \in 1..retry.next
            /\ 1..retry.next - 1 \subseteq 1..retry.next
        BY <2>4, <2>5
      <4> QED
        BY <2>3, <2>4, <4>1
    <3>2. retry'.next \in 2..Len(Transports)
      BY <2>4, <2>5
    <3> QED
      BY <1>a, <2>1, <2>3, <2>5, <3>1, <3>2 DEF Repeating
  <2> QED
    BY <1>1, <2>2, <2>5
<1>6. CASE Commit
  <2>1. tick.at = "commit" /\ loop' = "interval" /\ fresh' = fresh
        /\ retry' = (IF Len(Transports) > 1 THEN [of |-> Last, next |-> 2, at |-> "waiting"]
                                            ELSE retry)
    BY <1>6 DEF Commit, EndTick
  <2>2. fresh = Last /\ retry.at = "none" /\ Last # 0 /\ messages[Last].reached = {Transports[1]}
    BY <2>1, Preferred DEF UnderWay
  <2>3. messages'[Last].reached = {Transports[1]}
    BY <1>6, <2>2, CommitSteady
  <2>4. CASE Len(Transports) > 1
    <3>1. retry'.of = fresh /\ retry'.next = 2 /\ 2 \in 2..Len(Transports)
      BY <2>1, <2>2, <2>4, Preferred
    <3>2. {Transports[1]} \subseteq {Transports[i] : i \in 1..2 - 1}
      OBVIOUS
    <3> QED
      BY <2>1, <2>2, <2>3, <3>1, <3>2 DEF Repeating
  <2>5. CASE ~ (Len(Transports) > 1)
    BY <1>1, <2>1, <2>2, <2>5
  <2> QED
    BY <2>4, <2>5
<1>7. CASE Dispatch
  BY <1>1, <1>7 DEF Dispatch, UnderWay
<1>8. CASE ResolveSkips \/ ResolveSends \/ LoopEnds \/ Crash \/ (TurnStarts /\ loop # "ended")
  <2>1. retry' = NoRetry
    BY <1>8 DEF ResolveSkips, ResolveSends, LoopEnds, Crash, TurnStarts, CancelRetry
  <2> QED
    BY <1>1, <2>1 DEF NoRetry
<1>9. CASE TurnStarts /\ loop = "ended"
  BY <1>1, <1>9, <1>a DEF TurnStarts, Repeating
<1>10. CASE UNCHANGED vars
  BY <1>1, <1>2, <1>10, <1>a DEF Repeating, vars, loopVars, storeVars
<1>11. CASE TickDue \/ GateBlocks \/ GatePasses \/ Fetch \/ Judge \/ DriftSilent
             \/ TurnArrives \/ TurnReasons \/ TurnEnds \/ Observed \/ Stop
  <2>1. retry' = retry /\ fresh' = fresh /\ messages' = messages
    BY <1>11 DEF TickDue, GateBlocks, GatePasses, Fetch, Judge, DriftSilent, TurnArrives,
                 TurnReasons, TurnEnds, Observed, Stop, storeVars
  <2>2. loop' \in {loop, "interval", "tick"}
    BY <1>11 DEF TickDue, GateBlocks, GatePasses, Fetch, Judge, DriftSilent, TurnArrives,
                 TurnReasons, TurnEnds, Observed, Stop, EndTick, loopVars
  <2> QED
    BY <1>1, <1>2, <1>a, <2>1, <2>2 DEF Repeating
<1> QED
  BY <1>3, <1>4, <1>5, <1>6, <1>7, <1>8, <1>9, <1>10, <1>11 DEF Next, TickStep, TurnStep, RetryStep

\* Retries are kept by every step.
LEMMA RepeatsStep == Types /\ Locks /\ Repeats /\ UnderWay /\ [Next]_vars => Repeats'
<1> SUFFICES ASSUME Types, Locks, Repeats, UnderWay, [Next]_vars PROVE Repeats'
  OBVIOUS
<1>1. Repeating'
  BY RepeatingStep
<1>2. fresh' \in 0..Last'
  <2>1. fresh' \in {0, fresh, Last'}
    BY DEF Next, vars, TickStep, TurnStep, RetryStep, TickDue, GateBlocks, GatePasses, Fetch, Judge,
         ResolveSkips, ResolveSends, Dispatch, Commit, DriftSilent, DriftWrites, DriftDispatch,
         TurnArrives, TurnStarts, TurnReasons, TurnEnds, RetryWakes, RetrySent, Observed, Stop,
         LoopEnds, Crash, Last
  <2> QED
    BY <2>1, RowsStep DEF Repeats
<1>4. retry'.of \in 0..Last'
  <2>1. retry'.of \in {0, retry.of, Last}
    <3>1. \/ retry' = retry \/ retry' = NoRetry \/ retry' = [retry EXCEPT !.at = "sending"]
          \/ retry' = [retry EXCEPT !.next = @ + 1, !.at = "waiting"]
          \/ retry' = [of |-> Last, next |-> 2, at |-> "waiting"]
      BY DEF Next, vars, TickStep, TurnStep, RetryStep, TickDue, GateBlocks, GatePasses, Fetch, Judge,
         ResolveSkips, ResolveSends, Dispatch, Commit, DriftSilent, DriftWrites, DriftDispatch,
         TurnArrives, TurnStarts, TurnReasons, TurnEnds, RetryWakes, RetrySent, Observed, Stop,
         LoopEnds, Crash, CancelRetry
    <3>2. retry \in Retries
      BY DEF Types
    <3>3. [retry EXCEPT !.at = "sending"].of = retry.of
          /\ [retry EXCEPT !.next = @ + 1, !.at = "waiting"].of = retry.of
          /\ [of |-> Last, next |-> 2, at |-> "waiting"].of = Last /\ NoRetry.of = 0
      BY <3>2 DEF Retries, NoRetry
    <3> QED
      BY <3>1, <3>3
  <2> QED
    BY <2>1, RowsStep DEF Repeats
<1>3. \A m \in 1..Last' : messages'[m].sent_at <= user_at'
  <2> TAKE m \in 1..Last'
  <2>1. CASE m \in 1..Last
    <3>1. messages'[m].sent_at = messages[m].sent_at /\ messages[m].sent_at <= user_at
      BY <2>1, RowsStep DEF Repeats, Same
    <3>2. messages[m].sent_at \in Nat /\ user_at \in Nat
      BY <2>1, Lasts DEF Rows, Types
    <3> QED
      BY <3>1, <3>2, HeardOn
  <2>2. CASE m \notin 1..Last
    <3>1. m = Last' /\ Last' = Last + 1
      BY <2>2, RowsStep
    <3> QED
      BY <3>1, RowsStep, HeardOn
  <2> QED
    BY <2>1, <2>2
<1> QED
  BY <1>1, <1>2, <1>3, <1>4 DEF Repeats, Repeating


\* What the judge decides.
LEMMA JudgeEnds ==
  ASSUME Types, Judge
  PROVE  /\ tick.at = "judge" /\ tick'.at = "resolve" /\ tick'.selected = tick.selected
         /\ tick'.active = tick.active /\ tick'.fetched = tick.fetched
         /\ tick'.verdict = "reply" => tick'.cited \subseteq tick.fetched
<1>1. tick \in Ticks /\ tick.at = "judge"
  BY DEF Types, Judge
<1>2. PICK cited \in SUBSET tick.fetched :
        \E noted \in SUBSET ((tick.fetched \cap Contents) \ cited) :
        \E discarded \in SUBSET ((tick.fetched \cap Contents) \ (cited \cup noted)) :
          LET judged == [tick EXCEPT !.at = "resolve", !.noted = noted, !.discarded = discarded]
          IN \/ \E text \in Texts :
                  tick' = [judged EXCEPT !.verdict = "reply", !.cited = cited,
                                         !.key = DeliveryKey(cited, text)]
             \/ /\ cited = {}
                /\ \E verdict \in {"skip", "closing"} : tick' = [judged EXCEPT !.verdict = verdict]
  BY DEF Judge
<1>3. PICK noted \in SUBSET ((tick.fetched \cap Contents) \ cited) :
        \E discarded \in SUBSET ((tick.fetched \cap Contents) \ (cited \cup noted)) :
          LET judged == [tick EXCEPT !.at = "resolve", !.noted = noted, !.discarded = discarded]
          IN \/ \E text \in Texts :
                  tick' = [judged EXCEPT !.verdict = "reply", !.cited = cited,
                                         !.key = DeliveryKey(cited, text)]
             \/ /\ cited = {}
                /\ \E verdict \in {"skip", "closing"} : tick' = [judged EXCEPT !.verdict = verdict]
  BY <1>2
<1>4. PICK discarded \in SUBSET ((tick.fetched \cap Contents) \ (cited \cup noted)) :
          LET judged == [tick EXCEPT !.at = "resolve", !.noted = noted, !.discarded = discarded]
          IN \/ \E text \in Texts :
                  tick' = [judged EXCEPT !.verdict = "reply", !.cited = cited,
                                         !.key = DeliveryKey(cited, text)]
             \/ /\ cited = {}
                /\ \E verdict \in {"skip", "closing"} : tick' = [judged EXCEPT !.verdict = verdict]
  BY <1>3
<1> DEFINE judged == [tick EXCEPT !.at = "resolve", !.noted = noted, !.discarded = discarded]
<1>5. judged.at = "resolve" /\ judged.selected = tick.selected /\ judged.active = tick.active
      /\ judged.fetched = tick.fetched /\ judged \in Ticks
  BY <1>1, <1>2, <1>3, <1>4 DEF Ticks
<1>6. \/ \E key : tick' = [judged EXCEPT !.verdict = "reply", !.cited = cited, !.key = key]
      \/ \E verdict \in {"skip", "closing"} : tick' = [judged EXCEPT !.verdict = verdict]
  BY <1>4
<1> HIDE DEF judged
<1>7. CASE \E key : tick' = [judged EXCEPT !.verdict = "reply", !.cited = cited, !.key = key]
  BY ZenonT(60), <1>1, <1>2, <1>5, <1>7 DEF Ticks
<1>8. CASE \E verdict \in {"skip", "closing"} : tick' = [judged EXCEPT !.verdict = verdict]
  BY <1>1, <1>5, <1>8 DEF Ticks
<1> QED
  BY <1>6, <1>7, <1>8

\* The message under way is kept by every step.
LEMMA UnderWayStep == Types /\ Locks /\ Repeats /\ UnderWay /\ [Next]_vars => UnderWay'
<1> SUFFICES ASSUME Types, Locks, Repeats, UnderWay, [Next]_vars PROVE UnderWay'
  OBVIOUS
<1>a. Last \in Nat /\ fresh \in 0..Last /\ tick \in Ticks
  BY Lasts DEF Repeats, Types
<1>1. CASE tick'.at \notin {"dispatch", "commit", "drift_dispatch"}
  BY <1>1 DEF UnderWay
<1>2. CASE UNCHANGED <<tick, messages, fresh, retry>>
  BY <1>2 DEF UnderWay, Last
<1>3. CASE TickDue \/ GateBlocks \/ GatePasses \/ Fetch \/ Judge \/ ResolveSkips \/ Commit
            \/ DriftSilent \/ DriftDispatch \/ Crash
  <2>1. tick'.at \notin {"dispatch", "commit", "drift_dispatch"}
    <3>1. CASE Judge
      BY <3>1, JudgeEnds
    <3>2. CASE GatePasses \/ Fetch
      BY <3>2, <1>a DEF GatePasses, Fetch, Ticks
    <3>3. CASE ~ Judge /\ ~ GatePasses /\ ~ Fetch
      <4>1. tick'.at \in {"gate", "idle"}
        BY <1>3, <3>3 DEF TickDue, GateBlocks, ResolveSkips, Commit, DriftSilent, DriftDispatch,
                  Crash, EndTick, Idle
      <4> QED
        BY <4>1
    <3> QED
      BY <3>1, <3>2, <3>3
  <2> QED
    BY <1>1, <2>1
<1>4. CASE ResolveSends
  <2>1. Wrote("turn", tick.cited) /\ tick'.key = tick.key /\ tick'.cited = tick.cited
    BY <1>4, ReplyWrote
  <2>2. tick'.at = "dispatch" /\ fresh' = Last' /\ retry'.at = "none"
    BY <1>4, <1>a DEF ResolveSends, NoRetry, Ticks, Last
  <2> QED
    BY <1>a, <2>1, <2>2 DEF UnderWay, Wrote
<1>5. CASE DriftWrites
  <2>1. Wrote("drift", {})
    BY <1>5, DriftWrote
  <2>2. tick'.at = "drift_dispatch" /\ fresh' = fresh
    BY <1>5, <1>a DEF DriftWrites, Ticks
  <2> QED
    BY <1>a, <2>1, <2>2 DEF UnderWay, Wrote
<1>6. CASE Dispatch
  <2>1. tick.at = "dispatch" /\ fresh' = fresh /\ retry' = retry
        /\ (tick' = Idle \/ tick' = [tick EXCEPT !.at = "commit"])
    BY <1>6 DEF Dispatch, EndTick
  <2>2. CASE tick' = Idle
    BY <1>1, <2>2 DEF Idle
  <2>3. CASE tick' = [tick EXCEPT !.at = "commit"]
    <3>1. tick'.at = "commit" /\ tick'.key = tick.key /\ tick'.cited = tick.cited
      BY <1>a, <2>3 DEF Ticks
    <3>2. Last \in 1..Last /\ Alike(messages', Last) /\ messages'[Last].reached = {Head(Transports)}
      BY <1>6, <3>1, FirstDispatch
    <3> QED
      BY <1>a, <2>1, <3>1, <3>2 DEF UnderWay, Alike, Same, Last
  <2> QED
    BY <2>1, <2>2, <2>3
<1>7. CASE TurnStarts \/ TurnReasons \/ TurnEnds \/ LoopEnds
  <2>1. tick' = tick
    BY <1>7 DEF TurnStarts, TurnReasons, TurnEnds, LoopEnds
  <2>2. tick.at \in {"idle", "gate"}
    BY <1>7, Holding DEF TurnStarts, TurnReasons, TurnEnds, LoopEnds, Locks
  <2> QED
    BY <1>1, <2>1, <2>2
<1>8. CASE RetryWakes
  <2>1. UNCHANGED <<tick, messages, fresh>> /\ retry.at # "none"
    BY <1>8 DEF RetryWakes, storeVars
  <2> QED
    BY <2>1 DEF UnderWay, Last
<1>9. CASE RetrySent
  <2>1. UNCHANGED <<tick, fresh>> /\ retry.at # "none"
    BY <1>9 DEF RetrySent
  <2>2. Steady
    BY <1>9, RetrySteady
  <2>3. tick.at \notin {"dispatch", "commit"}
    BY <2>1 DEF UnderWay
  <2>4. CASE tick.at = "drift_dispatch"
    <3>1. Last \in 1..Last /\ fresh # Last
      BY <1>a, <2>4 DEF UnderWay
    <3>2. Last' = Last /\ Same(messages'[Last], messages[Last])
          /\ messages'[Last].reached = messages[Last].reached
      BY <2>2, <3>1 DEF Steady, Alike, Last
    <3> QED
      BY <2>1, <2>4, <3>1, <3>2 DEF UnderWay, Same
  <2> QED
    BY <1>1, <2>1, <2>3, <2>4
<1> QED
  BY <1>2, <1>3, <1>4, <1>5, <1>6, <1>7, <1>8, <1>9 DEF Next, TickStep, TurnStep, RetryStep, vars,
     TurnArrives, Observed, Stop, loopVars, storeVars


-----------------------------------------------------------------------------
(* Follow-ups.                                                             *)

\* What has struck has struck.
LEMMA StruckOn ==
  ASSUME [Next]_vars
  PROVE  struck \subseteq struck' /\ (Crash => "crash" \in struck')
  BY DEF Next, vars, TickStep, TurnStep, RetryStep, TickDue, GateBlocks, GatePasses, Fetch, Judge,
         ResolveSkips, ResolveSends, Dispatch, Commit, DriftSilent, DriftWrites, DriftDispatch,
         TurnArrives, TurnStarts, TurnReasons, TurnEnds, RetryWakes, RetrySent, Observed, Stop,
         LoopEnds, Crash, Strike, faultVars

\* A tick that carries the scene's motive towards its delivery.
Carries == tick.at \notin {"idle", "commit"} /\ "scene" \in {tick.selected, tick.active}

\* The count of follow-ups is kept by every step.
LEMMA CountedStep ==
  Types /\ Locks /\ Repeats /\ UnderWay /\ Counted /\ [Next]_vars => Counted'
<1> SUFFICES ASSUME Types, Locks, Repeats, UnderWay, Counted, [Next]_vars,
                    ~Struck({"crash", "lost"})'
             PROVE  /\ followups' <= Delays
                    /\ Carries' => followups' <= Delays - 1
                    /\ chain' # NoScene =>
                         \/ followups' <= chain'
                         \/ /\ tick'.at = "commit" /\ tick'.active = "scene"
                            /\ followups' <= chain' + 1
  BY DEF Counted, Carries
<1>a. ~Struck({"crash", "lost"}) /\ ~ Crash /\ "lost" \notin struck'
  BY StruckOn DEF Struck
<1>b. /\ followups \in Nat /\ chain \in NoScene .. Delays - 1 /\ Delays \in Nat \ {0}
      /\ tick \in Ticks /\ NoScene = -1
  BY Attempts DEF Types, NoScene
<1>c. /\ followups <= Delays
      /\ Carries => followups <= Delays - 1
      /\ chain # NoScene => \/ followups <= chain
                            \/ /\ tick.at = "commit" /\ tick.active = "scene"
                               /\ followups <= chain + 1
  BY <1>a DEF Counted, Carries
<1>1. CASE UNCHANGED <<tick, chain, followups>>
  BY <1>1, <1>c DEF Carries
<1>2. CASE TickDue \/ GateBlocks \/ DriftSilent \/ DriftDispatch
  <2>1. /\ tick.at # "commit" /\ UNCHANGED <<chain, followups>>
        /\ tick' = Idle \/ tick' = [Idle EXCEPT !.at = "gate"]
    BY <1>2 DEF TickDue, GateBlocks, DriftSilent, DriftDispatch, EndTick, sceneVars, Locks
  <2>2. tick'.at \in {"idle", "gate"} /\ tick'.selected = "none" /\ tick'.active = "none"
    BY <2>1 DEF Idle
  <2> QED
    BY <1>c, <2>1, <2>2 DEF Carries
<1>3. CASE GatePasses
  <2>1. /\ tick.at = "gate" /\ tick'.at = "fetch" /\ tick'.active = tick.active
        /\ \/ chain # NoScene /\ tick'.selected = "scene" /\ chain' = chain
           \/ tick'.selected \in {"none", "relationship"} /\ chain' \in {chain, NoScene}
        /\ followups' = followups
    BY <1>3, <1>b DEF GatePasses, Ticks
  <2>2. Carries' => chain # NoScene \/ Carries
    BY <2>1 DEF Carries
  <2> QED
    BY <1>b, <1>c, <2>1, <2>2
<1>4. CASE Fetch
  <2>1. /\ tick.at = "fetch" /\ tick'.at \in {"judge", "drift", "resolve"}
        /\ tick'.selected = tick.selected /\ tick'.active \in {tick.active, tick.selected}
        /\ UNCHANGED <<chain, followups>>
    BY <1>4, <1>b DEF Fetch, Ticks, sceneVars
  <2> QED
    BY <1>c, <2>1 DEF Carries
<1>5. CASE Judge
  <2>1. UNCHANGED <<chain, followups>>
    BY <1>5 DEF Judge, sceneVars
  <2> QED
    BY <1>5, <1>c, <2>1, JudgeEnds DEF Carries
<1>6. CASE ResolveSkips
  <2>1. /\ tick.at = "resolve" /\ tick'.at = "idle" /\ chain' \in {chain, NoScene}
        /\ followups' = followups
    BY <1>6 DEF ResolveSkips, EndTick, Idle
  <2> QED
    BY <1>c, <2>1 DEF Carries
<1>7. CASE ResolveSends
  <2>1. /\ tick.at = "resolve" /\ tick'.at = "dispatch" /\ tick'.selected = "none"
        /\ tick'.active = tick.active /\ UNCHANGED <<chain, followups>>
    BY <1>7, <1>b DEF ResolveSends, Ticks, sceneVars
  <2> QED
    BY <1>c, <2>1 DEF Carries
<1>8. CASE Dispatch
  <2>1. PICK outcome \in Outcomes(Head(Transports)) :
          /\ followups' = IF outcome.shown /\ tick.active = "scene" THEN followups + 1 ELSE followups
          /\ IF outcome.reported
             THEN tick' = [tick EXCEPT !.at = "commit"]
             ELSE /\ tick' = Idle
                  /\ \E acks \in Acks(tick.discarded) : Strike(outcome.kinds \cup acks.kinds)
    BY <1>8 DEF Dispatch, EndTick
  <2>2. tick.at = "dispatch" /\ chain' = chain
    BY <1>8 DEF Dispatch, sceneVars
  <2>3. CASE outcome = [shown |-> TRUE, reported |-> TRUE, kinds |-> {}]
    <3>1. /\ followups' = IF tick.active = "scene" THEN followups + 1 ELSE followups
          /\ tick' = [tick EXCEPT !.at = "commit"]
      BY <2>1, <2>3
    <3>2. tick'.at = "commit" /\ tick'.active = tick.active
      BY <1>b, <3>1 DEF Ticks
    <3> QED
      BY <1>b, <1>c, <2>2, <3>1, <3>2 DEF Carries
  <2>4. CASE outcome = [shown |-> TRUE, reported |-> FALSE, kinds |-> {"lost"}]
    <3>1. "lost" \in struck'
      BY <2>1, <2>4 DEF Strike
    <3> QED
      BY <1>a, <3>1
  <2>5. CASE outcome.shown = FALSE /\ outcome.reported = FALSE
    <3>1. followups' = followups /\ tick'.at = "idle"
      BY <2>1, <2>5 DEF Idle
    <3> QED
      BY <1>c, <2>2, <3>1 DEF Carries
  <2> QED
    BY <2>3, <2>4, <2>5, Preferred, OutcomeOf
<1>9. CASE Commit
  <2>1. /\ tick'.at = "idle" /\ followups' = followups
        /\ IF tick.active = "scene" /\ chain # NoScene
           THEN chain' \in FollowupSent(chain) ELSE chain' = chain
    BY <1>9 DEF Commit, EndTick, Idle
  <2>2. CASE tick.active = "scene" /\ chain # NoScene
    <3>1. chain' \in {chain + 1, NoScene}
      BY <2>1, <2>2 DEF FollowupSent
    <3> QED
      BY <1>b, <1>c, <2>1, <2>2, <3>1 DEF Carries
  <2>3. CASE ~ (tick.active = "scene" /\ chain # NoScene)
    BY <1>c, <2>1, <2>3 DEF Carries
  <2> QED
    BY <2>2, <2>3
<1>10. CASE DriftWrites
  <2>1. /\ tick.at = "drift" /\ tick'.at = "drift_dispatch" /\ tick'.selected = tick.selected
        /\ tick'.active = tick.active /\ UNCHANGED <<chain, followups>>
    BY <1>10, <1>b DEF DriftWrites, Ticks, sceneVars
  <2> QED
    BY <1>c, <2>1 DEF Carries
<1>11. CASE TurnArrives \/ TurnReasons
  <2>1. UNCHANGED <<chain, followups>> \/ (chain' = 0 /\ followups' = 0)
    BY <1>11 DEF TurnArrives, TurnReasons, Heard
  <2>2. tick' = tick
    BY <1>11 DEF TurnArrives, TurnReasons
  <2> QED
    BY <1>1, <1>b, <2>1, <2>2
<1>12. CASE Observed
  <2>1. tick' = tick /\ followups' = followups /\ chain' \in {chain, NoScene}
    BY <1>12 DEF Observed
  <2> QED
    BY <1>c, <2>1 DEF Carries
<1> QED
  BY <1>a, <1>1, <1>2, <1>3, <1>4, <1>5, <1>6, <1>7, <1>8, <1>9, <1>10, <1>11, <1>12
     DEF Next, TickStep, TurnStep, RetryStep, vars, TurnStarts, TurnEnds, RetryWakes, RetrySent, Stop,
         LoopEnds, sceneVars


-----------------------------------------------------------------------------
(* Deliveries and acknowledgements.                                        *)

\* Records and acknowledgements are not taken back.
LEMMA StoresGrow ==
  ASSUME Types, [Next]_vars
  PROVE  deliveries \subseteq deliveries' /\ acked \subseteq acked'
<1>1. deliveries' \in {deliveries, deliveries \cup {tick.key}}
  BY DEF Next, vars, TickStep, TurnStep, RetryStep, TickDue, GateBlocks, GatePasses, Fetch, Judge,
         ResolveSkips, ResolveSends, Dispatch, Commit, DriftSilent, DriftWrites, DriftDispatch,
         TurnArrives, TurnStarts, TurnReasons, TurnEnds, RetryWakes, RetrySent, Observed, Stop,
         LoopEnds, Crash, storeVars, Marked
<1>2. \A items : \A acks \in Acks(items) : acked \subseteq acks.acked
  BY DEF Acks
<1>3. CASE Commit
  BY <1>1, <1>2, <1>3 DEF Commit
<1>4. CASE ResolveSkips
  BY <1>1, <1>2, <1>4 DEF ResolveSkips
<1>5. CASE Dispatch
  <2>1. acked' = acked \/ \E acks \in Acks(tick.discarded) : acked' = acks.acked
    BY <1>5 DEF Dispatch, loopVars
  <2> QED
    BY <1>1, <1>2, <2>1
<1>6. CASE ~ Commit /\ ~ ResolveSkips /\ ~ Dispatch
  <2>1. acked' = acked
    BY <1>6 DEF Next, vars, TickStep, TurnStep, RetryStep, TickDue, GateBlocks, GatePasses, Fetch,
         Judge, ResolveSends, DriftSilent, DriftWrites, DriftDispatch,
         TurnArrives, TurnStarts, TurnReasons, TurnEnds, RetryWakes, RetrySent, Observed, Stop,
         LoopEnds, Crash, storeVars
  <2> QED
    BY <1>1, <2>1
<1> QED
  BY <1>3, <1>4, <1>5, <1>6

\* The record of deliveries is kept by every step.
LEMMA RecordedStep ==
  Types /\ Locks /\ Repeats /\ UnderWay /\ Recorded /\ [Next]_vars => Recorded'
<1> SUFFICES ASSUME Types, Locks, Repeats, UnderWay, Recorded, [Next]_vars,
                    ~Struck({"crash", "lost"})'
             PROVE  /\ \A m \in 1..Last' : messages'[m].reached # {} =>
                         messages'[m].key \in deliveries'
                    /\ \A m, n \in 1..Last' :
                         m < n /\ messages'[m].reached # {} /\ messages'[n].mode = "turn" =>
                           messages'[n].key # messages'[m].key
  BY DEF Recorded
<1>a. ~Struck({"crash", "lost"}) /\ "lost" \notin struck' /\ deliveries \subseteq deliveries'
  BY StruckOn, StoresGrow DEF Struck
<1>b. /\ \A m \in 1..Last : messages[m].reached # {} => messages[m].key \in deliveries
      /\ \A m, n \in 1..Last :
           m < n /\ messages[m].reached # {} /\ messages[n].mode = "turn" =>
             messages[n].key # messages[m].key
  BY <1>a DEF Recorded
<1>c. Last \in Nat
  BY Lasts
<1>1. CASE ~ (ResolveSends \/ DriftWrites \/ Dispatch \/ DriftDispatch)
  <2>1. /\ Last' = Last
        /\ \A k \in 1..Last : /\ messages'[k].key = messages[k].key
                              /\ messages'[k].mode = messages[k].mode
                              /\ messages'[k].reached # {} => messages[k].reached # {}
    BY <1>1, SteadyStep DEF Steady, Alike, Same, Last
  <2> QED
    BY <1>a, <1>b, <2>1
<1>2. CASE ResolveSends \/ DriftWrites
  <2>1. PICK mode, cited : Wrote(mode, cited) /\ mode \in {"turn", "drift"}
          /\ (mode = "turn" => tick'.key \notin deliveries)
    BY <1>2, ReplyWrote, DriftWrote DEF ResolveSends
  <2>2. /\ Last' = Last + 1
        /\ \A k \in 1..Last : /\ messages'[k].key = messages[k].key
                              /\ messages'[k].mode = messages[k].mode
                              /\ messages'[k].reached # {} => messages[k].reached # {}
        /\ messages'[Last + 1].reached = {}
        /\ messages'[Last + 1].mode = "turn" => messages'[Last + 1].key \notin deliveries
    BY <2>1 DEF Wrote, Same
  <2>3. \A m \in 1..Last' : messages'[m].reached # {} =>
           m \in 1..Last /\ messages[m].reached # {} /\ messages'[m].key \in deliveries
                         /\ messages'[m].key = messages[m].key
    BY <1>b, <1>c, <2>2
  <2>4. ASSUME NEW m \in 1..Last', NEW n \in 1..Last', m < n, messages'[m].reached # {},
               messages'[n].mode = "turn"
        PROVE  messages'[n].key # messages'[m].key
    <3>1. CASE n = Last + 1
      BY <2>2, <2>3, <2>4, <3>1
    <3>2. CASE n \in 1..Last
      BY <1>b, <2>2, <2>3, <2>4, <3>2
    <3> QED
      BY <1>c, <2>2, <3>1, <3>2
  <2> QED
    BY <1>a, <2>3, <2>4
<1>3. CASE Dispatch \/ DriftDispatch
  <2>1. /\ Last' = Last /\ Last \in 1..Last
        /\ \A k \in 1..Last : /\ messages'[k].key = messages[k].key
                              /\ messages'[k].mode = messages[k].mode
                              /\ k # Last => messages'[k].reached = messages[k].reached
        /\ messages'[Last].reached # {} => messages[Last].key \in deliveries'
    BY <1>3, <1>a, FirstDispatch DEF Alike, Same, Last
  <2> QED
    BY <1>a, <1>b, <1>c, <2>1
<1> QED
  BY <1>1, <1>2, <1>3

\* What a tick fetched and may cite stays unacknowledged until its verdict.
Citable ==
  /\ tick.at \in {"gate", "fetch"} => tick.fetched = {}
  /\ tick.at \in {"judge", "resolve"} => tick.fetched \cap acked = {}
  /\ tick.at = "resolve" /\ tick.verdict = "reply" => tick.cited \subseteq tick.fetched

\* No step acknowledges an item that the tick under way may still cite.
LEMMA CitableStep ==
  ASSUME Types, Citable, [Next]_vars
  PROVE  Citable'
<1>a. tick \in Ticks
  BY DEF Types
<1>1. CASE UNCHANGED <<tick, acked>>
  BY <1>1 DEF Citable
<1>2. CASE tick'.at = "idle" \/ tick'.at \in {"dispatch", "commit", "drift_dispatch"}
  BY <1>2 DEF Citable
<1>3. CASE TickDue
  BY <1>3 DEF TickDue, Citable, Idle
<1>4. CASE GatePasses
  <2>1. tick.at = "gate" /\ tick'.at = "fetch" /\ tick'.fetched = tick.fetched
    BY <1>4, <1>a DEF GatePasses, Ticks
  <2> QED
    BY <2>1 DEF Citable
<1>5. CASE Fetch
  <2>1. tick.at = "fetch" /\ acked' = acked
    BY <1>5 DEF Fetch, storeVars
  <2>2. PICK fetched \in SUBSET (Items \ acked) :
          \/ tick' = [tick EXCEPT !.at = "judge", !.fetched = fetched]
          \/ tick' = [tick EXCEPT !.at = "judge", !.active = tick.selected]
          \/ tick' \in {[tick EXCEPT !.at = "drift"],
                        [tick EXCEPT !.at = "resolve", !.verdict = "closing"]}
    BY <1>5 DEF Fetch
  <2>3. tick'.fetched \in {fetched, tick.fetched} /\ tick'.at \in {"judge", "drift", "resolve"}
        /\ (tick'.at = "resolve" => tick'.verdict = "closing")
    BY <1>a, <2>2 DEF Ticks
  <2> QED
    BY <2>1, <2>2, <2>3 DEF Citable
<1>6. CASE Judge
  <2>1. acked' = acked
    BY <1>6 DEF Judge, storeVars
  <2> QED
    BY <1>6, <2>1, JudgeEnds DEF Citable
<1>7. CASE ResolveSends \/ DriftWrites \/ Dispatch
  <2>1. tick'.at = "idle" \/ tick'.at \in {"dispatch", "commit", "drift_dispatch"}
    <3>1. CASE Dispatch
      <4>1. tick' = Idle \/ tick' = [tick EXCEPT !.at = "commit"]
        BY <3>1 DEF Dispatch, EndTick
      <4> QED
        BY <1>a, <4>1 DEF Idle, Ticks
    <3>2. CASE ResolveSends \/ DriftWrites
      BY <3>2, <1>a DEF ResolveSends, DriftWrites, Ticks
    <3> QED
      BY <1>7, <3>1, <3>2
  <2> QED
    BY <1>2, <2>1
<1>8. CASE GateBlocks \/ ResolveSkips \/ Commit \/ DriftSilent \/ DriftDispatch \/ Crash
  <2>1. tick'.at = "idle"
    BY <1>8 DEF GateBlocks, ResolveSkips, Commit, DriftSilent, DriftDispatch, Crash, EndTick, Idle
  <2> QED
    BY <1>2, <2>1
<1> QED
  BY <1>1, <1>3, <1>4, <1>5, <1>6, <1>7, <1>8
     DEF Next, TickStep, TurnStep, RetryStep, vars, TurnArrives, TurnStarts, TurnReasons, TurnEnds,
         RetryWakes, RetrySent, Observed, Stop, LoopEnds, storeVars

\* The acknowledgements are kept by every step.
LEMMA AcknowledgedStep ==
  Types /\ Locks /\ Repeats /\ UnderWay /\ Acknowledged /\ [Next]_vars => Acknowledged'
<1> SUFFICES ASSUME Types, Locks, Repeats, UnderWay, Acknowledged, [Next]_vars,
                    ~Struck({"crash", "lost", "ack"})'
             PROVE  /\ Citable'
                    /\ \A m \in 1..Last' : messages'[m].reached # {} =>
                         messages'[m].cited \subseteq acked' \/ (m = Last' /\ tick'.at = "commit")
                    /\ \A m, n \in 1..Last' :
                         m < n /\ messages'[m].reached # {} =>
                           messages'[n].cited \cap messages'[m].cited = {}
  BY DEF Acknowledged, Citable
<1>a. /\ ~Struck({"crash", "lost", "ack"}) /\ "lost" \notin struck' /\ "ack" \notin struck'
      /\ ~ Crash /\ acked \subseteq acked'
  BY StruckOn, StoresGrow DEF Struck
<1>b. /\ Citable
      /\ \A m \in 1..Last : messages[m].reached # {} =>
           messages[m].cited \subseteq acked \/ (m = Last /\ tick.at = "commit")
      /\ \A m, n \in 1..Last :
           m < n /\ messages[m].reached # {} => messages[n].cited \cap messages[m].cited = {}
  BY <1>a DEF Acknowledged, Citable
<1>c. Last \in Nat /\ tick \in Ticks
  BY Lasts DEF Types
<1>d. Citable'
  BY <1>b, CitableStep
<1>1. CASE ~ (ResolveSends \/ DriftWrites \/ Dispatch \/ DriftDispatch)
  <2>1. /\ Last' = Last
        /\ \A k \in 1..Last : /\ messages'[k].cited = messages[k].cited
                              /\ messages'[k].reached # {} => messages[k].reached # {}
    BY <1>1, SteadyStep DEF Steady, Alike, Same, Last
  <2>2. CASE Commit
    <3>1. Last # 0 => messages[Last].cited \subseteq acked'
      <4>1. PICK acks \in Acks(tick.cited \cup tick.noted \cup tick.discarded) :
              acked' = acks.acked /\ Strike(acks.kinds)
        BY <2>2 DEF Commit
      <4>2. "ack" \notin acks.kinds
        BY <1>a, <4>1 DEF Strike
      <4>3. tick.cited \subseteq acked'
        BY <4>1, <4>2 DEF Acks
      <4> QED
        BY <2>2, <4>3 DEF UnderWay, Commit
    <3> QED
      BY <1>a, <1>b, <1>d, <2>1, <3>1
  <2>3. CASE ~ Commit
    <3>1. tick.at = "commit" => tick'.at = "commit"
      <4>1. tick.at = "commit" => tick' = tick
        BY <1>1, <1>a, <2>3 DEF Next, TickStep, TurnStep, RetryStep, vars, TickDue, GateBlocks, GatePasses,
             Fetch, Judge, ResolveSkips, DriftSilent, TurnArrives, TurnStarts, TurnReasons, TurnEnds,
             RetryWakes, RetrySent, Observed, Stop, LoopEnds, Locks
      <4> QED
        BY <4>1
    <3> QED
      BY <1>a, <1>b, <1>d, <2>1, <3>1
  <2> QED
    BY <2>2, <2>3
<1>2. CASE ResolveSends \/ DriftWrites
  <2>1. PICK mode, cited : Wrote(mode, cited) /\ cited \cap acked = {}
    <3>1. CASE ResolveSends
      <4>1. tick.cited \cap acked = {}
        BY <1>b, <3>1 DEF Citable, ResolveSends
      <4> QED
        BY <3>1, <4>1, ReplyWrote
    <3>2. CASE DriftWrites
      BY <3>2, DriftWrote
    <3> QED
      BY <1>2, <3>1, <3>2
  <2>2. /\ Last' = Last + 1
        /\ \A k \in 1..Last : /\ messages'[k].cited = messages[k].cited
                              /\ messages'[k].reached # {} => messages[k].reached # {}
        /\ messages'[Last + 1].reached = {} /\ messages'[Last + 1].cited \cap acked = {}
    BY <2>1 DEF Wrote, Same
  <2>3. tick.at # "commit"
    BY <1>2 DEF ResolveSends, DriftWrites
  <2>4. \A m \in 1..Last' : messages'[m].reached # {} =>
           m \in 1..Last /\ messages[m].reached # {} /\ messages'[m].cited \subseteq acked
                         /\ messages'[m].cited = messages[m].cited
    BY <1>b, <1>c, <2>2, <2>3
  <2>5. ASSUME NEW m \in 1..Last', NEW n \in 1..Last', m < n, messages'[m].reached # {}
        PROVE  messages'[n].cited \cap messages'[m].cited = {}
    <3>1. CASE n = Last + 1
      BY <2>2, <2>4, <2>5, <3>1
    <3>2. CASE n \in 1..Last
      BY <1>b, <2>2, <2>4, <2>5, <3>2
    <3> QED
      BY <1>c, <2>2, <3>1, <3>2
  <2> QED
    BY <1>a, <1>d, <2>4, <2>5
<1>3. CASE Dispatch \/ DriftDispatch
  <2>1. /\ Last' = Last /\ Last \in 1..Last
        /\ \A k \in 1..Last : /\ messages'[k].cited = messages[k].cited
                              /\ k # Last => messages'[k].reached = messages[k].reached
    BY <1>3, FirstDispatch DEF Alike, Same, Last
  <2>2. tick.at # "commit"
    BY <1>3 DEF Dispatch, DriftDispatch
  <2>3. messages'[Last].reached # {} =>
           messages'[Last].cited \subseteq acked' \/ tick'.at = "commit"
    <3>1. CASE Dispatch
      BY <1>a, <3>1, FirstDispatch
    <3>2. CASE DriftDispatch
      <4>1. messages[Last].cited = {}
        BY <3>2 DEF UnderWay, DriftDispatch
      <4> QED
        BY <2>1, <4>1
    <3> QED
      BY <1>3, <3>1, <3>2
  <2> QED
    BY <1>a, <1>b, <1>c, <1>d, <2>1, <2>2, <2>3
<1> QED
  BY <1>1, <1>2, <1>3


-----------------------------------------------------------------------------
(* The inductive invariant.                                                *)

\* The loop begins with nothing to tell.
LEMMA InitInv == Init => IInv
<1> SUFFICES ASSUME Init PROVE IInv
  OBVIOUS
<1>1. Types
  BY InitTypes
<1>2. Last = 0 /\ tick.at = "idle" /\ turn.at = "none" /\ retry.at = "none" /\ fresh = 0
      /\ retry.of = 0 /\ tick.cited = {} /\ tick.fetched = {}
  BY DEF Init, Last, Idle, NoTurn, NoRetry
<1>3. Locks
  BY <1>2, Queues DEF Init, Locks, Holds
<1>4. Repeats /\ UnderWay
  BY <1>2 DEF Repeats, UnderWay
<1>5. Counted
  BY <1>2, Attempts DEF Init, Counted
<1>6. Recorded /\ Acknowledged
  BY <1>2 DEF Recorded, Acknowledged
<1> QED
  BY <1>1, <1>3, <1>4, <1>5, <1>6 DEF IInv

\* No step breaks it.
LEMMA StepInv == IInv /\ [Next]_vars => IInv'
  BY TypesStep, LocksStep, RepeatsStep, UnderWayStep, CountedStep, RecordedStep, AcknowledgedStep
     DEF IInv

\* The invariant holds in every state of every behaviour.
THEOREM Inductive == Spec => []IInv
<1>1. Init => IInv
  BY InitInv
<1>2. IInv /\ [Next]_vars => IInv'
  BY StepInv
<1> QED
  BY <1>1, <1>2, PTL DEF Spec

\* TypeOK: every variable keeps its type, the lock has at most two in its
\* queue, and a retry and the freshest message point into the session.
THEOREM TypeCorrect == Spec => []TypeOK
<1>1. IInv => TypeOK
  <2> SUFFICES ASSUME IInv PROVE TypeOK
    OBVIOUS
  <2>1. lock \in Seq({"tick", "turn"}) /\ Len(lock) <= 2
    <3>1. /\ <<>> \in Seq({"tick", "turn"}) /\ Len(<<>>) = 0
          /\ <<"tick">> \in Seq({"tick", "turn"}) /\ Len(<<"tick">>) = 1
          /\ <<"turn">> \in Seq({"tick", "turn"}) /\ Len(<<"turn">>) = 1
      OBVIOUS
    <3>2. <<"tick", "turn">> \in Seq({"tick", "turn"}) /\ Len(<<"tick", "turn">>) = 2
      OBVIOUS
    <3>3. <<"turn", "tick">> \in Seq({"tick", "turn"}) /\ Len(<<"turn", "tick">>) = 2
      OBVIOUS
    <3>4. lock \in {<<>>, <<"tick">>, <<"turn">>, <<"tick", "turn">>, <<"turn", "tick">>}
      BY DEF IInv, Locks
    <3>5. CASE lock = <<>>
      BY <3>1, <3>5
    <3>6. CASE lock = <<"tick">>
      BY <3>1, <3>6
    <3>7. CASE lock = <<"turn">>
      BY <3>1, <3>7
    <3>8. CASE lock = <<"tick", "turn">>
      BY <3>2, <3>8
    <3>9. CASE lock = <<"turn", "tick">>
      BY <3>3, <3>9
    <3> QED
      BY <3>4, <3>5, <3>6, <3>7, <3>8, <3>9
  <2>2. fresh \in 0 .. Len(messages)
    BY DEF IInv, Repeats, Last
  <2>3. tick \in Ticks /\ retry \in Retries
    BY DEF IInv, Types
  <2>4. retry.of \in 0 .. Len(messages)
    BY DEF IInv, Repeats, Last
  <2> QED
    BY <2>1, <2>2, <2>3, <2>4 DEF IInv, Types, TypeOK, Ticks, Retries
<1> QED
  BY <1>1, Inductive, PTL

\* NotTwice: as long as no process died and no answer of a transport was lost,
\* no tick shows a message under a key that was shown before, and without lost
\* acknowledgements no item is cited in two messages that were shown.
THEOREM NotTwiceCorrect == Spec => []NotTwice
<1>1. IInv => NotTwice
  <2> SUFFICES ASSUME IInv, ~Struck({"crash", "lost"}),
                      NEW m \in 1..Last, NEW n \in 1..Last,
                      m < n, messages[m].reached # {}, messages[n].reached # {}
               PROVE  /\ messages[n].mode = "turn" => messages[n].key # messages[m].key
                      /\ ~Struck({"ack"}) => messages[n].cited \cap messages[m].cited = {}
    BY DEF NotTwice
  <2>1. messages[n].mode = "turn" => messages[n].key # messages[m].key
    BY DEF IInv, Recorded
  <2>2. ASSUME ~Struck({"ack"}) PROVE messages[n].cited \cap messages[m].cited = {}
    <3>1. ~Struck({"crash", "lost", "ack"})
      BY <2>2 DEF Struck
    <3> QED
      BY <3>1 DEF IInv, Acknowledged
  <2> QED
    BY <2>1, <2>2
<1> QED
  BY <1>1, Inductive, PTL

\* FollowupsBounded: a silent user gets at most as many follow-ups of a scene
\* as the scene has delays.
THEOREM FollowupsBoundedCorrect == Spec => []FollowupsBounded
<1>1. IInv => FollowupsBounded
  BY DEF IInv, Counted, FollowupsBounded
<1> QED
  BY <1>1, Inductive, PTL

\* RetriesYield: a retry starts only for the message nothing has followed, on
\* a transport that has not shown it, while the user has not been heard.
THEOREM RetriesYieldCorrect == Spec => RetriesYield
<1> DEFINE Yields ==
      retry'.at = "sending" /\ retry.at # "sending" =>
        /\ retry.of = fresh /\ fresh # 0
        /\ user_at = messages[fresh].sent_at
        /\ Transports[retry.next] \notin messages[fresh].reached
        /\ loop # "ended"
<1>1. IInv /\ [Next]_vars => Yields
  <2> SUFFICES ASSUME IInv, [Next]_vars, retry'.at = "sending", retry.at # "sending"
               PROVE  Yields
    OBVIOUS
  <2>1. retry' # retry /\ retry' # NoRetry
    BY DEF NoRetry
  <2>2. ~ Commit
    BY <2>1 DEF Commit
  <2>3. RetryWakes
    BY <2>1, <2>2 DEF Next, TickStep, TurnStep, RetryStep, vars, TickDue, GateBlocks, GatePasses, Fetch,
       Judge, ResolveSkips, ResolveSends, Dispatch, DriftSilent, DriftWrites, DriftDispatch, TurnArrives,
       TurnStarts, TurnReasons, TurnEnds, RetrySent, Observed, Stop, LoopEnds, Crash, CancelRetry
  <2>4. retry.at = "waiting" /\ ~UserRepliedSince(retry.of)
    BY <2>1, <2>3 DEF RetryWakes
  <2>5. /\ retry.of = fresh /\ fresh \in 1..Last /\ loop # "ended"
        /\ retry.next \in 2..Len(Transports)
        /\ messages[fresh].reached \subseteq {Transports[i] : i \in 1..retry.next - 1}
        /\ messages[fresh].sent_at <= user_at
    BY <2>4, Lasts DEF IInv, Repeats
  <2>6. user_at = messages[fresh].sent_at
    <3>1. user_at \in Nat /\ messages[fresh].sent_at \in Nat
      BY <2>5, Lasts DEF IInv, Types, Rows
    <3> QED
      BY <2>4, <2>5, <3>1 DEF UserRepliedSince
  <2>7. Transports[retry.next] \notin messages[fresh].reached
    <3>1. \A i \in 1..retry.next - 1 : Transports[i] # Transports[retry.next]
      BY <2>5, Preferred, ProactiveBounds
    <3> QED
      BY <2>5, <3>1
  <2> QED
    BY <2>5, <2>6, <2>7
<1>2. IInv /\ [Next]_vars => [Yields]_vars
  BY <1>1
<1> QED
  BY <1>2, Inductive, PTL DEF Spec, RetriesYield

=============================================================================
