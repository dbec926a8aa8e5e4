------------------------------ MODULE VoiceProofs ------------------------------
(* What TLC checks of Voice on two turns of two sentences, proved for any   *)
(* number of turns and sentences and any mix of disturbances.               *)
EXTENDS Voice, SequenceTheorems, TLAPS

Steps == {"none", "start", "held", "stop", "asr", "send", "accepted", "refused"}
Sentences == [turn : Turns, n : 1..MaxSentences]
Frames == [kind : {"accepted", "refused", "started", "finished"}, turn : Turns, n : {0}]
          \cup [kind : {"audio"}, turn : Turns, n : 1..MaxSentences]

Ctls == [ui : UiStates, said : 0..MaxSentences, turn : 0..MaxTurns, timer : BOOLEAN,
         pending : BOOLEAN, owner : BOOLEAN, step : Steps]
Recs == [active : BOOLEAN, wait : {"none", "load", "open", "stop"}]
Mics == [state : {"off", "asking", "on"}, cmds : Seq({"start", "stop", "cancel"}),
         acks : Seq({"ready", "stopped", "error"})]
Players == [active : 0..MaxTurns, finished : BOOLEAN, drained : BOOLEAN, queue : Seq(Sentences),
            current : {Silent} \cup Sentences, playing : BOOLEAN, pumping : BOOLEAN]
Coordinators == [state : {"open", "finish", "failed", "cancelled"}, pushed : 0..MaxSentences,
                 made : 0..MaxSentences, told : BOOLEAN, done : BOOLEAN]

(* The types of the state, with the shape of every record.                 *)
Types ==
    /\ faults \in FaultSets /\ voiced \in BOOLEAN /\ held \in BOOLEAN /\ issued \in 0..MaxTurns
    /\ ctl \in Ctls /\ rec \in Recs /\ mic \in Mics /\ pb \in Players
    /\ test \in {"off", "on", "stopping"}
    /\ chat \in [Turns -> {"none", "running", "cancelling", "replied", "closed"}]
    /\ co \in [Turns -> Coordinators]
    /\ wire \in Seq(Frames) /\ sends \subseteq Turns /\ cancels \subseteq Turns

(* What the controller's operation says of its state and of the recorder.  *)
Operating ==
    /\ ctl.step = "start" => /\ ctl.ui \in Capturing /\ test = "off" /\ rec.active
                             /\ rec.wait \in {"load", "open"}
    /\ ctl.step = "held" => ctl.ui = "recording" /\ (rec.active => rec.wait = "none" /\ test = "off")
    /\ ctl.step = "stop" => ctl.ui = "transcribing" /\ test = "off" /\ rec.active /\ rec.wait = "stop"
    /\ ctl.step = "asr" => ctl.ui = "transcribing" /\ ~rec.active
    /\ ctl.step \in {"send", "accepted", "refused"} => ctl.ui = "sending" /\ ~rec.active
    /\ ctl.step = "none" => ctl.ui \notin {"transcribing", "sending"}
    /\ rec.active /\ test = "off" => ctl.step \in {"start", "held", "stop"}
    /\ test # "off" => rec.active /\ ctl.ui \in Resting /\ (test = "stopping" <=> rec.wait = "stop")

(* A press on its way still has a turn id to take.                         *)
Pressing ==
    /\ ctl.pending => held /\ ctl.owner /\ ctl.ui \in Replying \cup {"idle"}
    /\ ctl.timer => ctl.pending \/ ctl.ui = "press_pending"
    /\ ctl.timer \/ ctl.ui = "press_pending" \/ ctl.step = "start" => issued < MaxTurns

(* The messages between recorder and capture window, capture by capture.   *)
Talking ==
    /\ rec.active =>
         \/ rec.wait = "load" /\ mic = [state |-> "off", cmds |-> <<>>, acks |-> <<>>]
         \/ rec.wait = "open" /\ mic = [state |-> "off", cmds |-> <<"start">>, acks |-> <<>>]
         \/ rec.wait = "open" /\ mic = [state |-> "asking", cmds |-> <<>>, acks |-> <<>>]
         \/ rec.wait = "open" /\ mic = [state |-> "on", cmds |-> <<>>, acks |-> <<"ready">>]
         \/ rec.wait = "open" /\ mic = [state |-> "off", cmds |-> <<>>, acks |-> <<"error">>]
         \/ rec.wait = "none" /\ mic = [state |-> "on", cmds |-> <<>>, acks |-> <<>>]
         \/ rec.wait = "stop" /\ mic = [state |-> "on", cmds |-> <<"stop">>, acks |-> <<>>]
         \/ rec.wait = "stop" /\ mic = [state |-> "off", cmds |-> <<>>, acks |-> <<"stopped">>]
    /\ ~rec.active =>
         /\ rec.wait = "none"
         /\ mic.cmds # <<>> => mic.cmds[Len(mic.cmds)] = "cancel"
         /\ mic.state # "off" => mic.cmds # <<>>

(* The turn of a recording, of a text being sent and of a reply is the one *)
(* the player has selected, unless it ended before its text was known to   *)
(* be accepted.                                                            *)
Speaking == ctl.ui \in {"sending"} \cup Replying \/ ctl.step \in {"held", "stop", "asr", "send"}
Own == ctl.turn # 0 /\ pb.active = ctl.turn /\ ~pb.drained
Over ==
    /\ ctl.turn = 0 /\ pb.drained /\ ctl.ui \in {"sending", "waiting_reply"}
    /\ ctl.step \in {"none", "accepted", "refused"}
Selected ==
    /\ ctl.turn <= issued
    /\ Speaking => Own \/ Over
    /\ ctl.step \in {"held", "stop", "asr", "send"} => ~pb.finished
    /\ \A i \in 1..Len(pb.queue) : pb.queue[i].turn = pb.active

(* The backend says nothing of a turn before its text was sent, and its    *)
(* answer to the text comes first.                                         *)
Untold(t) ==
    /\ chat[t] = "none" /\ co[t].state = "open" /\ ~Left(t)
    /\ \A i \in 1..Len(wire) : wire[i].turn # t
Ordered ==
    /\ \A t \in Turns : t > issued \/ (t = ctl.turn /\ ctl.step \in {"held", "stop", "asr"}) =>
          t \notin sends /\ Untold(t)
    /\ ctl.step = "send" =>
         \/ ctl.turn \in sends /\ Untold(ctl.turn)
         \/ /\ ctl.turn \notin sends
            /\ \E j \in 1..Len(wire) :
                 /\ wire[j].turn = ctl.turn /\ wire[j].kind \in {"accepted", "refused"}
                 /\ \A i \in 1..j - 1 : wire[i].turn # ctl.turn

IInv == Types /\ Operating /\ Pressing /\ Talking /\ Selected /\ Ordered

-----------------------------------------------------------------------------
(* The helpers of controller, recorder and player keep the types.          *)

\* The constants are positive.
LEMMA Positive == MaxTurns \in Nat \ {0} /\ MaxSentences \in Nat \ {0}
  BY VoiceBounds

\* A controller that changes its state.
LEMMA ToTypes ==
  ASSUME NEW c \in Ctls, NEW ui \in UiStates
  PROVE  To(c, ui) \in Ctls /\ To(c, ui) = [c EXCEPT !.ui = ui, !.said = 0]
<1>1. 0 \in 0..MaxSentences
  BY Positive
<1> QED
  BY <1>1 DEF To, Ctls

\* An operation that failed, and a press that is given up.
LEMMA FailedTypes ==
  ASSUME NEW c \in Ctls
  PROVE  /\ Failed(c) \in Ctls /\ Unpressed(c) \in Ctls
         /\ Failed(c) = [c EXCEPT !.ui = "error", !.said = 0, !.step = "none"]
<1>1. "error" \in UiStates
  BY DEF UiStates, Resting
<1>2. To(c, "error") \in Ctls
  BY <1>1, ToTypes
<1> QED
  BY <1>1, <1>2, Positive DEF Failed, To, Unpressed, Ctls, Steps

\* The controller hears the player.
LEMMA HeardTypes ==
  ASSUME NEW c \in Ctls, NEW p \in Players
  PROVE  /\ Heard(c, p) \in Ctls /\ Drained(p) \in Players /\ Pump(p) \in Players
         /\ Heard(c, p).step = c.step /\ Heard(c, p).timer = c.timer
         /\ Heard(c, p).pending = c.pending /\ Heard(c, p).owner = c.owner
         /\ Heard(c, p).ui = IF Drains(p) /\ p.active = c.turn /\ c.ui \in Replying THEN "idle" ELSE c.ui
         /\ Heard(c, p).turn = IF Drains(p) /\ p.active = c.turn THEN 0 ELSE c.turn
<1>1. "idle" \in UiStates
  BY DEF UiStates, Resting
<1>2. To(c, "idle") \in Ctls
  BY <1>1, ToTypes
<1>3. Drained(p) \in Players
  BY DEF Drained, Players
<1>4. Pump(p) \in Players
  BY DEF Pump, Players
<1>5. 0 \in 0..MaxTurns
  BY Positive
<1> QED
  BY <1>1, <1>2, <1>3, <1>4, <1>5 DEF Heard, To, Ctls

\* The controller follows the sentences.
LEMMA SentenceTypes ==
  ASSUME NEW c \in Ctls, NEW n \in 1..MaxSentences, NEW item \in [turn : 0..MaxTurns, n : 0..MaxSentences],
         NEW queue \in Seq(Sentences), NEW r \in {SentenceReady(c, n), SentenceFinished(c, item, queue)}
  PROVE  /\ r \in Ctls /\ r.step = c.step /\ r.turn = c.turn /\ r.timer = c.timer
         /\ r.pending = c.pending /\ r.owner = c.owner
         /\ r.ui = c.ui \/ (c.ui \in Replying /\ r.ui \in Replying)
<1>1. Replying \subseteq UiStates /\ {"waiting_reply", "speaking_prepare", "speaking"} = Replying
  BY DEF UiStates, Replying
<1>2. To(c, "speaking_prepare") \in Ctls
  BY <1>1, ToTypes
<1>3. n \in 0..MaxSentences
  BY Positive
<1>4. queue # <<>> => Head(queue).n \in 0..MaxSentences
  <2>1. queue # <<>> => Head(queue) \in Sentences
    OBVIOUS
  <2> QED
    BY <2>1, Positive DEF Sentences
<1>5. CASE r = SentenceReady(c, n)
  BY <1>1, <1>3, <1>5 DEF SentenceReady, Ctls
<1>6. CASE r = SentenceFinished(c, item, queue)
  BY <1>1, <1>2, <1>4, <1>6 DEF SentenceFinished, To, Ctls
<1> QED
  BY <1>5, <1>6

\* The player's selection of a turn.
LEMMA PlayerTypes ==
  ASSUME NEW p \in Players, NEW t \in 0..MaxTurns
  PROVE  BeginTurn(p, t) \in Players /\ Muted(p) \in Players /\ CancelTurn(p, t) \in Players
<1>1. <<>> \in Seq(Sentences) /\ 0 \in 0..MaxTurns
  BY Positive
<1>2. BeginTurn(p, t) \in Players
  BY <1>1 DEF BeginTurn, Players
<1>3. Muted(p) \in Players
  BY DEF Muted, Players
<1>4. CancelTurn(p, t) \in Players
  BY <1>1, <1>3 DEF CancelTurn, Players
<1> QED
  BY <1>2, <1>3, <1>4

-----------------------------------------------------------------------------
(* Types.                                                                  *)

\* The initial state has the invariant.
LEMMA InitInv == Init => IInv
<1> SUFFICES ASSUME Init
             PROVE  IInv
  OBVIOUS
<1>1. 0 \in 0..MaxTurns /\ 0 \in 0..MaxSentences /\ "idle" \in UiStates
  BY Positive DEF UiStates, Resting
<1>2. ctl \in Ctls /\ rec \in Recs /\ mic \in Mics /\ pb \in Players
  BY <1>1 DEF Init, Ctls, Recs, Mics, Players, Silent, Steps
<1>3. co \in [Turns -> Coordinators]
  <2>1. [state |-> "open", pushed |-> 0, made |-> 0, told |-> FALSE, done |-> FALSE] \in Coordinators
    BY <1>1 DEF Coordinators
  <2> QED
    BY <2>1 DEF Init
<1>4. Types
  <2>1. wire \in Seq(Frames) /\ sends \subseteq Turns /\ cancels \subseteq Turns
    BY DEF Init
  <2>2. chat \in [Turns -> {"none", "running", "cancelling", "replied", "closed"}]
    BY DEF Init
  <2>3. /\ faults \in FaultSets /\ voiced \in BOOLEAN /\ held \in BOOLEAN /\ issued \in 0..MaxTurns
        /\ test \in {"off", "on", "stopping"}
    BY <1>1 DEF Init
  <2> QED
    BY <1>2, <1>3, <2>1, <2>2, <2>3 DEF Types
<1>5. Operating /\ Pressing /\ Talking
  BY Positive DEF Init, Operating, Pressing, Talking, Capturing, Resting, Replying
<1>6. Selected
  BY DEF Init, Selected, Speaking, Own, Over, Replying
<1>7. Ordered
  BY DEF Init, Ordered, Untold, Left
<1> QED
  BY <1>4, <1>5, <1>6, <1>7 DEF IInv

\* The frames a backend step appends are those of its turn.
LEMMA EmitTypes ==
  ASSUME Types, NEW t \in Turns, NEW frames \in Seq(Frames)
  PROVE  /\ Emit(t, frames) \in Seq(Frames)
         /\ \E added \in Seq(Frames) :
              Emit(t, frames) = wire \o added /\ added \in {<<>>, frames}
<1>1. wire \in Seq(Frames) /\ <<>> \in Seq(Frames)
  BY DEF Types
<1>2. wire = wire \o <<>>
  BY <1>1
<1>3. CASE chat[t] = "closed"
  BY <1>1, <1>2, <1>3 DEF Emit
<1>4. CASE chat[t] # "closed"
  <2>1. Emit(t, frames) = wire \o frames
    BY <1>4 DEF Emit
  <2> QED
    BY <2>1, <1>1
<1> QED
  BY <1>3, <1>4

\* The frames of a turn.
LEMMA FrameTypes ==
  ASSUME Types, NEW t \in Turns
  PROVE  /\ \A kind \in {"accepted", "refused", "started", "finished"} :
              Frame(kind, t, 0) \in Frames /\ Frame(kind, t, 0).turn = t /\ Frame(kind, t, 0).kind = kind
         /\ Announcement(t) \in Seq(Frames) /\ Farewell(t) \in Seq(Frames)
         /\ Left(t) => /\ co[t].made + 1 \in 1..MaxSentences
                       /\ Frame("audio", t, co[t].made + 1) \in Frames
<1>1. \A kind \in {"accepted", "refused", "started", "finished"} :
         Frame(kind, t, 0) \in Frames /\ Frame(kind, t, 0).turn = t /\ Frame(kind, t, 0).kind = kind
  BY DEF Frame, Frames
<1>2. Announcement(t) \in Seq(Frames) /\ Farewell(t) \in Seq(Frames)
  BY <1>1 DEF Announcement, Farewell
<1>3. ASSUME Left(t)
      PROVE  co[t].made + 1 \in 1..MaxSentences
  <2>1. co[t].made \in 0..MaxSentences /\ co[t].pushed \in 0..MaxSentences
    BY DEF Types, Coordinators
  <2> QED
    BY <1>3, <2>1, Positive DEF Left
<1> QED
  BY <1>1, <1>2, <1>3 DEF Frame, Frames

\* The steps of recorder and microphone keep the types.
LEMMA CaptureTypes ==
  ASSUME Types, Pressing, CaptureStep \/ CaptureLost \/ TestStart \/ TestCancel
  PROVE  rec' \in Recs /\ mic' \in Mics /\ test' \in {"off", "on", "stopping"} /\ ctl' \in Ctls
         /\ issued' \in 0..MaxTurns /\ pb' \in Players /\ cancels' \subseteq Turns
<1> DEFINE Cmds == {"start", "stop", "cancel"}
           Acks == {"ready", "stopped", "error"}
<1>1. /\ ctl \in Ctls /\ rec \in Recs /\ mic \in Mics /\ pb \in Players /\ issued \in 0..MaxTurns
      /\ test \in {"off", "on", "stopping"} /\ cancels \subseteq Turns
  BY DEF Types
<1>2. /\ mic.cmds \in Seq(Cmds) /\ mic.acks \in Seq(Acks) /\ mic.state \in {"off", "asking", "on"}
      /\ rec.active \in BOOLEAN
  BY <1>1 DEF Mics, Recs
<1>3. /\ mic.cmds # <<>> => Tail(mic.cmds) \in Seq(Cmds)
      /\ mic.acks # <<>> => Tail(mic.acks) \in Seq(Acks)
      /\ \A c \in Cmds : Append(mic.cmds, c) \in Seq(Cmds)
      /\ \A a \in Acks : Append(mic.acks, a) \in Seq(Acks)
      /\ <<>> \in Seq(Cmds) /\ <<>> \in Seq(Acks)
  BY <1>2
<1>4. Failed(ctl) \in Ctls
  BY <1>1, FailedTypes
<1>5. Idle \in Recs /\ [active |-> TRUE, wait |-> "load"] \in Recs
  BY DEF Idle, Recs
<1>6. CASE Loaded \/ TestStart \/ TestStop \/ TestCancel
  BY <1>1, <1>2, <1>3, <1>5, <1>6 DEF Loaded, TestStart, TestStop, TestCancel, StartRecorder, StopRecorder,
     CancelRecorder, Recs, Mics, fixed, desk, backend, net
<1>7. CASE Obey
  BY <1>1, <1>2, <1>3, <1>7 DEF Obey, Mics, fixed, desk, backend, net
<1>8. CASE \E granted \in BOOLEAN : Open(granted)
  BY <1>1, <1>2, <1>3, <1>8 DEF Open, Mics, fixed, desk, backend, net
<1>9. CASE Stopped
  <2>1. mic' = [mic EXCEPT !.acks = Tail(@)] /\ mic.acks # <<>>
    BY <1>9 DEF Stopped
  <2>2. mic' \in Mics
    BY <1>1, <1>3, <2>1 DEF Mics
  <2>3. [ctl EXCEPT !.step = "asr"] \in Ctls
    BY <1>1 DEF Ctls, Steps
  <2>4. rec' \in Recs /\ ctl' \in Ctls /\ test' \in {"off", "on", "stopping"}
    BY <1>1, <1>5, <1>9, <2>3 DEF Stopped
  <2> QED
    BY <1>1, <1>9, <2>2, <2>4 DEF Stopped, net
<1>10. CASE CaptureError \/ CaptureLost
  <2>1. mic' \in Mics
    <3>1. CASE CaptureError
      BY <1>1, <1>2, <1>3, <3>1 DEF CaptureError, Mics
    <3>2. CASE CaptureLost
      BY <1>3, <3>2 DEF CaptureLost, Mics
    <3> QED
      BY <1>10, <3>1, <3>2
  <2>2. rec' \in Recs /\ ctl' \in Ctls /\ test' = "off"
    BY <1>1, <1>4, <1>5, <1>10 DEF CaptureError, CaptureLost, Rejects
  <2> QED
    BY <1>1, <1>10, <2>1, <2>2 DEF CaptureError, CaptureLost, net
<1>11. CASE Ready
  <2>1. mic.acks # <<>> /\ Tail(mic.acks) \in Seq(Acks)
    BY <1>3, <1>11 DEF Ready
  <2>2. CASE rec.wait = "open" /\ ctl.step = "start"
    <3> DEFINE next == issued + 1
    <3>1. issued < MaxTurns /\ next \in 1..MaxTurns
      BY <1>1, <2>2, Positive DEF Pressing
    <3>2. Recording(next)
      BY <1>11, <2>2 DEF Ready
    <3>3. next \in Turns /\ next \in 0..MaxTurns
      BY <3>1, Positive DEF Turns
    <3>4. BeginTurn(pb, next) \in Players
      BY <1>1, <3>3, PlayerTypes
    <3>5. {ctl.turn} \ {0} \subseteq Turns
      BY <1>1, Positive DEF Ctls, Turns
    <3>6. /\ [ctl EXCEPT !.turn = next, !.step = "held"] \in Ctls
          /\ [[ctl EXCEPT !.turn = next, !.step = "held"] EXCEPT !.step = "stop"] \in Ctls
      BY <1>1, <3>3 DEF Ctls, Steps
    <3> HIDE DEF next
    <3>7. rec' \in Recs /\ ctl' \in Ctls
      BY <1>1, <1>2, <3>2, <3>6 DEF Recording, Recs
    <3>8. mic' \in Mics
      BY <1>1, <1>2, <1>3, <2>1, <3>2 DEF Recording, Mics
    <3>9. issued' \in 0..MaxTurns /\ pb' \in Players /\ cancels' \subseteq Turns
      BY <1>1, <3>2, <3>3, <3>4, <3>5 DEF Recording
    <3> QED
      BY <1>1, <1>11, <3>7, <3>8, <3>9 DEF Ready
  <2>3. CASE ~(rec.wait = "open" /\ ctl.step = "start")
    <3>1. /\ rec' = IF rec.wait = "open" THEN [rec EXCEPT !.wait = "none"] ELSE rec
          /\ mic' = [mic EXCEPT !.acks = Tail(@)]
          /\ UNCHANGED <<ctl, issued, pb, cancels, test>>
      BY <1>11, <2>3 DEF Ready
    <3>2. rec' \in Recs /\ mic' \in Mics
      BY <1>1, <1>2, <2>1, <3>1 DEF Recs, Mics
    <3> QED
      BY <1>1, <3>1, <3>2
  <2> QED
    BY <2>2, <2>3
<1> QED
  BY <1>6, <1>7, <1>8, <1>9, <1>10, <1>11 DEF CaptureStep
\* The steps of the user and of the controller's timers keep the types.
LEMMA UserTypes ==
  ASSUME Types,
         StartPress \/ PointerMoved \/ Release \/ Cancel \/ PressElapsed \/ RecordingTimesOut \/ SendTimesOut
  PROVE  rec' \in Recs /\ mic' \in Mics /\ ctl' \in Ctls /\ pb' \in Players /\ cancels' \subseteq Turns
         /\ held' \in BOOLEAN
<1>1. /\ ctl \in Ctls /\ rec \in Recs /\ mic \in Mics /\ pb \in Players /\ cancels \subseteq Turns
      /\ held \in BOOLEAN
  BY DEF Types
<1>2. /\ Append(mic.cmds, "stop") \in Seq({"start", "stop", "cancel"})
      /\ Append(mic.cmds, "cancel") \in Seq({"start", "stop", "cancel"})
  BY <1>1 DEF Mics
<1>3. /\ [mic EXCEPT !.cmds = Append(@, "stop")] \in Mics
      /\ [mic EXCEPT !.cmds = Append(@, "cancel")] \in Mics
  BY <1>1, <1>2 DEF Mics
<1>4. /\ [rec EXCEPT !.wait = "stop"] \in Recs /\ Idle \in Recs
      /\ [active |-> TRUE, wait |-> "load"] \in Recs
  BY <1>1 DEF Recs, Idle
<1>5. /\ {"idle", "press_pending", "recording", "transcribing", "dragging"} \subseteq UiStates
      /\ 0 \in 0..MaxTurns /\ 0 \in 0..MaxSentences
  BY Positive DEF UiStates, Resting
<1>6. ASSUME NEW c \in Ctls
      PROVE  /\ Failed(c) \in Ctls /\ Unpressed(c) \in Ctls
             /\ To(c, "transcribing") \in Ctls /\ To(c, "idle") \in Ctls /\ To(c, "recording") \in Ctls
             /\ [c EXCEPT !.step = "stop"] \in Ctls /\ [c EXCEPT !.step = "start"] \in Ctls
             /\ [c EXCEPT !.timer = FALSE, !.pending = FALSE] \in Ctls
             /\ [c EXCEPT !.turn = 0, !.step = "none"] \in Ctls
             /\ [c EXCEPT !.ui = "dragging", !.timer = FALSE] \in Ctls
             /\ [c EXCEPT !.pending = TRUE, !.timer = TRUE, !.owner = TRUE] \in Ctls
             /\ [c EXCEPT !.ui = "press_pending", !.timer = TRUE, !.owner = TRUE] \in Ctls
  <2>1. /\ Failed(c) \in Ctls /\ Unpressed(c) \in Ctls
        /\ To(c, "transcribing") \in Ctls /\ To(c, "idle") \in Ctls /\ To(c, "recording") \in Ctls
    BY <1>5, FailedTypes, ToTypes
  <2> QED
    BY <1>5, <2>1 DEF Ctls, Steps
<1>7. ASSUME NEW c \in Ctls, Finish(c)
      PROVE  ctl' \in Ctls /\ rec' \in Recs /\ mic' \in Mics
  <2>1. To(c, "transcribing") \in Ctls
    BY <1>6
  <2>2. /\ [To(c, "transcribing") EXCEPT !.step = "stop"] \in Ctls
        /\ Failed(To(c, "transcribing")) \in Ctls
    BY <1>6, <2>1
  <2> QED
    BY <1>1, <1>3, <1>4, <1>7, <2>1, <2>2 DEF Finish, Fetch, StopRecorder
<1>8. CASE StartPress
  BY <1>1, <1>6, <1>8 DEF StartPress, capture, backend, net
<1>9. CASE PointerMoved
  BY <1>1, <1>6, <1>9 DEF PointerMoved, capture, backend, net
<1>10. CASE Release
  <2>1. Unpressed(ctl) \in Ctls
    BY <1>1, <1>6
  <2>2. To(Unpressed(ctl), "idle") \in Ctls
    BY <1>6, <2>1
  <2>3. ctl' \in Ctls /\ rec' \in Recs /\ mic' \in Mics
    <3>1. CASE ctl.owner /\ ~ctl.pending /\ ctl.ui = "recording"
      BY <1>7, <1>10, <2>1, <3>1 DEF Release
    <3>2. CASE ~(ctl.owner /\ ~ctl.pending /\ ctl.ui = "recording")
      BY <1>1, <1>10, <2>1, <2>2, <3>2 DEF Release
    <3> QED
      BY <3>1, <3>2
  <2> QED
    BY <1>1, <1>10, <2>3 DEF Release, net
<1>11. CASE Cancel
  <2>1. Unpressed(ctl) \in Ctls
    BY <1>1, <1>6
  <2>2. [Unpressed(ctl) EXCEPT !.turn = 0, !.step = "none"] \in Ctls
    BY <1>6, <2>1
  <2>3. To([Unpressed(ctl) EXCEPT !.turn = 0, !.step = "none"], "idle") \in Ctls
    BY <1>6, <2>2
  <2>4. ctl.turn \in 0..MaxTurns /\ {ctl.turn} \ {0} \subseteq Turns
    BY <1>1, Positive DEF Ctls, Turns
  <2>5. CancelTurn(pb, ctl.turn) \in Players
    BY <1>1, <2>4, PlayerTypes
  <2> QED
    BY <1>1, <1>3, <1>4, <1>11, <2>2, <2>3, <2>4, <2>5 DEF Cancel, CancelRecorder
<1>12. CASE PressElapsed
  <2> DEFINE due == [ctl EXCEPT !.timer = FALSE, !.pending = FALSE]
  <2>1. due \in Ctls
    BY <1>1, <1>6
  <2>2. To(due, "recording") \in Ctls
    BY <1>6, <2>1
  <2>3. [To(due, "recording") EXCEPT !.step = "start"] \in Ctls
    BY <1>6, <2>2
  <2> QED
    BY <1>1, <1>4, <1>12, <2>1, <2>3 DEF PressElapsed, StartRecorder, net
<1>13. CASE RecordingTimesOut
  BY <1>1, <1>7, <1>13 DEF RecordingTimesOut, net
<1>14. CASE SendTimesOut
  BY <1>1, <1>6, <1>14 DEF SendTimesOut, capture, net
<1> QED
  BY <1>8, <1>9, <1>10, <1>11, <1>12, <1>13, <1>14

\* The steps of the backend keep the types.
LEMMA BackendTypes ==
  ASSUME Types, NEW t \in Turns,
         \/ Serve(t) \/ Push(t) \/ Synthesised(t) \/ SynthesisFails(t) \/ SynthesisEnds(t)
         \/ TurnEnds(t) \/ TurnFails(t) \/ Terminal(t) \/ CancelVoiceTurn(t) \/ CancelChat(t)
  PROVE  /\ chat' \in [Turns -> {"none", "running", "cancelling", "replied", "closed"}]
         /\ co' \in [Turns -> Coordinators] /\ wire' \in Seq(Frames)
         /\ sends' \subseteq Turns /\ cancels' \subseteq Turns
<1> DEFINE States == {"none", "running", "cancelling", "replied", "closed"}
<1>1. /\ chat \in [Turns -> States] /\ co \in [Turns -> Coordinators] /\ wire \in Seq(Frames)
      /\ sends \subseteq Turns /\ cancels \subseteq Turns
  BY DEF Types
<1>2. \A s \in States : [chat EXCEPT ![t] = s] \in [Turns -> States]
  BY <1>1
<1>3. \A c \in Coordinators : [co EXCEPT ![t] = c] \in [Turns -> Coordinators]
  BY <1>1
<1>4. co[t] \in Coordinators /\ chat[t] \in States
  BY <1>1
<1>5. /\ Announcement(t) \in Seq(Frames) /\ Farewell(t) \in Seq(Frames)
      /\ Announcement(t) \o Farewell(t) \in Seq(Frames)
      /\ Left(t) => <<Frame("audio", t, co[t].made + 1)>> \in Seq(Frames)
  BY FrameTypes
<1>6. \A frames \in Seq(Frames) : Emit(t, frames) \in Seq(Frames)
  BY EmitTypes
<1>7. CASE Serve(t)
  <2>1. Frame("refused", t, 0) \in Frames /\ Frame("accepted", t, 0) \in Frames
    BY FrameTypes
  <2> QED
    BY <1>1, <1>2, <1>7, <2>1 DEF Serve
<1>8. CASE Push(t)
  <2>1. [co[t] EXCEPT !.pushed = @ + 1, !.told = TRUE] \in Coordinators
    <3>1. co[t].pushed \in 0..MaxSentences /\ co[t].pushed < MaxSentences
      BY <1>4, <1>8 DEF Push, Coordinators
    <3>2. co[t].pushed + 1 \in 0..MaxSentences
      BY <3>1, Positive
    <3> QED
      BY <1>4, <3>2 DEF Coordinators
  <2>2. co' = [co EXCEPT ![t] = [co[t] EXCEPT !.pushed = @ + 1, !.told = TRUE]]
    BY <1>1, <1>8 DEF Push
  <2> QED
    BY <1>1, <1>3, <1>5, <1>6, <1>8, <2>1, <2>2 DEF Push
<1>9. CASE Synthesised(t)
  <2>1. co[t].made + 1 \in 1..MaxSentences
    BY <1>9, FrameTypes DEF Synthesised
  <2>2. [co[t] EXCEPT !.made = @ + 1] \in Coordinators
    BY <1>4, <2>1, Positive DEF Coordinators
  <2>3. co' = [co EXCEPT ![t] = [co[t] EXCEPT !.made = @ + 1]]
    BY <1>1, <1>9 DEF Synthesised
  <2> QED
    BY <1>1, <1>3, <1>5, <1>6, <1>9, <2>2, <2>3 DEF Synthesised
<1>10. CASE SynthesisFails(t)
  <2>1. [co[t] EXCEPT !.state = "failed", !.done = TRUE] \in Coordinators
    BY <1>4 DEF Coordinators
  <2>2. co' = [co EXCEPT ![t] = [co[t] EXCEPT !.state = "failed", !.done = TRUE]]
    BY <1>1, <1>10 DEF SynthesisFails
  <2> QED
    BY <1>1, <1>3, <1>5, <1>6, <1>10, <2>1, <2>2 DEF SynthesisFails
<1>11. CASE SynthesisEnds(t)
  <2>1. [co[t] EXCEPT !.done = TRUE] \in Coordinators
    BY <1>4 DEF Coordinators
  <2>2. co' = [co EXCEPT ![t] = [co[t] EXCEPT !.done = TRUE]]
    BY <1>1, <1>11 DEF SynthesisEnds
  <2> QED
    BY <1>1, <1>3, <1>5, <1>6, <1>11, <2>1, <2>2 DEF SynthesisEnds
<1>12. CASE TurnEnds(t)
  <2> DEFINE next == IF co[t].state = "open" THEN "finish" ELSE co[t].state
  <2>1. [co[t] EXCEPT !.told = TRUE, !.state = next] \in Coordinators
    BY <1>4 DEF Coordinators
  <2>2. co' = [co EXCEPT ![t] = [co[t] EXCEPT !.told = TRUE, !.state = next]]
    BY <1>1, <1>12 DEF TurnEnds
  <2> QED
    BY <1>1, <1>2, <1>3, <1>5, <1>6, <1>12, <2>1, <2>2 DEF TurnEnds
<1>13. CASE TurnFails(t)
  <2>1. [co[t] EXCEPT !.told = TRUE, !.state = "cancelled", !.done = TRUE] \in Coordinators
    BY <1>4 DEF Coordinators
  <2>2. co' = [co EXCEPT ![t] = [co[t] EXCEPT !.told = TRUE, !.state = "cancelled", !.done = TRUE]]
    BY <1>1, <1>13 DEF TurnFails
  <2>3. Emit(t, Announcement(t) \o Farewell(t)) \in Seq(Frames)
    BY <1>5, <1>6
  <2>4. chat' \in [Turns -> States] /\ wire' \in Seq(Frames)
    BY <1>2, <1>13, <2>3 DEF TurnFails
  <2> QED
    BY <1>1, <1>3, <1>13, <2>1, <2>2, <2>4 DEF TurnFails
<1>14. CASE Terminal(t)
  BY <1>1, <1>2, <1>14 DEF Terminal, net
<1>15. CASE CancelVoiceTurn(t) \/ CancelChat(t)
  <2> DEFINE next == IF chat[t] = "none" THEN co[t].state ELSE "cancelled"
  <2>1. [co[t] EXCEPT !.state = next] \in Coordinators
    BY <1>4 DEF Coordinators
  <2>2. co' = [co EXCEPT ![t] = [co[t] EXCEPT !.state = next]]
    BY <1>1, <1>15 DEF CancelVoiceTurn, CancelChat, Interrupted
  <2>3. chat' = [chat EXCEPT ![t] = IF chat[t] = "running" THEN "cancelling" ELSE chat[t]]
    BY <1>1, <1>15 DEF CancelVoiceTurn, CancelChat, Interrupted
  <2> QED
    BY <1>1, <1>2, <1>3, <1>4, <1>15, <2>1, <2>2, <2>3 DEF CancelVoiceTurn, CancelChat, net
<1> QED
  BY <1>7, <1>8, <1>9, <1>10, <1>11, <1>12, <1>13, <1>14, <1>15

\* How controller and player move together when one hears the other: only a
\* turn that has drained is taken from the controller.
Heeds ==
    /\ ctl' \in Ctls /\ pb' \in Players
    /\ ctl'.step = ctl.step /\ ctl'.timer = ctl.timer /\ ctl'.pending = ctl.pending
    /\ ctl'.owner = ctl.owner /\ pb'.active = pb.active
    /\ ctl'.ui = ctl.ui \/ (ctl.ui \in Replying /\ ctl'.ui \in Replying \cup {"idle"})
    /\ pb'.finished =>
         pb.finished \/ (wire # <<>> /\ Head(wire).kind = "finished" /\ Head(wire).turn = ctl.turn)
    /\ \/ ctl'.turn = ctl.turn /\ (pb.active = ctl.turn => pb'.drained = pb.drained)
       \/ ctl'.turn = 0 /\ ctl'.ui \notin Replying /\ pb.active = ctl.turn /\ pb'.finished /\ pb'.drained
    /\ ctl.turn = 0 => ctl'.ui = ctl.ui
    /\ pb.drained => pb'.drained
    /\ (\A i \in 1..Len(pb.queue) : pb.queue[i].turn = pb.active) =>
         \A i \in 1..Len(pb'.queue) : pb'.queue[i].turn = pb.active

\* The player ends a sentence or gives up, and the controller hears of it.
LEMMA HeardSteps ==
  ASSUME Types, NEW c \in Ctls, NEW p \in Players,
         c.step = ctl.step, c.timer = ctl.timer, c.pending = ctl.pending, c.owner = ctl.owner,
         c.turn = ctl.turn, c.ui = ctl.ui \/ (ctl.turn # 0 /\ ctl.ui \in Replying /\ c.ui \in Replying),
         p.active = pb.active, p.drained = pb.drained,
         p.finished => pb.finished \/ (wire # <<>> /\ Head(wire).kind = "finished" /\ Head(wire).turn = ctl.turn),
         p.queue \in {pb.queue, <<>>},
         ctl' = Heard(c, p), pb' = Drained(p)
  PROVE  Heeds
<1>1. /\ Heard(c, p) \in Ctls /\ Drained(p) \in Players
      /\ Heard(c, p).step = c.step /\ Heard(c, p).timer = c.timer
      /\ Heard(c, p).pending = c.pending /\ Heard(c, p).owner = c.owner
      /\ Heard(c, p).ui = IF Drains(p) /\ p.active = c.turn /\ c.ui \in Replying THEN "idle" ELSE c.ui
      /\ Heard(c, p).turn = IF Drains(p) /\ p.active = c.turn THEN 0 ELSE c.turn
  BY HeardTypes
<1>2. /\ Drained(p).active = p.active /\ Drained(p).finished = p.finished /\ Drained(p).queue = p.queue
      /\ Drains(p) => Drained(p).drained
      /\ ~Drains(p) => Drained(p).drained = p.drained
  BY DEF Drained, Players
<1>3. Drains(p) => p.finished /\ p.active # 0
  BY DEF Drains
<1>4. "idle" \notin Replying
  BY DEF Replying
<1>5. /\ ctl'.ui = ctl.ui \/ (ctl.ui \in Replying /\ ctl'.ui \in Replying \cup {"idle"})
      /\ ctl'.step = ctl.step /\ ctl'.timer = ctl.timer /\ ctl'.pending = ctl.pending
      /\ ctl'.owner = ctl.owner
  BY <1>1
<1>6. /\ \/ ctl'.turn = ctl.turn /\ (pb.active = ctl.turn => pb'.drained = pb.drained)
         \/ ctl'.turn = 0 /\ ctl'.ui \notin Replying /\ pb.active = ctl.turn /\ pb'.finished /\ pb'.drained
      /\ ctl.turn = 0 => ctl'.ui = ctl.ui
      /\ pb.drained => pb'.drained
  <2>1. pb.drained => pb'.drained
    BY <1>2
  <2>2. ctl.turn = 0 => ctl'.ui = ctl.ui
    BY <1>1, <1>3
  <2>3. CASE Drains(p) /\ p.active = c.turn
    BY <1>1, <1>2, <1>3, <1>4, <2>3
  <2>4. CASE ~(Drains(p) /\ p.active = c.turn)
    BY <1>1, <1>2, <2>4
  <2> QED
    BY <2>1, <2>2, <2>3, <2>4
<1>7. (\A i \in 1..Len(pb.queue) : pb.queue[i].turn = pb.active) =>
         \A i \in 1..Len(pb'.queue) : pb'.queue[i].turn = pb.active
  BY <1>2
<1> QED
  BY <1>1, <1>2, <1>5, <1>6, <1>7 DEF Heeds

\* The player plays on, and the controller follows.
LEMMA PlayedSteps ==
  ASSUME Types, NEW c \in Ctls, NEW p \in Players,
         c.step = ctl.step, c.timer = ctl.timer, c.pending = ctl.pending, c.owner = ctl.owner,
         c.turn = ctl.turn,
         c.ui = ctl.ui \/ (ctl.turn # 0 /\ ctl.ui \in Replying /\ c.ui \in Replying \cup {"idle"}),
         p.active = pb.active, p.drained = pb.drained, p.finished = pb.finished,
         (\A i \in 1..Len(pb.queue) : pb.queue[i].turn = pb.active) =>
            \A i \in 1..Len(p.queue) : p.queue[i].turn = pb.active,
         ctl' = c, pb' \in {p, Pump(p)}
  PROVE  Heeds
<1>1. Pump(p) \in Players
  BY HeardTypes
<1>2. /\ pb' \in Players /\ pb'.active = pb.active /\ pb'.drained = pb.drained
      /\ pb'.finished = pb.finished /\ pb'.queue = p.queue
  BY <1>1 DEF Pump, Players
<1> QED
  BY <1>2 DEF Heeds

\* Every step of the player is such a step.
LEMMA PlayerSteps ==
  ASSUME Types, Pumped \/ SoundStarts \/ SoundEnds \/ SoundFails \/ PlayerLost
  PROVE  Heeds
<1>1. ctl \in Ctls /\ pb \in Players /\ 0 \in 0..MaxTurns
  BY Positive DEF Types
<1>2. /\ pb.queue \in Seq(Sentences) /\ pb.current \in [turn : 0..MaxTurns, n : 0..MaxSentences]
      /\ <<>> \in Seq(Sentences)
      /\ pb.current # Silent => /\ pb.current.turn \in 0..MaxTurns /\ pb.current.turn # 0
                               /\ pb.current.n \in 1..MaxSentences
  BY <1>1, Positive DEF Players, Silent, Sentences, Turns
<1>3. CASE Pumped
  <2>1. CASE pb.queue = <<>>
    <3>1. pb' = [pb EXCEPT !.pumping = FALSE] /\ ctl' = ctl
      BY <1>3, <2>1 DEF Pumped, desk
    <3>2. pb' \in Players
      BY <1>1, <3>1 DEF Players
    <3>3. /\ pb'.active = pb.active /\ pb'.drained = pb.drained /\ pb'.finished = pb.finished
          /\ pb'.queue = pb.queue
      BY <1>1, <3>1 DEF Players
    <3> QED
      BY <1>1, <3>1, <3>2, <3>3 DEF Heeds
  <2>2. CASE pb.queue # <<>>
    <3>1. /\ pb' = [pb EXCEPT !.pumping = FALSE, !.current = Head(pb.queue), !.queue = Tail(pb.queue)]
          /\ ctl' = ctl
      BY <1>3, <2>2 DEF Pumped, desk
    <3>2. /\ Head(pb.queue) \in Sentences /\ Tail(pb.queue) \in Seq(Sentences)
          /\ Len(Tail(pb.queue)) = Len(pb.queue) - 1
          /\ \A i \in 1..Len(pb.queue) - 1 : i + 1 \in 1..Len(pb.queue) /\ Tail(pb.queue)[i] = pb.queue[i + 1]
      BY <1>2, <2>2
    <3>4. pb' \in Players
      BY <1>1, <3>1, <3>2 DEF Players
    <3>5. /\ pb'.active = pb.active /\ pb'.drained = pb.drained /\ pb'.finished = pb.finished
          /\ pb'.queue = Tail(pb.queue)
      BY <1>1, <3>1 DEF Players
    <3>6. (\A i \in 1..Len(pb.queue) : pb.queue[i].turn = pb.active) =>
             \A i \in 1..Len(pb'.queue) : pb'.queue[i].turn = pb.active
      BY <3>2, <3>5
    <3> QED
      BY <1>1, <3>1, <3>4, <3>5, <3>6 DEF Heeds
  <2> QED
    BY <2>1, <2>2
<1>4. CASE SoundEnds \/ SoundFails
  <2> DEFINE p == Muted(pb)
             c == IF SoundEnds THEN SentenceFinished(ctl, pb.current, pb.queue) ELSE ctl
  <2>1. /\ p \in Players /\ p.active = pb.active /\ p.drained = pb.drained /\ p.finished = pb.finished
        /\ p.queue = pb.queue
    BY <1>1, PlayerTypes DEF Players, Muted
  <2>2. 1 \in 1..MaxSentences
    BY Positive
  <2>3. /\ c \in Ctls /\ c.step = ctl.step /\ c.turn = ctl.turn /\ c.timer = ctl.timer
        /\ c.pending = ctl.pending /\ c.owner = ctl.owner
        /\ c.ui = ctl.ui \/ (ctl.turn # 0 /\ ctl.ui \in Replying /\ c.ui \in Replying)
    <3>1. /\ c \in Ctls /\ c.step = ctl.step /\ c.turn = ctl.turn /\ c.timer = ctl.timer
          /\ c.pending = ctl.pending /\ c.owner = ctl.owner
          /\ c.ui = ctl.ui \/ (ctl.ui \in Replying /\ c.ui \in Replying)
      BY <1>1, <1>2, <2>2, SentenceTypes
    <3>2. SoundEnds => pb.current.turn # 0
      BY <1>2 DEF SoundEnds
    <3>3. ctl.turn = 0 => c = ctl
      BY <3>2 DEF SentenceFinished
    <3> QED
      BY <3>1, <3>3
  <2>4. \/ pb.queue = <<>> /\ ctl' = Heard(c, p) /\ pb' = Drained(p)
        \/ ctl' = c /\ pb' = Pump(p)
    BY <1>4, <2>1 DEF SoundEnds, SoundFails, Continue
  <2> HIDE DEF c, p
  <2>5. CASE pb.queue = <<>> /\ ctl' = Heard(c, p) /\ pb' = Drained(p)
    BY <2>1, <2>3, <2>5, HeardSteps
  <2>6. CASE ctl' = c /\ pb' = Pump(p)
    BY <2>1, <2>3, <2>6, PlayedSteps
  <2> QED
    BY <2>4, <2>5, <2>6
<1>5. CASE PlayerLost
  <2> DEFINE p == [Muted(pb) EXCEPT !.queue = <<>>, !.pumping = FALSE]
  <2>1. /\ p \in Players /\ p.active = pb.active /\ p.drained = pb.drained /\ p.finished = pb.finished
        /\ p.queue = <<>>
    BY <1>1, <1>2 DEF Players, Muted
  <2>2. ctl' = Heard(ctl, p) /\ pb' = Drained(p)
    BY <1>5 DEF PlayerLost
  <2> HIDE DEF p
  <2> QED
    BY <1>1, <2>1, <2>2, HeardSteps
<1>6. CASE SoundStarts
  <2> DEFINE p == [pb EXCEPT !.playing = TRUE]
             c == IF pb.current.turn = ctl.turn THEN SentenceReady(ctl, pb.current.n) ELSE ctl
  <2>1. /\ p \in Players /\ p.active = pb.active /\ p.drained = pb.drained /\ p.finished = pb.finished
        /\ p.queue = pb.queue
    BY <1>1 DEF Players
  <2>2. pb.current.turn # 0 /\ pb.current.n \in 1..MaxSentences
    BY <1>2, <1>6 DEF SoundStarts
  <2>3. /\ c \in Ctls /\ c.step = ctl.step /\ c.turn = ctl.turn /\ c.timer = ctl.timer
        /\ c.pending = ctl.pending /\ c.owner = ctl.owner
        /\ c.ui = ctl.ui \/ (ctl.turn # 0 /\ ctl.ui \in Replying /\ c.ui \in Replying)
    BY <1>1, <1>2, <2>2, SentenceTypes
  <2>4. ctl' = c /\ pb' = p
    BY <1>6 DEF SoundStarts
  <2> HIDE DEF c, p
  <2> QED
    BY <2>1, <2>3, <2>4, PlayedSteps
<1> QED
  BY <1>3, <1>4, <1>5, <1>6

\* The head of the wire is a frame of its kind.
LEMMA HeadTypes ==
  ASSUME Types, wire # <<>>
  PROVE  /\ Head(wire) \in Frames /\ Tail(wire) \in Seq(Frames) /\ Head(wire).turn \in Turns
         /\ Head(wire).kind \in {"accepted", "refused", "started", "finished", "audio"}
         /\ Head(wire).kind = "audio" => Head(wire).n \in 1..MaxSentences
<1>1. wire \in Seq(Frames)
  BY DEF Types
<1>2. Head(wire) \in Frames /\ Tail(wire) \in Seq(Frames)
  BY <1>1
<1> QED
  BY <1>2 DEF Frames

\* A frame that is no answer is heard by controller and player together.
LEMMA RoutedSteps ==
  ASSUME Types, Deliver, Head(wire).kind \notin {"accepted", "refused"}
  PROVE  Heeds
<1> DEFINE frame == Head(wire)
<1>1. wire # <<>> /\ Routed(frame)
  BY DEF Deliver
<1>2. /\ frame.turn \in Turns /\ frame.kind \in {"started", "finished", "audio"}
      /\ frame.kind = "audio" => frame.n \in 1..MaxSentences
  BY <1>1, HeadTypes
<1>3. ctl \in Ctls /\ pb \in Players /\ pb.queue \in Seq(Sentences) /\ frame.turn # 0
  BY <1>2 DEF Types, Players, Turns
<1> HIDE DEF frame
<1>4. CASE frame.turn # ctl.turn
  <2>1. ctl' = ctl /\ pb' = pb
    BY <1>1, <1>4 DEF Routed
  <2> QED
    BY <1>3, <2>1 DEF Heeds
<1>5. CASE frame.turn = ctl.turn /\ frame.kind = "started"
  <2> DEFINE ui == IF voiced THEN "speaking_prepare" ELSE "idle"
  <2>1. ui \in UiStates /\ ui \in Replying \cup {"idle"} /\ "waiting_reply" \in Replying
    BY DEF UiStates, Resting, Replying
  <2> HIDE DEF ui
  <2>2. /\ To(ctl, ui) \in Ctls /\ To(ctl, ui).ui = ui /\ To(ctl, ui).step = ctl.step
        /\ To(ctl, ui).turn = ctl.turn /\ To(ctl, ui).timer = ctl.timer
        /\ To(ctl, ui).pending = ctl.pending /\ To(ctl, ui).owner = ctl.owner
    <3>1. To(ctl, ui) \in Ctls /\ To(ctl, ui) = [ctl EXCEPT !.ui = ui, !.said = 0]
      BY <1>3, <2>1, ToTypes
    <3> QED
      BY <1>3, <3>1 DEF Ctls
  <2>3. pb' = pb /\ ctl' = IF ctl.ui = "waiting_reply" THEN To(ctl, ui) ELSE ctl
    BY <1>1, <1>5 DEF Routed, ui
  <2> QED
    BY <1>3, <1>5, <2>1, <2>2, <2>3 DEF Heeds
<1>6. CASE frame.turn = ctl.turn /\ frame.kind = "audio"
  <2> DEFINE c == SentenceReady(ctl, frame.n)
             item == [turn |-> frame.turn, n |-> frame.n]
             p == IF pb.active # frame.turn THEN pb ELSE [pb EXCEPT !.queue = Append(pb.queue, item)]
  <2>1. /\ c \in Ctls /\ c.step = ctl.step /\ c.turn = ctl.turn /\ c.timer = ctl.timer
        /\ c.pending = ctl.pending /\ c.owner = ctl.owner
        /\ c.ui = ctl.ui \/ (ctl.turn # 0 /\ ctl.ui \in Replying /\ c.ui \in Replying)
    <3>1. frame.n \in 1..MaxSentences /\ Silent \in [turn : 0..MaxTurns, n : 0..MaxSentences]
      BY <1>2, <1>6, Positive DEF Silent
    <3> QED
      BY <1>3, <1>6, <3>1, SentenceTypes
  <2>2. item \in Sentences
    BY <1>2, <1>6 DEF Sentences
  <2>3. p \in Players
    BY SMTT(40), <1>3, <2>2 DEF Players
  <2>4. p.active = pb.active /\ p.drained = pb.drained /\ p.finished = pb.finished
    BY <1>3 DEF Players
  <2>5. (\A i \in 1..Len(pb.queue) : pb.queue[i].turn = pb.active) =>
           \A i \in 1..Len(p.queue) : p.queue[i].turn = pb.active
    <3>1. CASE pb.active # frame.turn
      BY <3>1
    <3>2. CASE pb.active = frame.turn
      <4>1. p.queue = Append(pb.queue, item) /\ item.turn = pb.active
        BY <1>3, <3>2 DEF Players
      <4> HIDE DEF p, item
      <4>2. /\ Len(p.queue) = Len(pb.queue) + 1
            /\ \A i \in 1..Len(pb.queue) + 1 :
                 p.queue[i] = IF i = Len(pb.queue) + 1 THEN item ELSE pb.queue[i]
        BY <1>3, <2>2, <4>1
      <4> QED
        BY <1>3, <4>1, <4>2
    <3> QED
      BY <3>1, <3>2
  <2>6. ctl' = c /\ pb' \in {p, Pump(p)}
    BY <1>1, <1>6 DEF Routed
  <2> HIDE DEF c, p
  <2> QED
    BY <2>1, <2>3, <2>4, <2>5, <2>6, PlayedSteps
<1>7. CASE frame.turn = ctl.turn /\ frame.kind = "finished"
  <2> DEFINE p == IF pb.active = frame.turn THEN [pb EXCEPT !.finished = TRUE] ELSE pb
  <2>1. /\ p \in Players /\ p.active = pb.active /\ p.drained = pb.drained /\ p.queue = pb.queue
        /\ p.finished => pb.finished \/ (wire # <<>> /\ Head(wire).kind = "finished" /\ Head(wire).turn = ctl.turn)
    BY <1>1, <1>3, <1>7 DEF Players, frame
  <2>2. ctl' = Heard(ctl, p) /\ pb' = Drained(p)
    BY <1>1, <1>7 DEF Routed
  <2> HIDE DEF p
  <2> QED
    BY <1>3, <2>1, <2>2, HeardSteps
<1> QED
  BY <1>1, <1>2, <1>4, <1>5, <1>6, <1>7 DEF Routed

\* An answer is kept by the operation that awaits it, and changes nothing else.
LEMMA AnsweredSteps ==
  ASSUME Types, Deliver, Head(wire).kind \in {"accepted", "refused"}
  PROVE  /\ pb' = pb /\ ctl' \in Ctls
         /\ \/ ctl' = ctl /\ (ctl.step # "send" \/ ctl.turn # Head(wire).turn)
            \/ /\ ctl.step = "send" /\ ctl.turn = Head(wire).turn
               /\ ctl'.step \in {"accepted", "refused"} /\ ctl'.ui = ctl.ui /\ ctl'.turn = ctl.turn
               /\ ctl'.timer = ctl.timer /\ ctl'.pending = ctl.pending /\ ctl'.owner = ctl.owner
<1>1. Answered(Head(wire)) /\ ctl \in Ctls
  BY DEF Deliver, Types
<1>2. CASE ctl.step # "send" \/ ctl.turn # Head(wire).turn
  BY <1>1, <1>2 DEF Answered
<1>3. CASE ctl.step = "send" /\ ctl.turn = Head(wire).turn
  <2>1. pb' = pb /\ ctl' = [ctl EXCEPT !.step = Head(wire).kind] /\ Head(wire).kind \in Steps
    BY <1>1, <1>3 DEF Answered, Steps
  <2> QED
    BY <1>1, <1>3, <2>1 DEF Ctls
<1> QED
  BY <1>2, <1>3

\* The operation goes on with the answer.
LEMMA ResumesFields ==
  ASSUME Types, Resumes
  PROVE  /\ UNCHANGED <<rec, mic, test, pb, issued, held, wire, sends, cancels, chat, co, faults, voiced>>
         /\ ctl' \in Ctls /\ ctl.step \in {"accepted", "refused"}
         /\ ctl'.step = "none" /\ ctl'.ui \in {"waiting_reply", "error"} /\ ctl'.turn = ctl.turn
         /\ ctl'.timer = ctl.timer /\ ctl'.pending = ctl.pending /\ ctl'.owner = ctl.owner
<1>1. ctl \in Ctls
  BY DEF Types
<1>2. "waiting_reply" \in UiStates /\ "error" \in UiStates
  BY DEF UiStates, Replying, Resting
<1>3. To(ctl, "waiting_reply") \in Ctls /\ To(ctl, "waiting_reply") = [ctl EXCEPT !.ui = "waiting_reply", !.said = 0]
  BY <1>1, <1>2, ToTypes
<1>4. Failed(ctl) \in Ctls /\ Failed(ctl) = [ctl EXCEPT !.ui = "error", !.said = 0, !.step = "none"]
  BY <1>1, FailedTypes
<1>5. /\ UNCHANGED <<rec, mic, test, pb, issued, held, wire, sends, cancels, chat, co, faults, voiced>>
      /\ ctl.step \in {"accepted", "refused"}
      /\ ctl' \in {[To(ctl, "waiting_reply") EXCEPT !.step = "none"], Failed(ctl)}
  BY DEF Resumes, Settling, fixed, capture, backend, net
<1>6. CASE ctl' = [To(ctl, "waiting_reply") EXCEPT !.step = "none"]
  <2>1. ctl' = [ctl EXCEPT !.ui = "waiting_reply", !.said = 0, !.step = "none"]
    BY <1>3, <1>6
  <2>2. ctl' \in Ctls
    BY <1>3, <1>6 DEF Ctls, Steps
  <2> QED
    BY <1>1, <1>5, <2>1, <2>2 DEF Ctls
<1>7. CASE ctl' = Failed(ctl)
  BY <1>1, <1>4, <1>5, <1>7 DEF Ctls
<1> QED
  BY <1>5, <1>6, <1>7

\* Every step keeps the types.
LEMMA TypesStep == ASSUME Types, Pressing, Selected, Next PROVE Types'
<1>1. /\ faults \in FaultSets /\ voiced \in BOOLEAN /\ held \in BOOLEAN /\ issued \in 0..MaxTurns
      /\ ctl \in Ctls /\ rec \in Recs /\ mic \in Mics /\ pb \in Players
      /\ test \in {"off", "on", "stopping"}
      /\ chat \in [Turns -> {"none", "running", "cancelling", "replied", "closed"}]
      /\ co \in [Turns -> Coordinators]
      /\ wire \in Seq(Frames) /\ sends \subseteq Turns /\ cancels \subseteq Turns
  BY DEF Types
<1>2. CASE CaptureStep \/ CaptureLost \/ TestStart \/ TestCancel
  <2>1. rec' \in Recs /\ mic' \in Mics /\ test' \in {"off", "on", "stopping"} /\ ctl' \in Ctls
        /\ issued' \in 0..MaxTurns /\ pb' \in Players /\ cancels' \subseteq Turns
    BY <1>2, CaptureTypes
  <2>2. UNCHANGED <<faults, voiced, held, chat, co, wire, sends>>
    BY <1>2 DEF CaptureStep, Loaded, Obey, Open, Ready, Stopped, CaptureError, TestStop, CaptureLost, TestStart,
       TestCancel, fixed, desk, backend, net
  <2> QED
    BY <1>1, <2>1, <2>2 DEF Types
<1>3. CASE StartPress \/ PointerMoved \/ Release \/ Cancel \/ PressElapsed \/ RecordingTimesOut \/ SendTimesOut
  <2>1. rec' \in Recs /\ mic' \in Mics /\ ctl' \in Ctls /\ pb' \in Players /\ cancels' \subseteq Turns
        /\ held' \in BOOLEAN
    BY <1>3, UserTypes
  <2>2. UNCHANGED <<faults, voiced, issued, test, chat, co, wire, sends>>
    BY <1>3 DEF StartPress, PointerMoved, Release, Cancel, PressElapsed, RecordingTimesOut, SendTimesOut,
       fixed, capture, backend, net
  <2> QED
    BY <1>1, <2>1, <2>2 DEF Types
<1>4. CASE \E t \in Turns :
             \/ Serve(t) \/ Push(t) \/ Synthesised(t) \/ SynthesisFails(t) \/ SynthesisEnds(t)
             \/ TurnEnds(t) \/ TurnFails(t) \/ Terminal(t) \/ CancelVoiceTurn(t) \/ CancelChat(t)
  <2>1. PICK t \in Turns :
             \/ Serve(t) \/ Push(t) \/ Synthesised(t) \/ SynthesisFails(t) \/ SynthesisEnds(t)
             \/ TurnEnds(t) \/ TurnFails(t) \/ Terminal(t) \/ CancelVoiceTurn(t) \/ CancelChat(t)
    BY <1>4
  <2>2. /\ chat' \in [Turns -> {"none", "running", "cancelling", "replied", "closed"}]
        /\ co' \in [Turns -> Coordinators] /\ wire' \in Seq(Frames)
        /\ sends' \subseteq Turns /\ cancels' \subseteq Turns
    BY <2>1, BackendTypes
  <2>3. UNCHANGED <<faults, voiced, held, issued, ctl, rec, mic, test, pb>>
    BY <2>1 DEF Serve, Push, Synthesised, SynthesisFails, SynthesisEnds, TurnEnds, TurnFails, Terminal,
       CancelVoiceTurn, CancelChat, fixed, desk, capture
  <2> QED
    BY <1>1, <2>2, <2>3 DEF Types
<1>5. CASE Pumped \/ SoundStarts \/ SoundEnds \/ SoundFails \/ PlayerLost
  <2>1. ctl' \in Ctls /\ pb' \in Players
    BY <1>5, PlayerSteps DEF Heeds
  <2>2. UNCHANGED <<faults, voiced, held, issued, rec, mic, test, chat, co, wire, sends, cancels>>
    BY <1>5 DEF Pumped, SoundStarts, SoundEnds, SoundFails, PlayerLost, fixed, desk, capture, backend, net
  <2> QED
    BY <1>1, <2>1, <2>2 DEF Types
<1>6. CASE Deliver
  <2>1. ctl' \in Ctls /\ pb' \in Players
    BY <1>1, <1>6, RoutedSteps, AnsweredSteps DEF Heeds
  <2>2. wire # <<>> /\ wire' = Tail(wire)
    BY <1>6 DEF Deliver
  <2>3. wire' \in Seq(Frames)
    BY <2>2, HeadTypes
  <2>4. UNCHANGED <<faults, voiced, held, issued, rec, mic, test, chat, co, sends, cancels>>
    BY <1>6 DEF Deliver, fixed, capture, backend
  <2> QED
    BY <1>1, <2>1, <2>3, <2>4 DEF Types
<1>7. CASE \E heard \in BOOLEAN : Transcribed(heard)
  <2>1. PICK heard \in BOOLEAN : Transcribed(heard)
    BY <1>7
  <2>2. "sending" \in UiStates
    BY DEF UiStates
  <2>3. To(ctl, "sending") \in Ctls /\ Failed(ctl) \in Ctls
    BY <1>1, <2>2, ToTypes, FailedTypes
  <2>4. [To(ctl, "sending") EXCEPT !.step = "send"] \in Ctls
    BY <2>3 DEF Ctls, Steps
  <2>5. ctl' \in Ctls
    BY <2>1, <2>3, <2>4 DEF Transcribed
  <2>6. ctl.step = "asr" /\ sends' \subseteq sends \cup {ctl.turn}
    BY <2>1 DEF Transcribed
  <2>7. ctl.turn \in Turns
    BY <1>1, <2>6, Positive DEF Selected, Speaking, Own, Over, Ctls, Turns
  <2>8. UNCHANGED <<faults, voiced, held, issued, rec, mic, test, pb, chat, co, wire, cancels>>
    BY <2>1 DEF Transcribed, fixed, capture, backend
  <2> QED
    BY <1>1, <2>5, <2>6, <2>7, <2>8 DEF Types
<1>8. CASE Resumes
  BY <1>1, <1>8, ResumesFields DEF Types
<1> QED
  BY <1>2, <1>3, <1>4, <1>5, <1>6, <1>7, <1>8 DEF Next, TurnStep

-----------------------------------------------------------------------------
(* What each step does to the fields of controller and recorder.           *)

\* The press.
LEMMA PressFields ==
  ASSUME Types
  PROVE  /\ StartPress =>
              /\ UNCHANGED <<rec, mic, test, pb, issued>> /\ issued < MaxTurns /\ ~rec.active /\ ~held /\ held'
              /\ ctl'.step = ctl.step /\ ctl'.turn = ctl.turn /\ ctl'.timer /\ ctl'.owner
              /\ \/ ctl.ui \in Replying /\ ctl'.ui = ctl.ui /\ ctl'.pending
                 \/ ctl.ui \in {"idle", "error"} /\ ctl'.ui = "press_pending" /\ ctl'.pending = ctl.pending
         /\ PointerMoved =>
              /\ UNCHANGED <<rec, mic, test, pb, issued, held>>
              /\ ctl'.step = ctl.step /\ ctl'.turn = ctl.turn /\ ~ctl'.timer /\ ~ctl'.pending
              /\ ctl'.ui = ctl.ui \/ (ctl.ui = "press_pending" /\ ctl'.ui = "dragging")
         /\ PressElapsed =>
              /\ UNCHANGED <<mic, test, pb, issued, held>>
              /\ ctl.timer /\ ctl'.turn = ctl.turn /\ ~ctl'.timer /\ ~ctl'.pending /\ Quiet
              /\ \/ /\ rec' = [active |-> TRUE, wait |-> "load"] /\ ~rec.active
                    /\ ctl'.step = "start" /\ ctl'.ui = "recording"
                    /\ ctl.pending \/ ctl.ui = "press_pending"
                 \/ ctl'.step = ctl.step /\ ctl'.ui = ctl.ui /\ rec' = rec
<1>1. ctl \in Ctls
  BY DEF Types
<1>2. "recording" \in UiStates
  BY DEF UiStates
<1>3. ASSUME StartPress
      PROVE  /\ UNCHANGED <<rec, mic, test, pb, issued>> /\ issued < MaxTurns /\ ~rec.active /\ ~held /\ held'
             /\ ctl'.step = ctl.step /\ ctl'.turn = ctl.turn /\ ctl'.timer /\ ctl'.owner
             /\ \/ ctl.ui \in Replying /\ ctl'.ui = ctl.ui /\ ctl'.pending
                \/ ctl.ui \in {"idle", "error"} /\ ctl'.ui = "press_pending" /\ ctl'.pending = ctl.pending
  BY <1>1, <1>3 DEF StartPress, Ctls, Enabled, capture
<1>4. ASSUME PointerMoved
      PROVE  /\ UNCHANGED <<rec, mic, test, pb, issued, held>>
             /\ ctl'.step = ctl.step /\ ctl'.turn = ctl.turn /\ ~ctl'.timer /\ ~ctl'.pending
             /\ ctl'.ui = ctl.ui \/ (ctl.ui = "press_pending" /\ ctl'.ui = "dragging")
  BY <1>1, <1>4 DEF PointerMoved, Unpressed, Ctls, capture
<1>5. ASSUME PressElapsed
      PROVE  /\ UNCHANGED <<mic, test, pb, issued, held>>
             /\ ctl.timer /\ ctl'.turn = ctl.turn /\ ~ctl'.timer /\ ~ctl'.pending /\ Quiet
             /\ \/ /\ rec' = [active |-> TRUE, wait |-> "load"] /\ ~rec.active
                   /\ ctl'.step = "start" /\ ctl'.ui = "recording"
                   /\ ctl.pending \/ ctl.ui = "press_pending"
                \/ ctl'.step = ctl.step /\ ctl'.ui = ctl.ui /\ rec' = rec
  BY <1>1, <1>5 DEF PressElapsed, To, Ctls, Enabled, StartRecorder
<1> QED
  BY <1>3, <1>4, <1>5

\* The end of a recording, released or cut off.
LEMMA ReleaseFields ==
  ASSUME Types, Pressing, Release \/ RecordingTimesOut
  PROVE  /\ UNCHANGED <<test, pb, issued>> /\ ctl'.turn = ctl.turn /\ ~ctl'.pending
         /\ ctl'.timer => ctl.timer /\ ctl'.ui = "press_pending" /\ ctl.ui = "press_pending"
         /\ \/ /\ UNCHANGED <<rec, mic>> /\ ctl'.step = ctl.step
               /\ \/ ctl'.ui = ctl.ui
                  \/ ctl.ui \in {"press_pending", "dragging"} /\ ctl'.ui = "idle"
                  \/ ctl.ui = "recording" /\ ctl.step = "start" /\ ctl'.ui = "transcribing"
            \/ /\ ctl.ui = "recording" /\ ctl.step # "start" /\ rec.active
               /\ ctl'.ui = "transcribing" /\ ctl'.step = "stop"
               /\ rec' = [rec EXCEPT !.wait = "stop"] /\ mic' = [mic EXCEPT !.cmds = Append(@, "stop")]
            \/ /\ ctl.ui = "recording" /\ ctl.step # "start" /\ ~rec.active
               /\ ctl'.ui = "error" /\ ctl'.step = "none" /\ UNCHANGED <<rec, mic>>
<1>1. ctl \in Ctls
  BY DEF Types
<1>2. /\ Unpressed(ctl) \in Ctls /\ ~Unpressed(ctl).timer /\ ~Unpressed(ctl).pending
      /\ Unpressed(ctl).step = ctl.step /\ Unpressed(ctl).turn = ctl.turn /\ Unpressed(ctl).ui = ctl.ui
  BY <1>1, FailedTypes DEF Unpressed, Ctls
<1>3. ctl.ui # "press_pending" /\ ~ctl.pending => ~ctl.timer
  BY <1>1 DEF Pressing, Ctls
<1>4. ASSUME NEW c \in Ctls, Finish(c), ~c.timer, ~c.pending, c.step = ctl.step, c.turn = ctl.turn
      PROVE  /\ ctl'.turn = ctl.turn /\ ~ctl'.timer /\ ~ctl'.pending
             /\ \/ /\ UNCHANGED <<rec, mic>> /\ ctl'.step = ctl.step
                   /\ ctl.step = "start" /\ ctl'.ui = "transcribing"
                \/ /\ ctl.step # "start" /\ rec.active
                   /\ ctl'.ui = "transcribing" /\ ctl'.step = "stop"
                   /\ rec' = [rec EXCEPT !.wait = "stop"] /\ mic' = [mic EXCEPT !.cmds = Append(@, "stop")]
                \/ /\ ctl.step # "start" /\ ~rec.active
                   /\ ctl'.ui = "error" /\ ctl'.step = "none" /\ UNCHANGED <<rec, mic>>
  <2> DEFINE d == To(c, "transcribing")
  <2>1. "transcribing" \in UiStates
    BY DEF UiStates
  <2>2. d \in Ctls /\ d = [c EXCEPT !.ui = "transcribing", !.said = 0]
    BY <2>1, ToTypes
  <2>3. ~d.timer /\ ~d.pending /\ d.step = ctl.step /\ d.turn = ctl.turn /\ d.ui = "transcribing"
    BY <1>4, <2>2 DEF Ctls
  <2> HIDE DEF d
  <2>4. Failed(d) \in Ctls /\ Failed(d) = [d EXCEPT !.ui = "error", !.said = 0, !.step = "none"]
    BY <2>2, FailedTypes
  <2>5. CASE ctl.step = "start"
    BY <1>4, <2>3, <2>5 DEF Finish, d
  <2>6. CASE ctl.step # "start" /\ rec.active
    <3>1. ctl' = [d EXCEPT !.step = "stop"] /\ StopRecorder
      BY <1>4, <2>6 DEF Finish, Fetch, d
    <3> QED
      BY <2>2, <2>3, <2>6, <3>1 DEF StopRecorder, Ctls
  <2>7. CASE ctl.step # "start" /\ ~rec.active
    <3>1. ctl' = Failed(d) /\ UNCHANGED <<rec, mic>>
      BY <1>4, <2>7 DEF Finish, Fetch, d
    <3> QED
      BY <2>2, <2>3, <2>4, <2>7, <3>1 DEF Ctls
  <2> QED
    BY <2>5, <2>6, <2>7
<1>5. CASE Release
  <2>1. CASE ctl.owner /\ ~ctl.pending /\ ctl.ui = "recording"
    BY <1>2, <1>4, <1>5, <2>1 DEF Release
  <2>2. CASE ctl.owner /\ ~ctl.pending /\ ctl.ui \in {"press_pending", "dragging"}
    <3>1. "idle" \in UiStates
      BY DEF UiStates, Resting
    <3>2. ctl' = To(Unpressed(ctl), "idle") /\ UNCHANGED <<rec, mic>>
      BY <1>5, <2>2 DEF Release
    <3>3. ctl' = [Unpressed(ctl) EXCEPT !.ui = "idle", !.said = 0]
      BY <1>2, <3>1, <3>2, ToTypes
    <3> QED
      BY <1>2, <1>5, <2>2, <3>2, <3>3 DEF Release, Ctls
  <2>3. CASE ctl.owner /\ ctl.pending
    BY <1>2, <1>5, <2>3 DEF Release
  <2>4. CASE ~ctl.owner \/ (~ctl.pending /\ ctl.ui \notin {"press_pending", "dragging", "recording"})
    <3>1. ctl' = ctl /\ UNCHANGED <<rec, mic>>
      BY <1>5, <2>4 DEF Release, Pressing
    <3> QED
      BY <1>3, <1>5, <2>4, <3>1 DEF Release, Pressing
  <2> QED
    BY <2>1, <2>2, <2>3, <2>4
<1>6. CASE RecordingTimesOut
  <2>1. ctl.ui = "recording" /\ ~ctl.pending
    BY <1>6 DEF RecordingTimesOut, Pressing, Replying
  <2> QED
    BY <1>1, <1>3, <1>4, <1>6, <2>1 DEF RecordingTimesOut
<1> QED
  BY <1>5, <1>6

\* Everything is given up.
LEMMA CancelFields ==
  ASSUME Types, Cancel
  PROVE  /\ UNCHANGED <<test, issued, held>> /\ ctl'.turn = 0 /\ ctl'.step = "none"
         /\ ~ctl'.timer /\ ~ctl'.pending
         /\ ctl'.ui = IF ctl.ui \in Resettable THEN "idle" ELSE ctl.ui
         /\ IF ctl.ui \in Capturing
            THEN rec' = Idle /\ mic' = [mic EXCEPT !.cmds = Append(@, "cancel")]
            ELSE UNCHANGED <<rec, mic>>
         /\ pb' = CancelTurn(pb, ctl.turn)
<1> DEFINE c == [Unpressed(ctl) EXCEPT !.turn = 0, !.step = "none"]
<1>1. ctl \in Ctls
  BY DEF Types
<1>2. Unpressed(ctl) \in Ctls
  BY <1>1, FailedTypes
<1>3. /\ c \in Ctls /\ c.turn = 0 /\ c.step = "none" /\ ~c.timer /\ ~c.pending /\ c.ui = ctl.ui
  <2>1. 0 \in 0..MaxTurns
    BY Positive
  <2> QED
    BY <1>1, <1>2, <2>1 DEF Unpressed, Ctls, Steps
<1>4. "idle" \in UiStates
  BY DEF UiStates, Resting
<1>5. ctl' = IF ctl.ui \in Resettable THEN To(c, "idle") ELSE c
  BY DEF Cancel
<1> HIDE DEF c
<1>6. To(c, "idle") = [c EXCEPT !.ui = "idle", !.said = 0]
  BY <1>3, <1>4, ToTypes
<1>7. /\ ctl'.turn = 0 /\ ctl'.step = "none" /\ ~ctl'.timer /\ ~ctl'.pending
      /\ ctl'.ui = IF ctl.ui \in Resettable THEN "idle" ELSE ctl.ui
  BY <1>3, <1>5, <1>6 DEF Ctls
<1> QED
  BY <1>7 DEF Cancel, CancelRecorder

\* The operation that awaits the recorder, the transcription or the chat.
LEMMA OperationFields ==
  ASSUME Types
  PROVE  /\ Stopped =>
              /\ UNCHANGED <<pb, issued, held>> /\ Head(mic.acks) = "stopped"
              /\ mic' = [mic EXCEPT !.acks = Tail(@)]
              /\ ctl'.ui = ctl.ui /\ ctl'.turn = ctl.turn /\ ctl'.timer = ctl.timer
              /\ ctl'.pending = ctl.pending /\ ctl'.owner = ctl.owner
              /\ IF rec.wait # "stop" THEN UNCHANGED <<rec, ctl, test>>
                 ELSE /\ rec' = Idle /\ test' = "off"
                      /\ ctl'.step = IF ctl.step = "stop" THEN "asr" ELSE ctl.step
         /\ CaptureError \/ CaptureLost =>
              /\ UNCHANGED <<pb, issued, held>> /\ rec' = Idle /\ test' = "off"
              /\ IF ctl.step \in {"start", "stop"}
                 THEN /\ ctl'.ui = "error" /\ ctl'.step = "none" /\ ctl'.turn = ctl.turn
                      /\ ctl'.timer = ctl.timer /\ ctl'.pending = ctl.pending /\ ctl'.owner = ctl.owner
                 ELSE ctl' = ctl
         /\ SendTimesOut \/ (\E heard \in BOOLEAN : Transcribed(heard)) =>
              /\ UNCHANGED <<rec, mic, test, pb, issued, held, wire, chat, co>>
              /\ ctl'.turn = ctl.turn
              /\ ctl'.timer = ctl.timer /\ ctl'.pending = ctl.pending /\ ctl'.owner = ctl.owner
              /\ \/ ctl.step \in {"asr", "send"} /\ ctl'.ui = "error" /\ ctl'.step = "none" /\ sends' = sends
                 \/ /\ ctl.step = "asr" /\ ctl'.ui = "sending" /\ ctl'.step = "send"
                    /\ sends' = sends \cup {ctl.turn}
<1>1. ctl \in Ctls
  BY DEF Types
<1>2. /\ Failed(ctl).ui = "error" /\ Failed(ctl).step = "none" /\ Failed(ctl).turn = ctl.turn
      /\ Failed(ctl).timer = ctl.timer /\ Failed(ctl).pending = ctl.pending /\ Failed(ctl).owner = ctl.owner
  <2>1. Failed(ctl) = [ctl EXCEPT !.ui = "error", !.said = 0, !.step = "none"]
    BY <1>1, FailedTypes
  <2> QED
    BY <1>1, <2>1 DEF Ctls
<1>3. ASSUME Stopped
      PROVE  /\ UNCHANGED <<pb, issued, held>> /\ Head(mic.acks) = "stopped"
             /\ mic' = [mic EXCEPT !.acks = Tail(@)]
             /\ ctl'.ui = ctl.ui /\ ctl'.turn = ctl.turn /\ ctl'.timer = ctl.timer
             /\ ctl'.pending = ctl.pending /\ ctl'.owner = ctl.owner
             /\ IF rec.wait # "stop" THEN UNCHANGED <<rec, ctl, test>>
                ELSE /\ rec' = Idle /\ test' = "off"
                     /\ ctl'.step = IF ctl.step = "stop" THEN "asr" ELSE ctl.step
  BY <1>1, <1>3 DEF Stopped, Ctls
<1>4. ASSUME CaptureError \/ CaptureLost
      PROVE  /\ UNCHANGED <<pb, issued, held>> /\ rec' = Idle /\ test' = "off"
             /\ IF ctl.step \in {"start", "stop"}
                THEN /\ ctl'.ui = "error" /\ ctl'.step = "none" /\ ctl'.turn = ctl.turn
                     /\ ctl'.timer = ctl.timer /\ ctl'.pending = ctl.pending /\ ctl'.owner = ctl.owner
                ELSE ctl' = ctl
  BY <1>2, <1>4 DEF CaptureError, CaptureLost, Rejects
<1>5. ASSUME SendTimesOut
      PROVE  /\ UNCHANGED <<rec, mic, test, pb, issued, held, wire, chat, co>>
             /\ ctl'.turn = ctl.turn
             /\ ctl'.timer = ctl.timer /\ ctl'.pending = ctl.pending /\ ctl'.owner = ctl.owner
             /\ ctl.step = "send" /\ ctl'.ui = "error" /\ ctl'.step = "none" /\ sends' = sends
  BY <1>2, <1>5 DEF SendTimesOut, capture, backend, net
<1>6. ASSUME NEW heard \in BOOLEAN, Transcribed(heard)
      PROVE  /\ UNCHANGED <<rec, mic, test, pb, issued, held, wire, chat, co>>
             /\ ctl'.turn = ctl.turn
             /\ ctl'.timer = ctl.timer /\ ctl'.pending = ctl.pending /\ ctl'.owner = ctl.owner
             /\ \/ ctl.step \in {"asr", "send"} /\ ctl'.ui = "error" /\ ctl'.step = "none" /\ sends' = sends
                \/ /\ ctl.step = "asr" /\ ctl'.ui = "sending" /\ ctl'.step = "send"
                   /\ sends' = sends \cup {ctl.turn}
  <2>1. "sending" \in UiStates
    BY DEF UiStates
  <2>2. To(ctl, "sending") = [ctl EXCEPT !.ui = "sending", !.said = 0]
    BY <1>1, <2>1, ToTypes
  <2>3. CASE heard
    <3>1. ctl' = [ctl EXCEPT !.ui = "sending", !.said = 0, !.step = "send"] /\ sends' = sends \cup {ctl.turn}
      BY <1>6, <2>2, <2>3 DEF Transcribed
    <3> QED
      BY <1>1, <1>6, <3>1 DEF Transcribed, Ctls, capture, backend
  <2>4. CASE ~heard
    <3>1. ctl' = Failed(ctl) /\ sends' = sends
      BY <1>6, <2>4 DEF Transcribed
    <3> QED
      BY <1>2, <1>6, <3>1 DEF Transcribed, capture, backend
  <2> QED
    BY <2>3, <2>4
<1> QED
  BY <1>3, <1>4, <1>5, <1>6

\* The microphone is open.
LEMMA ReadyFields ==
  ASSUME Types, Ready
  PROVE  /\ UNCHANGED <<test, held>> /\ mic.acks # <<>> /\ Head(mic.acks) = "ready"
         /\ ctl'.ui = ctl.ui /\ ctl'.timer = ctl.timer /\ ctl'.pending = ctl.pending /\ ctl'.owner = ctl.owner
         /\ \/ /\ rec.wait = "open" /\ ctl.step = "start"
               /\ issued' = issued + 1 /\ ctl'.turn = issued + 1 /\ pb' = BeginTurn(pb, issued + 1)
               /\ \/ /\ ctl.ui = "recording" /\ ctl'.step = "held" /\ rec' = [rec EXCEPT !.wait = "none"]
                     /\ mic' = [mic EXCEPT !.acks = Tail(@)]
                  \/ /\ ctl.ui # "recording" /\ ctl'.step = "stop" /\ rec' = [rec EXCEPT !.wait = "stop"]
                     /\ mic' = [mic EXCEPT !.acks = Tail(@), !.cmds = Append(@, "stop")]
            \/ /\ ~(rec.wait = "open" /\ ctl.step = "start") /\ UNCHANGED <<ctl, issued, pb>>
               /\ rec' = IF rec.wait = "open" THEN [rec EXCEPT !.wait = "none"] ELSE rec
               /\ mic' = [mic EXCEPT !.acks = Tail(@)]
<1>1. ctl \in Ctls
  BY DEF Types
<1>2. CASE rec.wait = "open" /\ ctl.step = "start"
  <2>1. Recording(issued + 1)
    BY <1>2 DEF Ready
  <2>2. CASE ctl.ui = "recording"
    BY <1>1, <1>2, <2>1, <2>2 DEF Ready, Recording, Ctls
  <2>3. CASE ctl.ui # "recording"
    BY <1>1, <1>2, <2>1, <2>3 DEF Ready, Recording, Ctls
  <2> QED
    BY <2>2, <2>3
<1>3. CASE ~(rec.wait = "open" /\ ctl.step = "start")
  BY <1>3 DEF Ready
<1> QED
  BY <1>2, <1>3

\* Steps that leave controller and recorder alone.
LEMMA ElsewhereFields ==
  ASSUME Next
  PROVE  \/ UNCHANGED <<ctl, rec, mic, test, pb, issued, held>>
         \/ StartPress \/ PointerMoved \/ PressElapsed
         \/ Release \/ RecordingTimesOut \/ Cancel
         \/ Stopped \/ CaptureError \/ CaptureLost
         \/ SendTimesOut \/ (\E heard \in BOOLEAN : Transcribed(heard)) \/ Ready
         \/ Loaded \/ Obey \/ (\E granted \in BOOLEAN : Open(granted))
         \/ TestStart \/ TestStop \/ TestCancel
         \/ Pumped \/ SoundStarts \/ SoundEnds \/ SoundFails \/ PlayerLost \/ Deliver \/ Resumes
<1>1. ASSUME NEW t \in Turns,
             \/ Serve(t) \/ Push(t) \/ Synthesised(t) \/ SynthesisFails(t) \/ SynthesisEnds(t)
             \/ TurnEnds(t) \/ TurnFails(t) \/ Terminal(t) \/ CancelVoiceTurn(t) \/ CancelChat(t)
      PROVE  UNCHANGED <<ctl, rec, mic, test, pb, issued, held>>
  BY <1>1 DEF Serve, Push, Synthesised, SynthesisFails, SynthesisEnds, TurnEnds, TurnFails, Terminal,
     CancelVoiceTurn, CancelChat, desk, capture
<1> QED
  BY <1>1 DEF Next, CaptureStep, TurnStep

\* Steps of the player and of a frame that arrives.
LEMMA ListenFields ==
  ASSUME Types, Pumped \/ SoundStarts \/ SoundEnds \/ SoundFails \/ PlayerLost \/ Deliver
  PROVE  /\ UNCHANGED <<rec, mic, test, issued, held>>
         /\ \/ Heeds
            \/ /\ pb' = pb /\ ctl.step = "send" /\ ctl'.step \in {"accepted", "refused"} /\ ctl'.ui = ctl.ui
               /\ ctl'.turn = ctl.turn /\ ctl'.timer = ctl.timer /\ ctl'.pending = ctl.pending
               /\ ctl'.owner = ctl.owner
<1>1. UNCHANGED <<rec, mic, test, issued, held>>
  BY DEF Pumped, SoundStarts, SoundEnds, SoundFails, PlayerLost, Deliver, desk, capture
<1>2. CASE Deliver /\ Head(wire).kind \in {"accepted", "refused"} /\ ctl' = ctl
  <2>1. pb' = pb /\ ctl \in Ctls /\ pb \in Players
    BY <1>2, AnsweredSteps DEF Types
  <2> QED
    BY <1>1, <1>2, <2>1 DEF Heeds
<1> QED
  BY <1>1, <1>2, PlayerSteps, RoutedSteps, AnsweredSteps

-----------------------------------------------------------------------------
(* Every step keeps what the operation and the press say.                  *)

\* A press on its way keeps a turn id to take.
LEMMA PressingStep == ASSUME Types, Operating, Pressing, Next PROVE Pressing'
<1>1. issued \in Nat /\ MaxTurns \in Nat
  BY Positive DEF Types
<1>2. CASE UNCHANGED <<ctl, rec, mic, test, pb, issued, held>>
  BY <1>2 DEF Pressing
<1>3. CASE StartPress \/ PointerMoved \/ PressElapsed
  BY <1>3, PressFields DEF Pressing, Replying
<1>4. CASE Release \/ RecordingTimesOut
  BY <1>4, ReleaseFields DEF Pressing
<1>5. CASE Cancel
  BY <1>5, CancelFields DEF Pressing, Resettable
<1>6. CASE Stopped \/ CaptureError \/ CaptureLost
  BY <1>6, OperationFields DEF Pressing, Operating, Capturing, Replying
<1>7. CASE SendTimesOut \/ (\E heard \in BOOLEAN : Transcribed(heard))
  BY <1>7, OperationFields DEF Pressing, Operating, Replying
<1>8. CASE Ready
  BY <1>1, <1>8, ReadyFields DEF Pressing, Operating, Capturing, Replying
<1>9. CASE Loaded \/ Obey \/ (\E granted \in BOOLEAN : Open(granted)) \/ TestStart \/ TestStop \/ TestCancel
  BY <1>9 DEF Loaded, Obey, Open, TestStart, TestStop, TestCancel, desk, Pressing
<1>10. CASE Pumped \/ SoundStarts \/ SoundEnds \/ SoundFails \/ PlayerLost \/ Deliver
  BY <1>10, ListenFields DEF Heeds, Pressing, Operating, Replying
<1>11. CASE Resumes
  BY <1>11, ResumesFields DEF Pressing, Operating, Replying
<1> QED
  BY <1>2, <1>3, <1>4, <1>5, <1>6, <1>7, <1>8, <1>9, <1>10, <1>11, ElsewhereFields

\* The operation and the recorder keep in step.
LEMMA OperatingStep == ASSUME Types, Operating, Pressing, Talking, Next PROVE Operating'
<1>1. ctl \in Ctls /\ rec \in Recs /\ test \in {"off", "on", "stopping"}
  BY DEF Types
<1>2. CASE UNCHANGED <<ctl, rec, mic, test, pb, issued, held>>
  BY <1>2 DEF Operating
<1>3. CASE StartPress \/ PointerMoved
  BY <1>1, <1>3, PressFields DEF Operating, Recs, Resting, Capturing, Replying
<1>4. CASE PressElapsed
  BY <1>1, <1>4, PressFields DEF Operating, Recs, Resting, Capturing, Replying
<1>5. CASE Release \/ RecordingTimesOut
  BY <1>1, <1>5, ReleaseFields DEF Operating, Recs, Resting, Capturing
<1>6. CASE Cancel
  BY <1>1, <1>6, CancelFields DEF Operating, Recs, Idle, Resting, Capturing, Resettable, Replying
<1>7. CASE Stopped
  BY <1>1, <1>7, OperationFields DEF Operating, Recs, Idle, Resting, Capturing
<1>8. CASE CaptureError \/ CaptureLost
  BY <1>1, <1>8, OperationFields DEF Operating, Recs, Idle, Resting, Capturing
<1>9. CASE SendTimesOut \/ (\E heard \in BOOLEAN : Transcribed(heard))
  BY <1>1, <1>9, OperationFields DEF Operating, Recs, Resting, Capturing
<1>10. CASE Ready
  <2>1. rec.wait = "open" => rec.active
    BY <1>1 DEF Talking, Recs
  <2>2. \A w \in {"none", "stop"} : [rec EXCEPT !.wait = w].active = rec.active /\ [rec EXCEPT !.wait = w].wait = w
    BY <1>1 DEF Recs
  <2>3. rec.active \in BOOLEAN
    BY <1>1 DEF Recs
  <2>4. CASE rec.wait = "open" /\ ctl.step = "start"
    <3>1. /\ rec'.active /\ test' = "off" /\ ctl'.ui = ctl.ui
          /\ \/ ctl.ui = "recording" /\ ctl'.step = "held" /\ rec'.wait = "none"
             \/ ctl.ui # "recording" /\ ctl'.step = "stop" /\ rec'.wait = "stop"
      BY <1>10, <2>1, <2>2, <2>4, ReadyFields DEF Operating
    <3>2. ctl.ui \in {"recording", "transcribing"}
      BY <2>4 DEF Operating, Capturing
    <3> QED
      BY <3>1, <3>2 DEF Operating, Resting, Capturing
  <2>5. CASE ~(rec.wait = "open" /\ ctl.step = "start")
    <3>1. /\ ctl' = ctl /\ test' = test /\ rec'.active = rec.active
          /\ rec'.wait = IF rec.wait = "open" THEN "none" ELSE rec.wait
      BY <1>10, <2>2, <2>5, ReadyFields
    <3> QED
      BY <2>1, <2>3, <2>5, <3>1 DEF Operating
  <2> QED
    BY <2>4, <2>5
<1>11. CASE Loaded \/ Obey \/ (\E granted \in BOOLEAN : Open(granted)) \/ TestStart \/ TestStop \/ TestCancel
  <2>1. rec.wait # "none" => rec.active
    BY <1>1 DEF Talking, Recs
  <2>2. CASE Obey \/ (\E granted \in BOOLEAN : Open(granted))
    BY <2>2 DEF Obey, Open, desk, Operating
  <2>3. CASE Loaded
    <3>1. ctl' = ctl /\ test' = test /\ rec'.active = rec.active /\ rec.wait = "load" /\ rec'.wait = "open"
      BY <1>1, <2>3 DEF Loaded, desk, Recs
    <3> QED
      BY <1>1, <2>1, <3>1 DEF Operating, Recs
  <2>4. CASE TestStart
    <3>1. ctl' = ctl /\ test' = "on" /\ rec'.active /\ rec'.wait = "load" /\ ctl.ui \in Resting
      BY <2>4 DEF TestStart, StartRecorder, desk
    <3> QED
      BY <3>1 DEF Operating, Resting, Capturing
  <2>5. CASE TestStop
    <3>1. ctl' = ctl /\ test = "on" /\ test' = "stopping" /\ rec'.active = rec.active /\ rec'.wait = "stop"
      BY <1>1, <2>5 DEF TestStop, StopRecorder, desk, Recs
    <3> QED
      BY <1>1, <3>1 DEF Operating, Recs
  <2>6. CASE TestCancel
    BY <1>1, <2>6 DEF TestCancel, CancelRecorder, desk, Operating, Recs, Idle
  <2> QED
    BY <1>11, <2>2, <2>3, <2>4, <2>5, <2>6
<1>12. CASE Pumped \/ SoundStarts \/ SoundEnds \/ SoundFails \/ PlayerLost \/ Deliver
  BY <1>1, <1>12, ListenFields DEF Heeds, Operating, Resting, Capturing, Replying
<1>13. CASE Resumes
  BY <1>1, <1>13, ResumesFields DEF Operating, Recs, Resting, Capturing
<1> QED
  BY <1>2, <1>3, <1>4, <1>5, <1>6, <1>7, <1>8, <1>9, <1>10, <1>11, <1>12, <1>13, ElsewhereFields

\* A microphone by its fields.
LEMMA MicFields ==
  ASSUME Types
  PROVE  /\ mic = [state |-> mic.state, cmds |-> mic.cmds, acks |-> mic.acks]
         /\ mic.state \in {"off", "asking", "on"} /\ mic.cmds \in Seq({"start", "stop", "cancel"})
         /\ mic.acks \in Seq({"ready", "stopped", "error"})
         /\ rec.active \in BOOLEAN /\ rec = [active |-> rec.active, wait |-> rec.wait]
  BY DEF Types, Mics, Recs

\* The end of a sequence one command longer, and of one with its head taken.
LEMMA Lasting ==
  ASSUME NEW S, NEW s \in Seq(S), NEW c \in S
  PROVE  /\ Append(s, c) # <<>> /\ Append(s, c)[Len(Append(s, c))] = c
         /\ s # <<>> /\ Tail(s) # <<>> => Tail(s)[Len(Tail(s))] = s[Len(s)]
         /\ s # <<>> /\ Tail(s) = <<>> => s[Len(s)] = Head(s)
<1>1. /\ Append(s, c) \in Seq(S) /\ Len(Append(s, c)) = Len(s) + 1 /\ Append(s, c)[Len(s) + 1] = c
      /\ Append(s, c) # <<>>
  OBVIOUS
<1>2. ASSUME s # <<>>
      PROVE  /\ Tail(s) # <<>> => Tail(s)[Len(Tail(s))] = s[Len(s)]
             /\ Tail(s) = <<>> => s[Len(s)] = Head(s)
  <2>1. /\ Tail(s) \in Seq(S) /\ Len(Tail(s)) = Len(s) - 1 /\ Len(s) \in Nat \ {0}
        /\ \A i \in 1..Len(s) - 1 : Tail(s)[i] = s[i + 1]
        /\ Head(s) = s[1]
    BY <1>2
  <2>2. ASSUME Tail(s) # <<>>
        PROVE  Tail(s)[Len(Tail(s))] = s[Len(s)]
    <3>1. Len(Tail(s)) # 0
      BY <2>1, <2>2
    <3>2. Len(s) - 1 \in 1..Len(s) - 1
      BY <2>1, <3>1
    <3> QED
      BY <2>1, <3>2
  <2>3. ASSUME Tail(s) = <<>>
        PROVE  s[Len(s)] = Head(s)
    <3>1. Len(Tail(s)) = 0
      BY <2>1, <2>3, EmptySeq
    <3>2. Len(s) = 1
      BY <2>1, <3>1
    <3> QED
      BY <2>1, <3>2
  <2> QED
    BY <2>2, <2>3
<1> QED
  BY <1>1, <1>2

\* A queue of one that is filled or emptied.
LEMMA Single == \A c : Append(<<>>, c) = <<c>> /\ Tail(<<c>>) = <<>> /\ Head(<<c>>) = c
  OBVIOUS

\* What the capture window does to its record.
LEMMA WindowFields ==
  ASSUME Types, Pressing
  PROVE  /\ Obey =>
              mic' = [state |-> IF Head(mic.cmds) = "start" THEN "asking"
                                ELSE IF Head(mic.cmds) = "cancel" \/ mic.state = "on" THEN "off" ELSE mic.state,
                      cmds |-> Tail(mic.cmds),
                      acks |-> IF Head(mic.cmds) \in {"start", "cancel"} THEN mic.acks
                               ELSE Append(mic.acks, IF mic.state = "on" THEN "stopped" ELSE "error")]
         /\ \A granted \in BOOLEAN : Open(granted) =>
              mic' = [state |-> IF granted THEN "on" ELSE "off", cmds |-> mic.cmds,
                      acks |-> Append(mic.acks, IF granted THEN "ready" ELSE "error")]
<1>1. mic \in Mics
  BY DEF Types
<1>2. ASSUME mic' \in Mics
      PROVE  mic' = [state |-> mic'.state, cmds |-> mic'.cmds, acks |-> mic'.acks]
  BY <1>2 DEF Mics
<1>3. ASSUME Obey
      PROVE  mic' = [state |-> IF Head(mic.cmds) = "start" THEN "asking"
                               ELSE IF Head(mic.cmds) = "cancel" \/ mic.state = "on" THEN "off" ELSE mic.state,
                     cmds |-> Tail(mic.cmds),
                     acks |-> IF Head(mic.cmds) \in {"start", "cancel"} THEN mic.acks
                              ELSE Append(mic.acks, IF mic.state = "on" THEN "stopped" ELSE "error")]
  <2>1. mic' \in Mics
    BY <1>3, CaptureTypes DEF CaptureStep
  <2>2. /\ mic'.cmds = Tail(mic.cmds)
        /\ mic'.state = IF Head(mic.cmds) = "start" THEN "asking"
                        ELSE IF Head(mic.cmds) = "cancel" \/ mic.state = "on" THEN "off" ELSE mic.state
    BY <1>1, <1>3 DEF Obey, Mics
  <2>3. mic'.acks = IF Head(mic.cmds) \in {"start", "cancel"} THEN mic.acks
                    ELSE Append(mic.acks, IF mic.state = "on" THEN "stopped" ELSE "error")
    <3>1. CASE Head(mic.cmds) = "start"
      BY <1>1, <1>3, <3>1 DEF Obey, Mics
    <3>2. CASE Head(mic.cmds) = "cancel"
      BY <1>1, <1>3, <3>2 DEF Obey, Mics
    <3>3. CASE Head(mic.cmds) \notin {"start", "cancel"} /\ mic.state = "on"
      BY <1>1, <1>3, <3>3 DEF Obey, Mics
    <3>4. CASE Head(mic.cmds) \notin {"start", "cancel"} /\ mic.state # "on"
      BY <1>1, <1>3, <3>4 DEF Obey, Mics
    <3> QED
      BY <3>1, <3>2, <3>3, <3>4
  <2> QED
    BY <1>2, <2>1, <2>2, <2>3
<1>4. ASSUME NEW granted \in BOOLEAN, Open(granted)
      PROVE  mic' = [state |-> IF granted THEN "on" ELSE "off", cmds |-> mic.cmds,
                     acks |-> Append(mic.acks, IF granted THEN "ready" ELSE "error")]
  <2>1. mic' \in Mics
    BY <1>4, CaptureTypes DEF CaptureStep
  <2>2. /\ mic'.state = IF granted THEN "on" ELSE "off"
        /\ mic'.cmds = mic.cmds
        /\ mic'.acks = Append(mic.acks, IF granted THEN "ready" ELSE "error")
    BY <1>1, <1>4 DEF Open, Mics
  <2> QED
    BY <1>2, <2>1, <2>2
<1> QED
  BY <1>3, <1>4

\* Recorder and window keep talking about one capture.
LEMMA TalkingStep == ASSUME Types, Operating, Pressing, Talking, Next PROVE Talking'
<1> USE MicFields, Single
<1> DEFINE Cmds == {"start", "stop", "cancel"}
           Settled == /\ rec'.wait = "none" /\ ~rec'.active
                      /\ mic'.cmds # <<>> => mic'.cmds[Len(mic'.cmds)] = "cancel"
                      /\ mic'.state # "off" => mic'.cmds # <<>>
<1>1. Settled => Talking'
  BY DEF Talking
<1>2. CASE UNCHANGED <<ctl, rec, mic, test, pb, issued, held>>
  BY <1>2 DEF Talking
<1>3. CASE StartPress \/ PointerMoved
  BY <1>3, PressFields DEF Talking
<1>4. CASE (PressElapsed /\ rec' # rec) \/ TestStart
  <2>1. /\ rec' = [active |-> TRUE, wait |-> "load"] /\ ~rec.active /\ mic' = mic
        /\ mic.cmds = <<>> /\ mic.acks = <<>>
    BY <1>4, PressFields DEF TestStart, StartRecorder, Quiet
  <2>2. mic = [state |-> "off", cmds |-> <<>>, acks |-> <<>>]
    BY <2>1 DEF Talking
  <2> QED
    BY <2>1, <2>2 DEF Talking
<1>5. CASE PressElapsed /\ rec' = rec
  BY <1>5, PressFields DEF Talking
<1>6. CASE (Release \/ RecordingTimesOut) /\ UNCHANGED <<rec, mic>>
  BY <1>6 DEF Talking
<1>7. ASSUME rec.active, rec.wait = "none",
             rec' = [rec EXCEPT !.wait = "stop"], mic' = [mic EXCEPT !.cmds = Append(@, "stop")]
      PROVE  Talking'
  <2>1. mic = [state |-> "on", cmds |-> <<>>, acks |-> <<>>]
    BY <1>7 DEF Talking
  <2>2. mic' = [state |-> "on", cmds |-> <<"stop">>, acks |-> <<>>]
    BY <1>7, <2>1
  <2>3. rec'.active /\ rec'.wait = "stop"
    BY <1>7
  <2> QED
    BY <2>2, <2>3 DEF Talking
<1>8. CASE (Release \/ RecordingTimesOut) /\ ~(UNCHANGED <<rec, mic>>)
  <2>1. /\ ctl.ui = "recording" /\ ctl.step # "start" /\ rec.active
        /\ rec' = [rec EXCEPT !.wait = "stop"] /\ mic' = [mic EXCEPT !.cmds = Append(@, "stop")]
    BY <1>8, ReleaseFields
  <2>2. rec.wait = "none"
    BY <2>1 DEF Operating, Resting
  <2> QED
    BY <1>7, <2>1, <2>2
<1>9. CASE TestStop
  BY <1>7, <1>9 DEF TestStop, StopRecorder
<1>10. CASE Cancel \/ TestCancel
  <2>1. CASE UNCHANGED <<rec, mic>>
    BY <2>1 DEF Talking
  <2>2. CASE rec' = Idle /\ mic' = [mic EXCEPT !.cmds = Append(@, "cancel")]
    <3>1. mic'.cmds = Append(mic.cmds, "cancel")
      BY <2>2
    <3>2. "cancel" \in Cmds
      OBVIOUS
    <3>3. mic'.cmds # <<>> /\ mic'.cmds[Len(mic'.cmds)] = "cancel"
      BY SMTT(40), <3>1, <3>2, Lasting
    <3> QED
      BY <1>1, <2>2, <3>3 DEF Idle
  <2> QED
    BY <1>10, <2>1, <2>2, CancelFields DEF TestCancel, CancelRecorder
<1>11. CASE CaptureLost
  <2>1. rec' = Idle /\ mic' = [state |-> "off", cmds |-> <<>>, acks |-> <<>>]
    BY <1>11 DEF CaptureLost, Rejects
  <2> QED
    BY <1>1, <2>1 DEF Idle
<1>12. CASE CaptureError
  <2>1. /\ rec' = Idle /\ mic.acks # <<>> /\ Head(mic.acks) = "error"
        /\ mic'.state = mic.state /\ mic'.cmds = mic.cmds
    BY <1>12 DEF CaptureError, Rejects
  <2>2. CASE rec.active
    <3>1. mic.cmds = <<>> /\ mic.state = "off"
      BY <2>1, <2>2 DEF Talking
    <3> QED
      BY <1>1, <2>1, <3>1 DEF Idle
  <2>3. CASE ~rec.active
    BY <1>1, <2>1, <2>3 DEF Idle, Talking
  <2> QED
    BY <2>2, <2>3
<1>13. CASE Stopped
  <2>1. /\ mic.acks # <<>> /\ Head(mic.acks) = "stopped"
        /\ mic'.state = mic.state /\ mic'.cmds = mic.cmds
        /\ IF rec.wait # "stop" THEN rec' = rec ELSE rec' = Idle
    BY <1>13 DEF Stopped
  <2>2. CASE rec.active
    <3>1. mic.cmds = <<>> /\ mic.state = "off" /\ rec.wait = "stop"
      BY <2>1, <2>2 DEF Talking
    <3> QED
      BY <1>1, <2>1, <3>1 DEF Idle
  <2>3. CASE ~rec.active
    <3>1. rec.wait = "none"
      BY <2>3 DEF Talking
    <3> QED
      BY <1>1, <2>1, <2>3, <3>1 DEF Talking
  <2> QED
    BY <2>2, <2>3
<1>14. CASE Ready
  <2>1. mic.acks # <<>> /\ Head(mic.acks) = "ready"
    BY <1>14 DEF Ready
  <2>2. CASE rec.active
    <3>1. rec.wait = "open" /\ mic = [state |-> "on", cmds |-> <<>>, acks |-> <<"ready">>]
      BY <2>1, <2>2 DEF Talking
    <3>2. CASE ctl.step = "start" /\ ctl.ui # "recording"
      <4>1. /\ rec' = [rec EXCEPT !.wait = "stop"]
            /\ mic' = [mic EXCEPT !.acks = Tail(@), !.cmds = Append(@, "stop")]
        BY <1>14, <3>1, <3>2, ReadyFields
      <4>2. mic' = [state |-> "on", cmds |-> <<"stop">>, acks |-> <<>>]
        BY <3>1, <4>1
      <4>3. rec'.active /\ rec'.wait = "stop"
        BY <2>2, <4>1
      <4> QED
        BY <4>2, <4>3 DEF Talking
    <3>3. CASE ctl.step # "start" \/ ctl.ui = "recording"
      <4>1. rec' = [rec EXCEPT !.wait = "none"] /\ mic' = [mic EXCEPT !.acks = Tail(@)]
        BY <1>14, <3>1, <3>3, ReadyFields
      <4>2. mic' = [state |-> "on", cmds |-> <<>>, acks |-> <<>>]
        BY <3>1, <4>1
      <4>3. rec'.active /\ rec'.wait = "none"
        BY <2>2, <4>1
      <4> QED
        BY <4>2, <4>3 DEF Talking
    <3> QED
      BY <3>2, <3>3
  <2>3. CASE ~rec.active
    <3>1. rec.wait = "none"
      BY <2>3 DEF Talking
    <3>2. rec' = rec /\ mic' = [mic EXCEPT !.acks = Tail(@)]
      BY <1>14, <3>1, ReadyFields
    <3> QED
      BY <1>1, <2>3, <3>1, <3>2 DEF Talking
  <2> QED
    BY <2>2, <2>3
<1>15. CASE Loaded
  <2>1. /\ rec.wait = "load" /\ rec' = [rec EXCEPT !.wait = "open"]
        /\ mic' = [mic EXCEPT !.cmds = Append(@, "start")]
    BY <1>15 DEF Loaded
  <2>2. rec.active /\ mic = [state |-> "off", cmds |-> <<>>, acks |-> <<>>]
    BY <2>1 DEF Talking
  <2>3. mic' = [state |-> "off", cmds |-> <<"start">>, acks |-> <<>>] /\ rec'.active /\ rec'.wait = "open"
    BY <2>1, <2>2
  <2> QED
    BY <2>3 DEF Talking
<1>16. CASE Obey
  <2>1. mic.cmds # <<>> /\ rec' = rec
    BY <1>16 DEF Obey
  <2>2. CASE rec.active
    <3>1. \/ rec.wait = "open" /\ mic = [state |-> "off", cmds |-> <<"start">>, acks |-> <<>>]
          \/ rec.wait = "stop" /\ mic = [state |-> "on", cmds |-> <<"stop">>, acks |-> <<>>]
      BY <2>1, <2>2 DEF Talking
    <3>2. CASE rec.wait = "open" /\ mic = [state |-> "off", cmds |-> <<"start">>, acks |-> <<>>]
      <4>1. mic' = [state |-> "asking", cmds |-> <<>>, acks |-> <<>>]
        <5>1. Head(mic.cmds) = "start" /\ Tail(mic.cmds) = <<>> /\ mic.acks = <<>>
          BY <3>2
        <5> QED
          BY <1>16, <5>1, WindowFields
      <4> QED
        BY <2>1, <2>2, <3>2, <4>1 DEF Talking
    <3>3. CASE rec.wait = "stop" /\ mic = [state |-> "on", cmds |-> <<"stop">>, acks |-> <<>>]
      <4>1. mic' = [state |-> "off", cmds |-> <<>>, acks |-> <<"stopped">>]
        <5>1. Head(mic.cmds) = "stop" /\ Tail(mic.cmds) = <<>> /\ mic.state = "on" /\ mic.acks = <<>>
          BY <3>3
        <5> QED
          BY <1>16, <5>1, WindowFields
      <4> QED
        BY <2>1, <2>2, <3>3, <4>1 DEF Talking
    <3> QED
      BY <3>1, <3>2, <3>3
  <2>3. CASE ~rec.active
    <3>1. /\ mic'.cmds = Tail(mic.cmds)
          /\ mic'.state = IF Head(mic.cmds) = "start" THEN "asking"
                          ELSE IF Head(mic.cmds) = "cancel" \/ mic.state = "on" THEN "off" ELSE mic.state
      BY <1>16, WindowFields
    <3>2. mic.cmds[Len(mic.cmds)] = "cancel" /\ rec.wait = "none"
      BY <2>1, <2>3 DEF Talking
    <3>3. /\ Tail(mic.cmds) # <<>> => Tail(mic.cmds)[Len(Tail(mic.cmds))] = "cancel"
          /\ Tail(mic.cmds) = <<>> => Head(mic.cmds) = "cancel"
      BY <2>1, <3>2, Lasting
    <3> QED
      BY <1>1, <2>1, <2>3, <3>1, <3>2, <3>3
  <2> QED
    BY <2>2, <2>3
<1>17. CASE \E granted \in BOOLEAN : Open(granted)
  <2>1. PICK granted \in BOOLEAN : Open(granted)
    BY <1>17
  <2>2. /\ mic.state = "asking" /\ rec' = rec
        /\ mic' = IF granted THEN [mic EXCEPT !.state = "on", !.acks = Append(@, "ready")]
                  ELSE [mic EXCEPT !.state = "off", !.acks = Append(@, "error")]
    BY <2>1 DEF Open
  <2>3. CASE rec.active
    <3>1. rec.wait = "open" /\ mic = [state |-> "asking", cmds |-> <<>>, acks |-> <<>>]
      BY <2>2, <2>3 DEF Talking
    <3>2. mic' = IF granted THEN [state |-> "on", cmds |-> <<>>, acks |-> <<"ready">>]
                 ELSE [state |-> "off", cmds |-> <<>>, acks |-> <<"error">>]
      BY <2>1, <3>1, WindowFields
    <3> QED
      BY <2>2, <2>3, <3>1, <3>2 DEF Talking
  <2>4. CASE ~rec.active
    <3>1. mic'.cmds = mic.cmds
      BY <2>2
    <3> QED
      BY <1>1, <2>2, <2>4, <3>1 DEF Talking
  <2> QED
    BY <2>3, <2>4
<1>18. CASE SendTimesOut \/ (\E heard \in BOOLEAN : Transcribed(heard))
  BY <1>18, OperationFields DEF Talking
<1>19. CASE Pumped \/ SoundStarts \/ SoundEnds \/ SoundFails \/ PlayerLost \/ Deliver \/ Resumes
  BY <1>19, ListenFields, ResumesFields DEF Talking
<1> QED
  BY <1>2, <1>3, <1>4, <1>5, <1>6, <1>8, <1>9, <1>10, <1>11, <1>12, <1>13, <1>14, <1>15, <1>16, <1>17, <1>18, <1>19,
     ElsewhereFields

-----------------------------------------------------------------------------
(* What the backend says, and what it cannot have said.                    *)

\* The steps of the backend for turn t.
BackendStep(t) ==
    \/ Serve(t) \/ Push(t) \/ Synthesised(t) \/ SynthesisFails(t) \/ SynthesisEnds(t)
    \/ TurnEnds(t) \/ TurnFails(t) \/ Terminal(t) \/ CancelVoiceTurn(t) \/ CancelChat(t)

\* They append frames of that turn, and answer its text by one frame.
LEMMA Appended ==
  ASSUME Types, NEW t \in Turns, BackendStep(t)
  PROVE  \E added \in Seq(Frames) :
           /\ wire' = wire \o added /\ \A i \in 1..Len(added) : added[i].turn = t
           /\ Serve(t) => Len(added) = 1 /\ added[1].kind \in {"accepted", "refused"}
<1> DEFINE Of(f) == f \in Seq(Frames) /\ \A i \in 1..Len(f) : f[i].turn = t
<1>1. wire \in Seq(Frames)
  BY DEF Types
<1>2. \A kind \in {"accepted", "refused", "started", "finished"} :
         Frame(kind, t, 0) \in Frames /\ Frame(kind, t, 0).turn = t /\ Frame(kind, t, 0).kind = kind
  BY FrameTypes
<1>3. Of(<<>>) /\ \A f \in Frames : f.turn = t => Of(<<f>>)
  OBVIOUS
<1>4. Of(Announcement(t)) /\ Of(Farewell(t))
  BY <1>2, <1>3 DEF Announcement, Farewell
<1>5. Of(Announcement(t) \o Farewell(t))
  <2> DEFINE a == Announcement(t)
             b == Farewell(t)
  <2>1. Of(a) /\ Of(b)
    BY <1>4
  <2> HIDE DEF a, b
  <2>2. /\ a \o b \in Seq(Frames) /\ Len(a \o b) = Len(a) + Len(b)
        /\ \A i \in 1..Len(a) + Len(b) : (a \o b)[i] = IF i <= Len(a) THEN a[i] ELSE b[i - Len(a)]
    BY <2>1
  <2>3. ASSUME NEW i \in 1..Len(a \o b)
        PROVE  (a \o b)[i].turn = t
    BY <2>1, <2>2
  <2> QED
    BY <2>2, <2>3 DEF a, b
<1>6. ASSUME ~Serve(t), NEW f, Of(f), wire' = Emit(t, f)
      PROVE  \E added \in Seq(Frames) :
               /\ wire' = wire \o added /\ \A i \in 1..Len(added) : added[i].turn = t
               /\ Serve(t) => Len(added) = 1 /\ added[1].kind \in {"accepted", "refused"}
  <2>1. \E added \in Seq(Frames) : Emit(t, f) = wire \o added /\ added \in {<<>>, f}
    BY <1>6, EmitTypes
  <2> QED
    BY <1>3, <1>6, <2>1
<1>7. CASE Serve(t)
  <2>1. PICK kind \in {"accepted", "refused"} : wire' = Append(wire, Frame(kind, t, 0))
    BY <1>7 DEF Serve
  <2> DEFINE f == Frame(kind, t, 0)
  <2>2. f \in Frames /\ f.turn = t /\ f.kind = kind
    BY <1>2
  <2> HIDE DEF f
  <2>3. wire' = wire \o <<f>> /\ <<f>> \in Seq(Frames) /\ Len(<<f>>) = 1 /\ <<f>>[1] = f
    <3>1. Append(wire, f) = wire \o <<f>>
      BY <1>1, <2>2, AppendIsConcat
    <3>2. wire' = Append(wire, f)
      BY <2>1 DEF f
    <3> QED
      BY <2>2, <3>1, <3>2
  <2>4. \A i \in 1..Len(<<f>>) : <<f>>[i].turn = t
    BY <2>2, <2>3
  <2> QED
    BY <2>2, <2>3, <2>4
<1>8. ASSUME ~Serve(t), wire' = wire
      PROVE  \E added \in Seq(Frames) :
               /\ wire' = wire \o added /\ \A i \in 1..Len(added) : added[i].turn = t
               /\ Serve(t) => Len(added) = 1 /\ added[1].kind \in {"accepted", "refused"}
  <2>1. wire \o <<>> = wire /\ <<>> \in Seq(Frames)
    BY <1>1
  <2> QED
    BY <1>3, <1>8, <2>1
<1>9. ASSUME Left(t)
      PROVE  Of(<<Frame("audio", t, co[t].made + 1)>>)
  <2>1. Frame("audio", t, co[t].made + 1) \in Frames /\ Frame("audio", t, co[t].made + 1).turn = t
    BY <1>9, FrameTypes DEF Frame
  <2> QED
    BY <1>3, <2>1
<1> HIDE DEF Of
<1> QED
  BY <1>4, <1>5, <1>6, <1>7, <1>8, <1>9 DEF BackendStep, Push, Synthesised, SynthesisFails, SynthesisEnds,
     TurnEnds, TurnFails, Terminal, CancelVoiceTurn, CancelChat, net

\* A turn of which nothing was said stays so until its text is served.
LEMMA UntoldStep ==
  ASSUME Types, NEW t \in Turns, Untold(t), Next, ~Serve(t)
  PROVE  Untold(t)'
<1>1. wire \in Seq(Frames) /\ co \in [Turns -> Coordinators] /\ DOMAIN chat = Turns
  BY DEF Types
<1>2. CASE \E u \in Turns : BackendStep(u)
  <2>1. PICK u \in Turns : BackendStep(u)
    BY <1>2
  <2>2. chat'[t] = chat[t] /\ co'[t] = co[t] /\ (u = t => wire' = wire)
    <3>1. CASE u # t
      BY <1>1, <2>1, <3>1 DEF BackendStep, Serve, Push, Synthesised, SynthesisFails, SynthesisEnds,
         TurnEnds, TurnFails, Terminal, CancelVoiceTurn, CancelChat, Interrupted
    <3>2. CASE u = t
      <4>1. CancelVoiceTurn(t)
        BY <2>1, <3>2 DEF Untold, BackendStep, Push, Synthesised, SynthesisFails, SynthesisEnds,
           TurnEnds, TurnFails, Terminal, CancelChat
      <4>2. /\ chat' = [chat EXCEPT ![t] = chat[t]] /\ co' = [co EXCEPT ![t].state = co[t].state]
            /\ wire' = wire
        BY <4>1 DEF Untold, CancelVoiceTurn, Interrupted
      <4> QED
        BY <1>1, <3>2, <4>2 DEF Coordinators
    <3> QED
      BY <3>1, <3>2
  <2>3. \A i \in 1..Len(wire') : wire'[i].turn # t
    <3>1. PICK added \in Seq(Frames) : wire' = wire \o added /\ \A i \in 1..Len(added) : added[i].turn = u
      BY <2>1, Appended
    <3>2. CASE u = t
      BY <2>2, <3>2 DEF Untold
    <3>3. CASE u # t
      <4>1. /\ Len(wire') = Len(wire) + Len(added)
            /\ \A i \in 1..Len(wire) + Len(added) :
                 wire'[i] = IF i <= Len(wire) THEN wire[i] ELSE added[i - Len(wire)]
        BY <1>1, <3>1
      <4> QED
        BY <1>1, <3>1, <3>3, <4>1 DEF Untold
    <3> QED
      BY <3>2, <3>3
  <2> QED
    BY <2>2, <2>3 DEF Untold, Left
<1>3. CASE Deliver
  <2>1. chat' = chat /\ co' = co /\ wire # <<>> /\ wire' = Tail(wire)
    BY <1>3 DEF Deliver, backend
  <2>2. /\ Len(wire') = Len(wire) - 1
        /\ \A i \in 1..Len(wire) - 1 : i + 1 \in 1..Len(wire) /\ wire'[i] = wire[i + 1]
    BY <1>1, <2>1
  <2> QED
    BY <2>1, <2>2 DEF Untold, Left
<1>4. CASE ~Deliver /\ ~(\E u \in Turns : BackendStep(u))
  <2>1. UNCHANGED <<chat, co, wire>>
    BY <1>4 DEF BackendStep, Next, CaptureStep, TurnStep, StartPress, PointerMoved, Release, Cancel, PressElapsed,
       RecordingTimesOut, SendTimesOut, CaptureLost, TestStart, TestCancel, SoundFails, PlayerLost, Loaded, Obey,
       Open, Ready, Stopped, CaptureError, TestStop, Transcribed, Resumes, Pumped, SoundStarts, SoundEnds, backend, net
  <2> QED
    BY <2>1 DEF Untold, Left
<1> QED
  BY <1>2, <1>3, <1>4

\* A text is under way while the controller shows that it is.
LEMMA SendingStep ==
  ASSUME Types, Operating
  PROVE  ctl.ui = "sending" => ctl.step \in {"send", "accepted", "refused"}
<1>1. ctl.step \in Steps
  BY DEF Types, Ctls
<1> QED
  BY <1>1 DEF Operating, Steps, Capturing

\* While a turn is recorded or sent, no end of it is on the wire's head.
LEMMA NotFinished ==
  ASSUME Types, Operating, Selected, Ordered, wire # <<>>,
         ctl.step \in {"held", "stop", "asr", "send"},
         Head(wire).turn = ctl.turn
  PROVE  Head(wire).kind \in {"accepted", "refused"} /\ ctl.step = "send" /\ ctl.turn \notin sends
<1>1. wire \in Seq(Frames) /\ ctl.turn \in Turns
  <2>1. ctl.turn \in 0..MaxTurns
    BY DEF Types, Ctls
  <2>2. ctl.turn # 0
    BY DEF Selected, Speaking, Own, Over
  <2> QED
    BY <2>1, <2>2, Positive DEF Types, Turns
<1>2. Len(wire) >= 1 /\ 1 \in 1..Len(wire) /\ Head(wire) = wire[1]
  BY <1>1
<1>3. ~Untold(ctl.turn)
  BY <1>2 DEF Untold
<1>4. ctl.step = "send" /\ ctl.turn \notin sends
  BY <1>1, <1>3 DEF Ordered
<1>5. PICK j \in 1..Len(wire) :
        /\ wire[j].turn = ctl.turn /\ wire[j].kind \in {"accepted", "refused"}
        /\ \A i \in 1..j - 1 : wire[i].turn # ctl.turn
  BY <1>3, <1>4 DEF Ordered
<1>6. j = 1
  BY <1>1, <1>2, <1>5
<1> QED
  BY <1>2, <1>4, <1>5, <1>6

\* Controller and player stay with one turn.
LEMMA SelectedStep ==
  ASSUME Types, Operating, Pressing, Talking, Selected, Ordered, Next
  PROVE  Selected'
<1>1. ctl \in Ctls /\ pb \in Players /\ issued \in 0..MaxTurns /\ MaxTurns \in Nat
  BY Positive DEF Types
<1>2. ctl.ui = "sending" => ctl.step \in {"send", "accepted", "refused"}
  BY SendingStep
<1>3. CASE UNCHANGED <<ctl, rec, mic, test, pb, issued, held>>
  BY <1>3 DEF Selected, Speaking, Own, Over
<1>4. CASE StartPress \/ PointerMoved \/ PressElapsed
  BY <1>4, PressFields DEF Selected, Speaking, Own, Over, Operating, Replying, Capturing
<1>5. CASE Release \/ RecordingTimesOut
  <2>1. ctl.ui = "recording" /\ ctl.step # "start" /\ rec.active => ctl.step = "held"
    BY DEF Operating, Resting
  <2> QED
    BY <1>5, <2>1, ReleaseFields DEF Selected, Speaking, Own, Over, Replying
<1>6. CASE Cancel
  <2>1. /\ CancelTurn(pb, ctl.turn).queue = pb.queue /\ CancelTurn(pb, ctl.turn).active = pb.active
        \/ CancelTurn(pb, ctl.turn).queue = <<>>
    BY <1>1 DEF CancelTurn, Muted, Players
  <2>2. \A i \in 1..Len(pb'.queue) : pb'.queue[i].turn = pb'.active
    BY <1>6, <2>1, CancelFields DEF Selected
  <2>3. ~Speaking'
    BY <1>6, CancelFields DEF Speaking, Resettable, Replying
  <2> QED
    BY <1>1, <1>6, <2>2, <2>3, CancelFields DEF Selected
<1>7. CASE Stopped \/ CaptureError \/ CaptureLost
  BY <1>7, OperationFields DEF Selected, Speaking, Own, Over, Operating, Replying
<1>8. CASE SendTimesOut \/ (\E heard \in BOOLEAN : Transcribed(heard))
  BY <1>8, OperationFields DEF Selected, Speaking, Own, Over, Operating, Replying
<1>9. CASE Ready
  <2>1. CASE rec.wait = "open" /\ ctl.step = "start"
    <3>1. issued' = issued + 1 /\ ctl'.turn = issued + 1 /\ pb' = BeginTurn(pb, issued + 1)
      BY <1>9, <2>1, ReadyFields
    <3>2. pb'.active = issued + 1 /\ ~pb'.finished /\ ~pb'.drained /\ pb'.queue = <<>>
      BY <1>1, <3>1 DEF BeginTurn, Players
    <3> QED
      BY <1>1, <3>1, <3>2 DEF Selected, Own
  <2>2. CASE ~(rec.wait = "open" /\ ctl.step = "start")
    BY <1>9, <2>2, ReadyFields DEF Selected, Speaking, Own, Over
  <2> QED
    BY <2>1, <2>2
<1>10. CASE Loaded \/ Obey \/ (\E granted \in BOOLEAN : Open(granted)) \/ TestStart \/ TestStop \/ TestCancel
  BY <1>10 DEF Loaded, Obey, Open, TestStart, TestStop, TestCancel, desk, Selected, Speaking, Own, Over
<1>11. CASE Pumped \/ SoundStarts \/ SoundEnds \/ SoundFails \/ PlayerLost \/ Deliver
  <2>1. CASE Heeds
    <3>1. ctl.step \in {"held", "stop", "asr", "send"} => ~pb'.finished
      <4>1. ASSUME ctl.step \in {"held", "stop", "asr", "send"}, pb'.finished
            PROVE  FALSE
        <5>1. ~pb.finished
          BY <4>1 DEF Selected
        <5>2. wire # <<>> /\ Head(wire).kind = "finished" /\ Head(wire).turn = ctl.turn
          BY <2>1, <4>1, <5>1 DEF Heeds
        <5> QED
          BY <4>1, <5>2, NotFinished
      <4> QED
        BY <4>1
    <3>2. \A i \in 1..Len(pb'.queue) : pb'.queue[i].turn = pb'.active
      BY <2>1 DEF Heeds, Selected
    <3>3. issued' = issued /\ ctl'.turn \in {0, ctl.turn}
      BY <1>11, <2>1, ListenFields DEF Heeds
    <3>4. ASSUME Speaking'
          PROVE  (Own \/ Over)'
      <4>1. CASE ctl'.turn = ctl.turn /\ (pb.active = ctl.turn => pb'.drained = pb.drained)
        <5>1. Own \/ Over
          BY <2>1, <3>4 DEF Heeds, Speaking, Selected
        <5> QED
          BY <2>1, <4>1, <5>1 DEF Heeds, Own, Over
      <4>2. CASE ctl'.turn = 0 /\ ctl'.ui \notin Replying /\ pb'.finished /\ pb'.drained
        <5>1. ctl.ui = "sending" /\ ctl'.ui = "sending" /\ ctl'.step = ctl.step
          BY <2>1, <3>1, <3>4, <4>2 DEF Heeds, Speaking, Replying
        <5> QED
          BY <1>2, <3>1, <4>2, <5>1 DEF Over
      <4> QED
        BY <2>1, <4>1, <4>2 DEF Heeds
    <3> QED
      BY <1>1, <2>1, <3>1, <3>2, <3>3, <3>4 DEF Selected, Heeds
  <2>2. CASE ~Heeds
    <3>1. /\ pb' = pb /\ ctl.step = "send" /\ ctl'.step \in {"accepted", "refused"} /\ ctl'.turn = ctl.turn
          /\ ctl'.ui = ctl.ui /\ issued' = issued
      BY <1>11, <2>2, ListenFields
    <3> QED
      BY <3>1 DEF Selected, Speaking, Own, Over, Operating
  <2> QED
    BY <2>1, <2>2
<1>12. CASE Resumes
  <2>1. ctl.ui = "sending"
    BY <1>12, ResumesFields DEF Operating
  <2> QED
    BY <1>12, <2>1, ResumesFields DEF Selected, Speaking, Own, Over, Replying
<1> QED
  BY <1>3, <1>4, <1>5, <1>6, <1>7, <1>8, <1>9, <1>10, <1>11, <1>12, ElsewhereFields

\* How the steps touch the turns that are recorded or sent.
LEMMA SpeakingFields ==
  ASSUME Types, Operating, Pressing, Selected, Next
  PROVE  /\ issued' \in {issued, issued + 1}
         /\ ctl'.step \in {"held", "stop", "asr"} =>
              \/ ctl'.turn = issued + 1 /\ issued' = issued + 1
              \/ ctl'.turn = ctl.turn /\ ctl.step \in {"held", "stop", "asr"}
              \/ ctl'.turn = 0
         /\ ctl'.step = "send" =>
              \/ ctl'.turn = 0
              \/ ctl'.turn = ctl.turn /\ ctl.step = "asr" /\ sends' = sends \cup {ctl.turn} /\ wire' = wire
              \/ ctl'.turn = ctl.turn /\ ctl.step = "send" /\ sends' \subseteq sends
         /\ sends' \subseteq sends \/ (sends' = sends \cup {ctl.turn} /\ ctl.step = "asr" /\ ctl'.step = "send")
<1>1. sends' \subseteq sends \/ (\E heard \in BOOLEAN : Transcribed(heard))
  BY DEF Next, CaptureStep, TurnStep, StartPress, PointerMoved, Release, Cancel, PressElapsed, RecordingTimesOut,
     SendTimesOut, CaptureLost, TestStart, TestCancel, SoundFails, PlayerLost, Loaded, Obey, Open, Ready, Stopped,
     CaptureError, TestStop, Resumes, Pumped, SoundStarts, SoundEnds, Deliver, Serve, Push, Synthesised,
     SynthesisFails, SynthesisEnds, TurnEnds, TurnFails, Terminal, CancelVoiceTurn, CancelChat, net
<1>2. CASE \E heard \in BOOLEAN : Transcribed(heard)
  BY <1>2, OperationFields
<1>3. CASE SendTimesOut \/ Stopped \/ CaptureError \/ CaptureLost
  BY <1>1, <1>3, OperationFields
<1>4. CASE UNCHANGED <<ctl, rec, mic, test, pb, issued, held>>
  <2>1. sends' \subseteq sends \/ ctl'.step = "send"
    BY <1>1, OperationFields
  <2> QED
    BY <1>1, <1>2, <1>4
<1>5. CASE StartPress \/ PointerMoved \/ PressElapsed
  BY <1>1, <1>2, <1>5, PressFields
<1>6. CASE Release \/ RecordingTimesOut
  <2>1. ctl.ui = "recording" /\ ctl.step # "start" /\ rec.active => ctl.step = "held"
    BY DEF Operating, Resting
  <2> QED
    BY <1>1, <1>2, <1>6, <2>1, ReleaseFields
<1>7. CASE Cancel
  BY <1>1, <1>2, <1>7, CancelFields
<1>8. CASE Ready
  BY <1>1, <1>2, <1>8, ReadyFields
<1>9. CASE Loaded \/ Obey \/ (\E granted \in BOOLEAN : Open(granted)) \/ TestStart \/ TestStop \/ TestCancel
  <2>1. UNCHANGED <<ctl, issued>>
    BY <1>9 DEF Loaded, Obey, Open, TestStart, TestStop, TestCancel, desk
  <2> QED
    BY <1>1, <1>2, <2>1
<1>10. CASE Pumped \/ SoundStarts \/ SoundEnds \/ SoundFails \/ PlayerLost \/ Deliver
  <2>1. /\ issued' = issued /\ ctl'.turn \in {0, ctl.turn}
        /\ ctl'.step = ctl.step \/ (ctl.step = "send" /\ ctl'.step \in {"accepted", "refused"})
    BY <1>10, ListenFields DEF Heeds
  <2> QED
    BY <1>1, <1>2, <2>1
<1>11. CASE Resumes
  BY <1>1, <1>2, <1>11, ResumesFields
<1> QED
  BY <1>2, <1>3, <1>4, <1>5, <1>6, <1>7, <1>8, <1>9, <1>10, <1>11, ElsewhereFields

\* Text, answer and reply of a turn keep their order.
LEMMA OrderedStep ==
  ASSUME Types, Operating, Pressing, Talking, Selected, Ordered, Next
  PROVE  Ordered'
<1>1. /\ wire \in Seq(Frames) /\ issued \in 0..MaxTurns /\ MaxTurns \in Nat \ {0} /\ sends \subseteq Turns
      /\ ctl.turn \in 0..MaxTurns /\ Turns = 1..MaxTurns
  BY Positive DEF Types, Ctls, Turns
<1>2. \A t \in Turns : t \notin sends => ~Serve(t)
  BY DEF Serve
<1>3. ASSUME NEW t \in Turns, t > issued' \/ (t = ctl'.turn /\ ctl'.step \in {"held", "stop", "asr"})
      PROVE  t \notin sends' /\ Untold(t)'
  <2>1. t > issued \/ (t = ctl.turn /\ ctl.step \in {"held", "stop", "asr"})
    BY <1>1, <1>3, SpeakingFields
  <2>2. t \notin sends /\ Untold(t)
    BY <2>1 DEF Ordered
  <2>3. Untold(t)'
    BY <1>2, <2>2, UntoldStep
  <2>4. t \notin sends'
    <3>1. CASE sends' \subseteq sends
      BY <2>2, <3>1
    <3>2. CASE sends' = sends \cup {ctl.turn} /\ ctl.step = "asr" /\ ctl'.step = "send"
      <4>1. t > issued'
        BY <1>3, <3>2
      <4>2. ctl.turn <= issued /\ issued' \in {issued, issued + 1}
        BY SpeakingFields DEF Selected
      <4> QED
        BY <1>1, <2>2, <3>2, <4>1, <4>2
    <3> QED
      BY <3>1, <3>2, SpeakingFields
  <2> QED
    BY <2>3, <2>4
<1> DEFINE Served == \E j \in 1..Len(wire) :
                        /\ wire[j].turn = ctl.turn /\ wire[j].kind \in {"accepted", "refused"}
                        /\ \A i \in 1..j - 1 : wire[i].turn # ctl.turn
<1>4. ASSUME ctl'.step = "send"
      PROVE  (ctl.turn \in sends /\ Untold(ctl.turn))' \/ (ctl.turn \notin sends /\ Served)'
  <2>1. Operating' /\ Selected'
    BY OperatingStep, SelectedStep
  <2>2. ctl'.turn # 0
    BY <1>4, <2>1 DEF Selected, Speaking, Own, Over
  <2>3. /\ ctl'.turn = ctl.turn
        /\ \/ ctl.step = "asr" /\ sends' = sends \cup {ctl.turn} /\ wire' = wire
           \/ ctl.step = "send" /\ sends' \subseteq sends
    BY <1>4, <2>2, SpeakingFields
  <2> DEFINE t == ctl.turn
  <2>4. t \in Turns
    BY <1>1, <2>2, <2>3
  <2>5. ASSUME t \in sends', Untold(t), ~Serve(t)
        PROVE  (ctl.turn \in sends /\ Untold(ctl.turn))'
    <3> HIDE DEF t
    <3>1. \A u \in Turns : u = t => Untold(u)'
      BY <2>5, UntoldStep
    <3>2. ctl'.turn = t /\ t \in Turns
      BY <2>3, <2>4 DEF t
    <3> QED
      BY <2>5, <3>1, <3>2 DEF Untold, Left
  <2>6. CASE ctl.step = "asr"
    <3>1. t \notin sends /\ Untold(t) /\ t \in sends'
      BY <2>3, <2>4, <2>6 DEF Ordered
    <3> QED
      BY <1>2, <2>4, <2>5, <3>1
  <2>7. CASE ctl.step = "send" /\ t \in sends /\ Untold(t) /\ ~Serve(t)
    <3>1. t \in sends'
      BY ZenonT(60), <2>4, <2>7 DEF Next, CaptureStep, TurnStep, StartPress, PointerMoved, Release, Cancel, PressElapsed,
         RecordingTimesOut, SendTimesOut, CaptureLost, TestStart, TestCancel, SoundFails, PlayerLost, Loaded, Obey,
         Open, Ready, Stopped, CaptureError, TestStop, Resumes, Pumped, SoundStarts, SoundEnds, Deliver, Serve, Push,
         Synthesised, SynthesisFails, SynthesisEnds, TurnEnds, TurnFails, Terminal, CancelVoiceTurn, CancelChat, Transcribed, net
    <3> QED
      BY <2>5, <2>7, <3>1
  <2>8. CASE t \in sends /\ Untold(t) /\ Serve(t)
    <3>1. t \notin sends'
      BY <2>8 DEF Serve
    <3>2. PICK added \in Seq(Frames) :
             /\ wire' = wire \o added /\ \A i \in 1..Len(added) : added[i].turn = t
             /\ Serve(t) => Len(added) = 1 /\ added[1].kind \in {"accepted", "refused"}
      BY <2>4, <2>8, Appended DEF BackendStep
    <3> DEFINE j == Len(wire) + 1
    <3>3. /\ Len(wire') = j /\ j \in 1..j /\ wire'[j] = added[1] /\ added[1].turn = t
          /\ \A i \in 1..j - 1 : wire'[i] = wire[i] /\ i \in 1..Len(wire)
      <4>1. Len(added) = 1 /\ added[1].turn = t
        <5>1. Len(added) = 1
          BY <2>8, <3>2
        <5>2. 1 \in 1..Len(added)
          BY <5>1
        <5> QED
          BY <3>2, <5>1, <5>2
      <4>2. Len(wire) \in Nat
        BY <1>1
      <4>3. /\ Len(wire') = Len(wire) + Len(added)
            /\ \A i \in 1..Len(wire) + Len(added) :
                 wire'[i] = IF i <= Len(wire) THEN wire[i] ELSE added[i - Len(wire)]
        BY <1>1, <3>2
      <4> HIDE DEF t
      <4> QED
        BY <4>1, <4>2, <4>3
    <3>4. \A i \in 1..j - 1 : wire'[i].turn # t
      BY <2>8, <3>3 DEF Untold
    <3> QED
      BY <2>3, <2>8, <3>1, <3>2, <3>3, <3>4
  <2>9. CASE ctl.step = "send" /\ t \notin sends
    <3>1. PICK j \in 1..Len(wire) :
             /\ wire[j].turn = t /\ wire[j].kind \in {"accepted", "refused"}
             /\ \A i \in 1..j - 1 : wire[i].turn # t
      BY <2>9 DEF Ordered
    <3>2. t \notin sends' /\ ctl'.turn = t
      BY <2>3, <2>9
    <3>3. CASE Deliver
      <4>1. wire # <<>> /\ wire' = Tail(wire)
        BY <3>3 DEF Deliver
      <4>2. j # 1
        <5>1. ASSUME j = 1
              PROVE  FALSE
          <6>1. Head(wire).turn = ctl.turn /\ Head(wire).kind \in {"accepted", "refused"}
            BY <1>1, <3>1, <4>1, <5>1
          <6> QED
            BY <1>4, <2>9, <3>3, <6>1, AnsweredSteps
        <5> QED
          BY <5>1
      <4>3. /\ Len(wire') = Len(wire) - 1 /\ j - 1 \in 1..Len(wire')
            /\ \A i \in 1..Len(wire) - 1 : wire'[i] = wire[i + 1]
        BY <1>1, <3>1, <4>1, <4>2
      <4>4. wire'[j - 1] = wire[j] /\ \A i \in 1..(j - 1) - 1 : wire'[i].turn # t
        <5>1. j \in Nat /\ Len(wire) \in Nat /\ j - 1 \in 1..Len(wire) - 1 /\ (j - 1) + 1 = j
          BY <1>1, <3>1, <4>2
        <5>2. wire'[j - 1] = wire[j]
          BY <4>3, <5>1
        <5>3. ASSUME NEW i \in 1..(j - 1) - 1
              PROVE  wire'[i].turn # t
          <6>1. i \in 1..Len(wire) - 1 /\ i + 1 \in 1..j - 1
            BY <5>1
          <6> QED
            BY <3>1, <4>3, <6>1
        <5> QED
          BY <5>2, <5>3
      <4> QED
        BY <3>1, <3>2, <4>3, <4>4
    <3>4. CASE \E added \in Seq(Frames) : wire' = wire \o added
      <4>1. PICK added \in Seq(Frames) : wire' = wire \o added
        BY <3>4
      <4>2. /\ j \in 1..Len(wire') /\ wire'[j] = wire[j]
            /\ \A i \in 1..j - 1 : wire'[i] = wire[i]
        BY <1>1, <3>1, <4>1
      <4> QED
        BY <3>1, <3>2, <4>2
    <3>5. CASE wire' = wire
      BY <3>1, <3>2, <3>5
    <3>6. wire' = wire \/ Deliver \/ \E u \in Turns : BackendStep(u)
      BY DEF BackendStep, Next, CaptureStep, TurnStep, StartPress, PointerMoved, Release, Cancel, PressElapsed,
         RecordingTimesOut, SendTimesOut, CaptureLost, TestStart, TestCancel, SoundFails, PlayerLost, Loaded, Obey,
         Open, Ready, Stopped, CaptureError, TestStop, Transcribed, Resumes, Pumped, SoundStarts, SoundEnds, net
    <3> QED
      BY <3>3, <3>4, <3>5, <3>6, Appended
  <2> QED
    BY <2>3, <2>6, <2>7, <2>8, <2>9 DEF Ordered
<1> QED
  BY <1>3, <1>4 DEF Ordered

-----------------------------------------------------------------------------
(* The theorems.                                                           *)

\* Every step keeps the invariant.
LEMMA StepInv == IInv /\ [Next]_vars => IInv'
<1> SUFFICES ASSUME IInv, [Next]_vars
             PROVE  IInv'
  OBVIOUS
<1>1. Types /\ Operating /\ Pressing /\ Talking /\ Selected /\ Ordered
  BY DEF IInv
<1>2. CASE Next
  BY <1>1, <1>2, TypesStep, OperatingStep, PressingStep, TalkingStep, SelectedStep, OrderedStep DEF IInv
<1>3. CASE UNCHANGED vars
  BY <1>1, <1>3 DEF IInv, vars, Types, Operating, Pressing, Talking, Selected, Speaking, Own, Over, Ordered,
     Untold, Left
<1> QED
  BY <1>2, <1>3

\* The invariant holds in every reachable state.
THEOREM Inductive == Spec => []IInv
<1> QED
  BY InitInv, StepInv, PTL DEF Spec

\* The state of a spoken turn keeps its types.
THEOREM TypeCorrect == Spec => []TypeOK
<1>1. IInv => TypeOK
  <2> SUFFICES ASSUME Types
               PROVE  TypeOK
    BY DEF IInv
  <2>1. /\ mic.state \in {"off", "asking", "on"}
        /\ \A i \in DOMAIN mic.cmds : mic.cmds[i] \in {"start", "stop", "cancel"}
        /\ \A i \in DOMAIN mic.acks : mic.acks[i] \in {"ready", "stopped", "error"}
    BY DEF Types, Mics
  <2>2. /\ pb.active \in 0..MaxTurns /\ pb.finished \in BOOLEAN /\ pb.drained \in BOOLEAN
        /\ pb.pumping \in BOOLEAN /\ pb.playing \in BOOLEAN
        /\ pb.current \in {Silent} \cup [turn : Turns, n : 1..MaxSentences]
        /\ \A i \in DOMAIN pb.queue : pb.queue[i] \in [turn : Turns, n : 1..MaxSentences]
    <3>1. pb.queue \in Seq(Sentences)
      BY DEF Types, Players
    <3>2. \A i \in DOMAIN pb.queue : pb.queue[i] \in [turn : Turns, n : 1..MaxSentences]
      <4>1. \A i \in DOMAIN pb.queue : pb.queue[i] \in Sentences
        BY <3>1
      <4> QED
        BY <4>1 DEF Sentences
    <3> QED
      BY <3>2 DEF Types, Players, Sentences
  <2>3. \A f \in Frames : f \in [kind : {"accepted", "refused", "started", "audio", "finished"},
                                 turn : Turns, n : 0..MaxSentences]
    BY Positive DEF Frames
  <2>4. \A i \in DOMAIN wire : wire[i] \in Frames
    BY DEF Types
  <2> QED
    BY <2>1, <2>2, <2>3, <2>4 DEF Types, TypeOK, Ctls, Recs, Coordinators, Steps
<1> QED
  BY <1>1, Inductive, PTL

\* An open microphone belongs to a capture the recorder knows or has told to
\* close, and a capture the recorder knows belongs to a press or to the test.
THEOREM MicrophoneFreeCorrect == Spec => []MicrophoneFree
<1>1. IInv => MicrophoneFree
  <2> SUFFICES ASSUME Types, Operating, Talking
               PROVE  MicrophoneFree
    BY DEF IInv
  <2>1. mic.cmds \in Seq({"start", "stop", "cancel"}) /\ rec.active \in BOOLEAN
    BY MicFields
  <2>2. mic.state # "off" /\ ~rec.active => Len(mic.cmds) \in DOMAIN mic.cmds /\ mic.cmds[Len(mic.cmds)] = "cancel"
    BY <2>1, EmptySeq DEF Talking
  <2>3. rec.active => \/ ctl.step \in {"start", "held", "stop"} /\ ctl.ui \in {"recording", "transcribing"}
                      \/ test # "off"
    BY DEF Operating, Capturing
  <2> QED
    BY <2>1, <2>2, <2>3 DEF MicrophoneFree
<1> QED
  BY <1>1, Inductive, PTL

\* While a text is answered, controller and player are at the same turn, or
\* that turn was over before its acceptance was noticed and the player has
\* nothing left to say; nothing of an earlier turn is queued.
THEOREM OwnTurnCorrect == Spec => []OwnTurn
<1>1. IInv => OwnTurn
  BY DEF IInv, Selected, Speaking, Own, Over, OwnTurn, Types, Players
<1> QED
  BY <1>1, Inductive, PTL

=============================================================================
