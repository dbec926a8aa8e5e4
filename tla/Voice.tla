-------------------------------- MODULE Voice --------------------------------
(***************************************************************************)
(* A spoken turn of the desktop pet, end to end: the controller, recorder  *)
(* and playback queue of Electron's main process (apps/desktop/src/voice), *)
(* the hidden window that owns the microphone                              *)
(* (renderer/src/voice/captureController.ts), and the chat turn with its   *)
(* speech synthesis in the backend (desktop_bridge/chat_service.py,        *)
(* voice/tts_coordinator.py).                                              *)
(*                                                                         *)
(* One input source presses and releases. A sentence is its turn and its   *)
(* number; recordings, texts and audio have no content.                    *)
(***************************************************************************)
EXTENDS Naturals, Sequences, SequencesExt

CONSTANTS
    MaxTurns,       \* voice turns that are given an id
    MaxSentences,   \* sentences of one reply
    FaultSets       \* which disturbances may come together

Turns == 1..MaxTurns

Disturbances == {"escape", "late", "stop", "test", "timeout", "window"}

ASSUME VoiceBounds ==
    /\ MaxTurns \in Nat \ {0} /\ MaxSentences \in Nat \ {0}
    /\ FaultSets # {} /\ FaultSets \subseteq SUBSET Disturbances
    \* The end of a test whose window was lost is not modelled.
    /\ \A mix \in FaultSets : ~({"test", "window"} \subseteq mix)

VARIABLES
    faults,   \* what may disturb this behaviour
    voiced,   \* the role has a voice of the configured provider
    held,     \* the user holds the key or the pet
    ctl,      \* DesktopVoiceController; step: its running operation
    issued,   \* turn ids given out
    rec,      \* BrowserVoiceRecorder: captureActive, the promise awaited
    mic,      \* the capture window: microphone, commands to it, its answers
    test,     \* the settings page's microphone test
    pb,       \* BrowserVoicePlayback
    chat,     \* the chat turn of each voice turn
    co,       \* its TtsTurnCoordinator
    wire,     \* frames from the backend to Electron, in order
    sends,    \* chat.send requests not served
    cancels   \* voice.turn.cancel requests not served

desk == <<held, ctl, issued>>
capture == <<rec, mic, test>>
backend == <<chat, co>>
net == <<wire, sends, cancels>>
fixed == <<faults, voiced>>
vars == <<faults, voiced, held, ctl, issued, rec, mic, test, pb, chat, co, wire, sends, cancels>>

Silent == [turn |-> 0, n |-> 0]

Init ==
    /\ faults \in FaultSets /\ voiced \in BOOLEAN
    /\ held = FALSE /\ issued = 0
    /\ ctl = [ui |-> "idle", said |-> 0, turn |-> 0, timer |-> FALSE, pending |-> FALSE,
              owner |-> FALSE, step |-> "none"]
    /\ rec = [active |-> FALSE, wait |-> "none"]
    /\ mic = [state |-> "off", cmds |-> <<>>, acks |-> <<>>]
    /\ test = "off"
    /\ pb = [active |-> 0, finished |-> FALSE, drained |-> FALSE, queue |-> <<>>,
             current |-> Silent, playing |-> FALSE, pumping |-> FALSE]
    /\ chat = [t \in Turns |-> "none"]
    /\ co = [t \in Turns |-> [state |-> "open", pushed |-> 0, made |-> 0, told |-> FALSE, done |-> FALSE]]
    /\ wire = <<>> /\ sends = {} /\ cancels = {}

-----------------------------------------------------------------------------
(* The controller's states and its helpers.                                *)

\* States a new press may interrupt once it has lasted.
Replying == {"waiting_reply", "speaking_prepare", "speaking"}
\* States in which no voice task runs (isVoiceInteractionBusy).
Resting == {"idle", "dragging", "error"}
\* Mutant: cancel() forgets that a released recording may still be starting.
CapturingHeld == {"recording"}
\* States in which cancel() tells the recorder.
Capturing == {"recording", "transcribing"}
\* States whose transition table knows the event "reset".
Resettable == {"dragging", "transcribing", "sending", "error"} \cup Replying

\* The answer to chat.send has been read: the operation goes on when every
\* line of that chunk of output is handled, before any other event.
Settling == ctl.step \in {"accepted", "refused"}

\* A new press is admitted: the recorder is not busy.
Enabled == ~rec.active

To(c, ui) == [c EXCEPT !.ui = ui, !.said = 0]
Failed(c) == [To(c, "error") EXCEPT !.step = "none"]

-----------------------------------------------------------------------------
(* The playback queue.                                                     *)

\* Mutant: the sentences of the retired turn stay in the queue.
BeginTurnKeeps(p, t) ==
    [p EXCEPT !.active = t, !.finished = FALSE, !.drained = FALSE]

\* Selects the only turn whose audio may enter; older sentences are dropped,
\* the one that plays is not.
BeginTurn(p, t) ==
    [p EXCEPT !.active = t, !.finished = FALSE, !.drained = FALSE, !.queue = <<>>]

Muted(p) == [p EXCEPT !.current = Silent, !.playing = FALSE]

\* Drops everything that belongs to a retired turn.
CancelTurn(p, t) ==
    IF t # 0 /\ t \in {p.active, p.current.turn}
    THEN [Muted(p) EXCEPT !.active = 0, !.finished = FALSE, !.drained = FALSE, !.queue = <<>>]
    ELSE p

\* Mutant: a turn whose last sentence has already played never drains.
DrainsPlaying(p) ==
    /\ p.active # 0 /\ p.finished /\ ~p.drained /\ p.queue = <<>>
    /\ p.current.turn # 0 /\ p.current.turn # p.active

\* The active turn has nothing left to play.
Drains(p) ==
    /\ p.active # 0 /\ p.finished /\ ~p.drained /\ p.queue = <<>>
    /\ p.current.turn # p.active

Drained(p) == IF Drains(p) THEN [p EXCEPT !.drained = TRUE] ELSE p

\* The controller hears that its turn has drained: replyFinished.
Heard(c, p) ==
    IF Drains(p) /\ p.active = c.turn
    THEN [(IF c.ui \in Replying THEN To(c, "idle") ELSE c) EXCEPT !.turn = 0]
    ELSE c

Pump(p) == [p EXCEPT !.pumping = p.pumping \/ (p.current = Silent /\ p.queue # <<>>)]

-----------------------------------------------------------------------------
(* The recorder. Its promise belongs to the controller's operation while   *)
(* that starts, records or stops, and to the microphone test otherwise.    *)

Idle == [active |-> FALSE, wait |-> "none"]

\* Bound on the commands under way when the user cancels.
Room == Len(mic.cmds) < 2

\* An IPC message takes less time than the threshold of a press.
Quiet == mic.cmds = <<>> /\ mic.acks = <<>>

StartRecorder == rec' = [active |-> TRUE, wait |-> "load"]

StopRecorder ==
    /\ rec' = [rec EXCEPT !.wait = "stop"]
    /\ mic' = [mic EXCEPT !.cmds = Append(@, "stop")]

CancelRecorder ==
    /\ rec' = Idle
    /\ mic' = [mic EXCEPT !.cmds = Append(@, "cancel")]

\* A released recording is fetched; a recorder that lost its capture throws.
Fetch(c) ==
    IF rec.active
    THEN StopRecorder /\ ctl' = [c EXCEPT !.step = "stop"]
    ELSE ctl' = Failed(c) /\ UNCHANGED <<rec, mic>>

\* The promise is rejected: the operation that awaits it fails.
Rejects ==
    /\ rec' = Idle
    /\ ctl' = IF ctl.step \in {"start", "stop"} THEN Failed(ctl) ELSE ctl
    /\ test' = "off"

\* The hidden window is loaded: the command to open the microphone is sent.
Loaded ==
    /\ rec.wait = "load"
    /\ rec' = [rec EXCEPT !.wait = "open"]
    /\ mic' = [mic EXCEPT !.cmds = Append(@, "start")]
    /\ UNCHANGED <<fixed, desk, test, pb, backend, net>>

\* The capture window cannot be loaded, crashes or is closed.
CaptureLost ==
    /\ "window" \in faults /\ rec.active
    /\ mic' = [state |-> "off", cmds |-> <<>>, acks |-> <<>>]
    /\ Rejects
    /\ UNCHANGED <<fixed, held, issued, pb, backend, net>>

\* The capture window takes the next command.
Obey ==
    /\ mic.cmds # <<>>
    /\ LET next == [mic EXCEPT !.cmds = Tail(@)] IN
       mic' = CASE Head(mic.cmds) = "start"  -> [next EXCEPT !.state = "asking"]
                [] Head(mic.cmds) = "cancel" -> [next EXCEPT !.state = "off"]
                [] Head(mic.cmds) = "stop" /\ mic.state = "on" ->
                     [next EXCEPT !.state = "off", !.acks = Append(@, "stopped")]
                [] OTHER                     -> [next EXCEPT !.acks = Append(@, "error")]
    /\ UNCHANGED <<fixed, desk, rec, test, pb, backend, net>>

\* The operating system grants the microphone, or there is none.
Open(granted) ==
    /\ mic.state = "asking"
    /\ mic' = IF granted THEN [mic EXCEPT !.state = "on", !.acks = Append(@, "ready")]
              ELSE [mic EXCEPT !.state = "off", !.acks = Append(@, "error")]
    /\ UNCHANGED <<fixed, desk, rec, test, pb, backend, net>>

\* The microphone is open: a current recording gets its turn id, playback
\* selects the turn, the previous turn is cancelled at the backend, and a
\* recording that was released meanwhile is fetched.
Recording(next) ==
    LET c == [ctl EXCEPT !.turn = next, !.step = "held"] IN
    /\ issued' = next /\ pb' = BeginTurn(pb, next)
    /\ cancels' = cancels \cup ({ctl.turn} \ {0})
    /\ IF ctl.ui = "recording"
       THEN /\ ctl' = c /\ rec' = [rec EXCEPT !.wait = "none"]
            /\ mic' = [mic EXCEPT !.acks = Tail(@)]
       ELSE /\ ctl' = [c EXCEPT !.step = "stop"] /\ rec' = [rec EXCEPT !.wait = "stop"]
            /\ mic' = [mic EXCEPT !.acks = Tail(@), !.cmds = Append(@, "stop")]

Ready ==
    /\ mic.acks # <<>> /\ Head(mic.acks) = "ready"
    /\ IF rec.wait = "open" /\ ctl.step = "start" THEN Recording(issued + 1)
       ELSE /\ rec' = IF rec.wait = "open" THEN [rec EXCEPT !.wait = "none"] ELSE rec
            /\ mic' = [mic EXCEPT !.acks = Tail(@)]
            /\ UNCHANGED <<ctl, issued, pb, cancels>>
    /\ UNCHANGED <<fixed, held, test, backend, wire, sends>>

\* The samples arrived: they go to the transcription, or the test ends.
Stopped ==
    /\ mic.acks # <<>> /\ Head(mic.acks) = "stopped"
    /\ mic' = [mic EXCEPT !.acks = Tail(@)]
    /\ IF rec.wait # "stop" THEN UNCHANGED <<rec, ctl, test>>
       ELSE /\ rec' = Idle
            /\ ctl' = IF ctl.step = "stop" THEN [ctl EXCEPT !.step = "asr"] ELSE ctl
            /\ test' = "off"
    /\ UNCHANGED <<fixed, held, issued, pb, backend, net>>

CaptureError ==
    /\ mic.acks # <<>> /\ Head(mic.acks) = "error"
    /\ mic' = [mic EXCEPT !.acks = Tail(@)]
    /\ Rejects
    /\ UNCHANGED <<fixed, held, issued, pb, backend, net>>

\* The settings page tests the microphone while no voice task runs, and
\* stops the test once it records, or leaves.
TestStart ==
    /\ "test" \in faults /\ test = "off" /\ ctl.ui \in Resting /\ ~rec.active /\ Quiet
    /\ test' = "on" /\ StartRecorder
    /\ UNCHANGED <<fixed, desk, mic, pb, backend, net>>

TestStop ==
    /\ test = "on" /\ rec.wait = "none" /\ rec.active
    /\ test' = "stopping" /\ StopRecorder
    /\ UNCHANGED <<fixed, desk, pb, backend, net>>

TestCancel ==
    /\ test = "on"
    /\ test' = "off" /\ CancelRecorder
    /\ UNCHANGED <<fixed, desk, pb, backend, net>>

-----------------------------------------------------------------------------
(* The user and the controller.                                            *)

\* A press waits for the threshold; over a reply it waits beside it.
StartPress ==
    /\ ~held /\ Enabled /\ issued < MaxTurns
    /\ held' = TRUE
    /\ \/ /\ ctl.ui \in Replying /\ ~ctl.pending
          /\ ctl' = [ctl EXCEPT !.pending = TRUE, !.timer = TRUE, !.owner = TRUE]
       \/ /\ ctl.ui \in {"idle", "error"}
          /\ ctl' = [ctl EXCEPT !.ui = "press_pending", !.timer = TRUE, !.owner = TRUE]
    /\ UNCHANGED <<fixed, issued, capture, pb, backend, net>>

\* The threshold has passed: recording begins, over a reply as well.
PressElapsed ==
    /\ ctl.timer /\ Quiet
    /\ LET due == [ctl EXCEPT !.timer = FALSE, !.pending = FALSE] IN
       IF Enabled /\ (ctl.pending \/ ctl.ui = "press_pending")
       THEN ctl' = [To(due, "recording") EXCEPT !.step = "start"] /\ StartRecorder
       ELSE ctl' = due /\ UNCHANGED rec
    /\ UNCHANGED <<fixed, held, issued, mic, test, pb, backend, net>>

Unpressed(c) == [c EXCEPT !.timer = FALSE, !.pending = FALSE, !.owner = FALSE]

\* The pointer moved: a pending press becomes a drag.
PointerMoved ==
    /\ held /\ ctl.owner
    /\ \/ ctl.pending /\ ctl' = Unpressed(ctl)
       \/ /\ ~ctl.pending /\ ctl.ui = "press_pending"
          /\ ctl' = [ctl EXCEPT !.ui = "dragging", !.timer = FALSE]
    /\ UNCHANGED <<fixed, held, issued, capture, pb, backend, net>>

\* A recording is over: its start is awaited first.
Finish(c) ==
    IF ctl.step = "start" THEN ctl' = To(c, "transcribing") /\ UNCHANGED <<rec, mic>>
    ELSE Fetch(To(c, "transcribing"))

Release ==
    /\ ~Settling /\ held /\ held' = FALSE
    /\ IF ctl.owner /\ ~ctl.pending /\ ctl.ui = "recording" THEN Finish(Unpressed(ctl))
       ELSE /\ ctl' = IF ~ctl.owner THEN ctl
                      ELSE IF ~ctl.pending /\ ctl.ui \in {"press_pending", "dragging"}
                      THEN To(Unpressed(ctl), "idle")
                      ELSE IF ctl.pending THEN Unpressed(ctl) ELSE ctl
            /\ UNCHANGED <<rec, mic>>
    /\ UNCHANGED <<fixed, issued, test, pb, backend, net>>

\* A recording is cut off after a minute.
RecordingTimesOut ==
    /\ ctl.ui = "recording" /\ ctl.step \in {"start", "held"}
    /\ Finish(ctl)
    /\ UNCHANGED <<fixed, held, issued, test, pb, backend, net>>

\* Escape, or the pet is gone: everything is given up, the reply included.
Cancel ==
    /\ "escape" \in faults /\ Room /\ ~Settling
    /\ IF ctl.ui \in Capturing THEN CancelRecorder ELSE UNCHANGED <<rec, mic>>
    /\ pb' = CancelTurn(pb, ctl.turn)
    /\ cancels' = cancels \cup ({ctl.turn} \ {0})
    /\ LET c == [Unpressed(ctl) EXCEPT !.turn = 0, !.step = "none"] IN
       ctl' = IF ctl.ui \in Resettable THEN To(c, "idle") ELSE c
    /\ UNCHANGED <<fixed, held, issued, test, backend, wire, sends>>

\* voice.transcribe answers: a text is sent to the chat under its turn.
Transcribed(heard) ==
    /\ ctl.step = "asr"
    /\ IF heard
       THEN /\ ctl' = [To(ctl, "sending") EXCEPT !.step = "send"]
            /\ sends' = sends \cup {ctl.turn}
       ELSE ctl' = Failed(ctl) /\ UNCHANGED sends
    /\ UNCHANGED <<fixed, held, issued, capture, pb, backend, wire, cancels>>

\* chat.send gets no answer in time; the backend may still serve it.
SendTimesOut ==
    /\ "timeout" \in faults /\ ctl.step = "send"
    /\ ctl' = Failed(ctl)
    /\ UNCHANGED <<fixed, held, issued, capture, pb, backend, net>>

-----------------------------------------------------------------------------
(* The backend: chat.send starts the chat turn, whose streamed sentences   *)
(* are synthesised one after the other by its coordinator.                 *)

Frame(kind, t, n) == [kind |-> kind, turn |-> t, n |-> n]

\* Sentences wait in the coordinator's queue.
Left(t) == co[t].made < co[t].pushed

\* Frames the chat turn's emitter lets through: after the first terminal
\* event every later one is kept back, and nobody sends it.
Emit(t, frames) == IF chat[t] = "closed" THEN wire ELSE wire \o frames

\* voice.reply.started, once.
Announcement(t) == IF co[t].told THEN <<>> ELSE <<Frame("started", t, 0)>>

\* voice.tts.finished, once.
Farewell(t) == IF co[t].done THEN <<>> ELSE <<Frame("finished", t, 0)>>

\* chat.send: the session is busy until its turn has published everything.
Serve(t) ==
    /\ t \in sends /\ sends' = sends \ {t}
    /\ IF \E u \in Turns : chat[u] \in {"running", "cancelling", "replied"}
       THEN wire' = Append(wire, Frame("refused", t, 0)) /\ UNCHANGED chat
       ELSE /\ wire' = Append(wire, Frame("accepted", t, 0))
            /\ chat' = [chat EXCEPT ![t] = "running"]
    /\ UNCHANGED <<fixed, desk, capture, pb, co, cancels>>

\* The reply streams one more sentence.
Push(t) ==
    /\ chat[t] = "running" /\ voiced /\ co[t].state = "open" /\ co[t].pushed < MaxSentences
    /\ co' = [co EXCEPT ![t].pushed = @ + 1, ![t].told = TRUE]
    /\ wire' = Emit(t, Announcement(t))
    /\ UNCHANGED <<fixed, desk, capture, pb, chat, sends, cancels>>

\* The worker's next sentence is synthesised.
Synthesised(t) ==
    /\ co[t].state \in {"open", "finish"} /\ Left(t)
    /\ co' = [co EXCEPT ![t].made = @ + 1]
    /\ wire' = Emit(t, <<Frame("audio", t, co[t].made + 1)>>)
    /\ UNCHANGED <<fixed, desk, capture, pb, chat, sends, cancels>>

\* The provider fails: the rest of the reply is not spoken.
SynthesisFails(t) ==
    /\ co[t].state \in {"open", "finish"} /\ Left(t)
    /\ co' = [co EXCEPT ![t].state = "failed", ![t].done = TRUE]
    /\ wire' = Emit(t, Farewell(t))
    /\ UNCHANGED <<fixed, desk, capture, pb, chat, sends, cancels>>

\* Everything that was said is synthesised.
SynthesisEnds(t) ==
    /\ co[t].state = "finish" /\ ~Left(t) /\ ~co[t].done
    /\ co' = [co EXCEPT ![t].done = TRUE]
    /\ wire' = Emit(t, Farewell(t))
    /\ UNCHANGED <<fixed, desk, capture, pb, chat, sends, cancels>>

\* process_direct returns.
TurnEnds(t) ==
    /\ chat[t] = "running"
    /\ chat' = [chat EXCEPT ![t] = "replied"]
    /\ co' = [co EXCEPT ![t].told = TRUE, ![t].state = IF @ = "open" THEN "finish" ELSE @]
    /\ wire' = Emit(t, Announcement(t))
    /\ UNCHANGED <<fixed, desk, capture, pb, sends, cancels>>

\* The agent raises, or its cancellation arrives.
TurnFails(t) ==
    /\ chat[t] \in {"running", "cancelling"}
    /\ chat' = [chat EXCEPT ![t] = "closed"]
    /\ co' = [co EXCEPT ![t].told = TRUE, ![t].state = "cancelled", ![t].done = TRUE]
    /\ wire' = Emit(t, Announcement(t) \o Farewell(t))
    /\ UNCHANGED <<fixed, desk, capture, pb, sends, cancels>>

\* chat.done or session.updated is queued for the end of the runner. A
\* coordinator that has sentences left has sent nothing final by then; one
\* that has none is given the turn of the event loop in which it finishes.
Terminal(t) ==
    /\ chat[t] = "replied"
    /\ \/ co[t].done \/ co[t].state = "cancelled"
       \/ "late" \in faults /\ Left(t)
    /\ chat' = [chat EXCEPT ![t] = "closed"]
    /\ UNCHANGED <<fixed, desk, capture, pb, co, net>>

\* The interrupt of a turn: a running one is cancelled, its coordinator in
\* any case, which then says nothing by itself.
Interrupted(t) ==
    /\ chat' = [chat EXCEPT ![t] = IF @ = "running" THEN "cancelling" ELSE @]
    /\ co' = [co EXCEPT ![t].state = IF chat[t] = "none" THEN @ ELSE "cancelled"]

\* voice.turn.cancel; the requests of one connection are served in any order.
CancelVoiceTurn(t) ==
    /\ t \in cancels /\ cancels' = cancels \ {t}
    /\ Interrupted(t)
    /\ UNCHANGED <<fixed, desk, capture, pb, wire, sends>>

\* chat.cancel: the reply is stopped in the chat window, while it is written
\* or before the runner of a reply that is still spoken has ended.
CancelChat(t) ==
    /\ "stop" \in faults /\ co[t].state # "cancelled"
    /\ chat[t] = "running" \/ (chat[t] = "replied" /\ Left(t))
    /\ Interrupted(t)
    /\ UNCHANGED <<fixed, desk, capture, pb, net>>

-----------------------------------------------------------------------------
(* Electron: answers, events of the current turn, and the player.          *)

\* sentence_ready, preceded by reply_started while the reply is awaited.
SentenceReady(c, n) ==
    IF c.ui \in {"waiting_reply", "speaking_prepare"} THEN [c EXCEPT !.ui = "speaking", !.said = n] ELSE c

\* sentence_playback_finished.
SentenceFinished(c, item, queue) ==
    IF item.turn # c.turn \/ c.ui # "speaking" \/ c.said # item.n THEN c
    ELSE IF queue = <<>> THEN To(c, "speaking_prepare") ELSE [c EXCEPT !.said = Head(queue).n]

\* Only the operation that sent the text hears the answer to it: a promise
\* is resolved.
Answered(frame) ==
    /\ ctl' = IF ctl.step = "send" /\ ctl.turn = frame.turn THEN [ctl EXCEPT !.step = frame.kind] ELSE ctl
    /\ UNCHANGED pb

\* The operation goes on. Events that came behind the answer have been
\* handled in the state "sending", where the table knows none of them.
Resumes ==
    /\ Settling
    /\ ctl' = IF ctl.step = "accepted" THEN [To(ctl, "waiting_reply") EXCEPT !.step = "none"] ELSE Failed(ctl)
    /\ UNCHANGED <<fixed, held, issued, capture, pb, backend, net>>

\* Events of a retired turn are dropped.
Routed(frame) ==
    \/ frame.turn # ctl.turn /\ UNCHANGED <<ctl, pb>>
    \/ /\ frame.turn = ctl.turn /\ frame.kind = "started"
       /\ ctl' = IF ctl.ui = "waiting_reply" THEN To(ctl, IF voiced THEN "speaking_prepare" ELSE "idle") ELSE ctl
       /\ UNCHANGED pb
    \/ /\ frame.turn = ctl.turn /\ frame.kind = "audio"
       /\ ctl' = SentenceReady(ctl, frame.n)
       /\ pb' = IF pb.active # frame.turn THEN pb
                ELSE Pump([pb EXCEPT !.queue = Append(@, [turn |-> frame.turn, n |-> frame.n])])
    \/ /\ frame.turn = ctl.turn /\ frame.kind = "finished"
       /\ LET p == IF pb.active = frame.turn THEN [pb EXCEPT !.finished = TRUE] ELSE pb IN
          pb' = Drained(p) /\ ctl' = Heard(ctl, p)

Deliver ==
    /\ wire # <<>> /\ wire' = Tail(wire)
    /\ IF Head(wire).kind \in {"accepted", "refused"} THEN Answered(Head(wire)) ELSE Routed(Head(wire))
    /\ UNCHANGED <<fixed, held, issued, capture, backend, sends, cancels>>

\* The player's window is loaded: the next sentence plays.
Pumped ==
    /\ ~Settling /\ pb.pumping
    /\ pb' = IF pb.queue = <<>> THEN [pb EXCEPT !.pumping = FALSE]
             ELSE [pb EXCEPT !.pumping = FALSE, !.current = Head(pb.queue), !.queue = Tail(@)]
    /\ UNCHANGED <<fixed, desk, capture, backend, net>>

\* What follows a sentence: the next one, or the end of the turn.
Continue(c, p) ==
    IF p.queue = <<>> THEN pb' = Drained(p) /\ ctl' = Heard(c, p) ELSE pb' = Pump(p) /\ ctl' = c

\* The player reports that a sentence is heard: the controller that missed
\* its arrival speaks now.
SoundStarts ==
    /\ ~Settling /\ pb.current # Silent /\ ~pb.playing
    /\ pb' = [pb EXCEPT !.playing = TRUE]
    /\ ctl' = IF pb.current.turn = ctl.turn THEN SentenceReady(ctl, pb.current.n) ELSE ctl
    /\ UNCHANGED <<fixed, held, issued, capture, backend, net>>

SoundEnds ==
    /\ ~Settling /\ pb.current # Silent /\ pb.playing
    /\ Continue(SentenceFinished(ctl, pb.current, pb.queue), Muted(pb))
    /\ UNCHANGED <<fixed, held, issued, capture, backend, net>>

\* A sentence cannot be decoded or played: the later ones still are.
SoundFails ==
    /\ "window" \in faults /\ ~Settling /\ pb.current # Silent
    /\ Continue(ctl, Muted(pb))
    /\ UNCHANGED <<fixed, held, issued, capture, backend, net>>

\* The player's window cannot be loaded, crashes or is closed.
PlayerLost ==
    /\ "window" \in faults /\ ~Settling /\ (pb.pumping \/ pb.current # Silent)
    /\ LET p == [Muted(pb) EXCEPT !.queue = <<>>, !.pumping = FALSE] IN
       pb' = Drained(p) /\ ctl' = Heard(ctl, p)
    /\ UNCHANGED <<fixed, held, issued, capture, backend, net>>

-----------------------------------------------------------------------------
\* The steps of recorder and microphone.
CaptureStep ==
    \/ Loaded \/ Obey \/ (\E granted \in BOOLEAN : Open(granted))
    \/ Ready \/ Stopped \/ CaptureError \/ TestStop

\* The steps of a turn that is under way; there are finitely many.
TurnStep ==
    \/ \E heard \in BOOLEAN : Transcribed(heard)
    \/ \E t \in Turns :
         \/ Serve(t) \/ Push(t) \/ Synthesised(t) \/ SynthesisFails(t) \/ SynthesisEnds(t)
         \/ TurnEnds(t) \/ TurnFails(t) \/ Terminal(t) \/ CancelVoiceTurn(t)
    \/ Deliver \/ Resumes \/ Pumped \/ SoundStarts \/ SoundEnds

Next ==
    \/ StartPress \/ PointerMoved \/ Release \/ Cancel
    \/ PressElapsed \/ RecordingTimesOut \/ SendTimesOut
    \/ CaptureStep \/ CaptureLost \/ TestStart \/ TestCancel
    \/ TurnStep \/ SoundFails \/ PlayerLost
    \/ \E t \in Turns : CancelChat(t)

Spec == Init /\ [][Next]_vars

\* Timers fire, the windows and the backend go on; nothing makes the user
\* press, release or give up, and no failure has to happen.
FairSpec ==
    /\ Spec
    /\ WF_vars(CaptureStep) /\ WF_vars(TurnStep)
    /\ WF_vars(PressElapsed) /\ WF_vars(RecordingTimesOut)

-----------------------------------------------------------------------------
UiStates == Resting \cup Replying \cup {"press_pending", "recording", "transcribing", "sending"}

\* Type invariant.
TypeOK ==
    /\ faults \in FaultSets /\ voiced \in BOOLEAN /\ held \in BOOLEAN /\ issued \in 0..MaxTurns
    /\ ctl \in [ui : UiStates, said : 0..MaxSentences, turn : 0..MaxTurns, timer : BOOLEAN,
                 pending : BOOLEAN, owner : BOOLEAN,
                 step : {"none", "start", "held", "stop", "asr", "send", "accepted", "refused"}]
    /\ rec \in [active : BOOLEAN, wait : {"none", "load", "open", "stop"}]
    /\ mic.state \in {"off", "asking", "on"}
    /\ \A i \in DOMAIN mic.cmds : mic.cmds[i] \in {"start", "stop", "cancel"}
    /\ \A i \in DOMAIN mic.acks : mic.acks[i] \in {"ready", "stopped", "error"}
    /\ test \in {"off", "on", "stopping"}
    /\ pb.active \in 0..MaxTurns /\ pb.finished \in BOOLEAN /\ pb.drained \in BOOLEAN
    /\ pb.pumping \in BOOLEAN /\ pb.playing \in BOOLEAN
    /\ pb.current \in {Silent} \cup [turn : Turns, n : 1..MaxSentences]
    /\ \A i \in DOMAIN pb.queue : pb.queue[i] \in [turn : Turns, n : 1..MaxSentences]
    /\ chat \in [Turns -> {"none", "running", "cancelling", "replied", "closed"}]
    /\ co \in [Turns -> [state : {"open", "finish", "failed", "cancelled"}, pushed : 0..MaxSentences,
                         made : 0..MaxSentences, told : BOOLEAN, done : BOOLEAN]]
    /\ \A i \in DOMAIN wire : wire[i] \in [kind : {"accepted", "refused", "started", "audio", "finished"},
                                          turn : Turns, n : 0..MaxSentences]
    /\ sends \subseteq Turns /\ cancels \subseteq Turns

\* A microphone that is open, or being opened, belongs to a capture the
\* recorder knows or has been told to close; and a capture the recorder
\* knows belongs to the press that records, to its release, or to the test:
\* no press, cancellation or crash of the window leaves it open for nobody.
MicrophoneFree ==
    /\ mic.state # "off" => rec.active \/ (\E i \in DOMAIN mic.cmds : mic.cmds[i] \in {"stop", "cancel"})
    /\ rec.active => \/ ctl.step \in {"start", "held", "stop"} /\ ctl.ui \in {"recording", "transcribing"}
                     \/ test # "off"

\* While a text is being answered the controller and the player agree on the
\* turn, which has not been played out, and nothing of an earlier turn is
\* queued. A reply that ended in the chunk of output that accepted the text
\* has left no turn, and then the player has nothing left to say either
\* (controller.ts:197, bridgeClient.ts:158-183).
OwnTurn ==
    /\ ctl.ui \in {"sending"} \cup Replying =>
         \/ ctl.turn # 0 /\ pb.active = ctl.turn /\ ~pb.drained
         \/ ctl.turn = 0 /\ pb.drained /\ ctl.ui \in {"sending", "waiting_reply"}
    /\ \A i \in DOMAIN pb.queue : pb.queue[i].turn = pb.active

\* The reply ended before its acceptance was noticed: it is waited for.
Overtaken == ctl.ui = "waiting_reply" /\ ctl.turn = 0

\* The chat turn ended, or was stopped, before its speech: voice.tts.finished
\* was held back or never sent.
Silenced ==
    /\ faults \cap {"late", "stop"} # {} /\ ctl.ui \in Replying /\ ctl.turn # 0
    /\ chat[ctl.turn] = "closed" /\ ~pb.finished
    /\ \A i \in DOMAIN wire : wire[i] # Frame("finished", ctl.turn, 0)

\* A cancellation found a press that the table cannot reset.
Ownerless ==
    /\ "escape" \in faults
    /\ \/ ctl.ui = "press_pending" /\ ~ctl.timer
       \/ ctl.ui = "recording" /\ ctl.step = "none"

\* Whatever fails on the way, a voice task ends: the pet is at rest again and
\* again, or it waits in one of the three states that no event of the code
\* itself ends (controller.ts:191, playback.ts:215, chat_service.py:682).
VoiceRests == []<>(ctl.ui \in Resting \/ Overtaken \/ Silenced \/ Ownerless)

\* Every voice task ends.
VoiceEnds == []<>(ctl.ui \in Resting)

=============================================================================
