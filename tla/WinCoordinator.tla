--------------------------- MODULE WinCoordinator ---------------------------
(***************************************************************************)
(* The Windows coordinator while it types what it hears: recordings of     *)
(* several devices, recognition, confirmation of the text by countdown or  *)
(* button, and the paste.  Bluetooth events, the overlay and the menu run  *)
(* on the UI thread; the callbacks of the ASR client, the translator and   *)
(* the audio-end timeout run on threads of their own, take no lock the UI  *)
(* thread takes, and reach the overlay through a queue of UI messages.     *)
(* Of the ASR client only what AsrOutcomes promises is assumed: a session  *)
(* may end on its own just before it is cancelled, and be reported after.  *)
(***************************************************************************)
EXTENDS Integers, Sequences, FiniteSets, WinOverlay

CONSTANTS
  Devices, Translating,  \* the devices, and those whose output is translated
  Texts,                 \* what is recognised or translated, besides nothing
  NoDevice,
  InitialMode,           \* the interaction mode configured first
  MaxInputs,             \* presses that start a recording
  MaxFrames,             \* audio frames of a recording
  MaxEvents              \* of these together: failures of the ASR client and the
                         \* translator, partial results, lost devices,
                         \* changes of the configuration, presses of
                         \* the side button and uses of the menu's Restore

ASSUME BoundsAssumption ==
  /\ Translating \subseteq Devices /\ NoDevice \notin Devices
  /\ InitialMode \in {"hold", "click"}
  /\ {MaxInputs, MaxFrames, MaxEvents} \subseteq Nat

Inputs == 1..MaxInputs   \* also the ASR session the input starts
NoInput == 0
NoSession == 0           \* no active_session_id_
Empty == ""
Idle == [kind |-> "idle", text |-> Empty, of |-> NoInput]

VARIABLES
  app,     \* the coordinator with its overlay, and what it did to the others
  dev,     \* dev[d]: the recording device d sends
  worker,  \* the callback the ASR worker thread is about to run
  count    \* what the bounds bound

vars == <<app, dev, worker, count>>

\* What device d sends of a press: its session number, which starts at 1 after
\* a restart, and how much of it has arrived.
Silent == [session |-> NoSession, input |-> NoInput, down |-> FALSE, up |-> TRUE,
           frames |-> 0, ended |-> TRUE]
NoCall == [tells |-> "nothing"]

\* What a device was last told to show, whether at its connection, and whether
\* it shows, or until just now showed, pending_confirmation.
Ready == [shows |-> "ready", greeted |-> TRUE, asked |-> FALSE]

Init ==
  /\ app = [state |-> "ready", session |-> NoSession, device |-> NoDevice,
            half |-> FALSE, heard |-> FALSE, buffered |-> <<>>,
            started |-> FALSE, sentFinal |-> FALSE, pastedFinal |-> FALSE,
            waiting |-> FALSE, timeout |-> <<>>,
            pending |-> Idle, last |-> Idle, lastDevice |-> NoDevice,
            errorShown |-> FALSE, mode |-> InitialMode,
            overlay |-> Hidden, posted |-> <<>>,
            connected |-> Devices, ui |-> [d \in Devices |-> Ready],
            input |-> NoInput, translating |-> {},
            fate |-> [i \in Inputs |-> "unused"], fed |-> [i \in Inputs |-> <<>>],
            typed |-> [i \in Inputs \cup {NoInput} |-> 0], shown |-> [i \in Inputs |-> 0],
            dropped |-> {}, late |-> FALSE]
  /\ dev = [d \in Devices |-> Silent]
  /\ worker = NoCall
  /\ count = [input |-> 0, event |-> 0]

-----------------------------------------------------------------------------
\* The effects a handler is made of, as functions of app; t is the thread.
Commit(text) == [does |-> "commit", text |-> text]
Recover == [does |-> "recover"]
UpgradePage == [does |-> "page"]
Callbacks == {NoCallback, Recover, UpgradePage} \cup {Commit(text) : text \in Texts \cup {Empty}}

\* BleCentral.SendUiState; without a device it goes to all.
SendUiStateTo(c, state, ds) ==
  [c EXCEPT !.ui = [d \in Devices |->
     IF d \in ds \cap c.connected
     THEN [shows |-> state, greeted |-> FALSE,
           asked |-> state = "pending" \/ (@[d].asked /\ state = "ready")]
     ELSE @[d]]]
SendUiState(c, state) ==
  SendUiStateTo(c, state, IF c.device = NoDevice THEN Devices ELSE {c.device})

CancelAudioEndTimeout(c) == [c EXCEPT !.waiting = FALSE, !.timeout = <<>>]

FinishRecognitionCycle(c) ==
  [CancelAudioEndTimeout(c) EXCEPT !.started = FALSE, !.sentFinal = FALSE,
                                   !.pastedFinal = FALSE, !.buffered = <<>>]

AsrActive(c) == {i \in Inputs : c.fate[i] = "active"}
AsrEnd(c, end) ==
  [c EXCEPT !.fate = [i \in Inputs |-> IF i \in AsrActive(c) THEN end ELSE @[i]]]
AsrCancel(c) == AsrEnd(c, "cancelled")

ReadyUntold(c) == [c EXCEPT !.state = "ready", !.device = NoDevice]
EnterReadyKeepingOverlay(c) ==
  [SendUiState(c, "ready") EXCEPT !.state = "ready", !.device = NoDevice]

\* The overlay's callbacks.  Input of the text is counted in typed.
CompleteKeepingPending(c) ==
  EnterReadyKeepingOverlay(FinishRecognitionCycle([c EXCEPT !.typed[c.pending.of] = @ + 1]))
CompletePendingPaste(c) ==
  EnterReadyKeepingOverlay(
    FinishRecognitionCycle([c EXCEPT !.pending = Idle, !.typed[c.pending.of] = @ + 1]))
CommitPendingPaste(c, text) == IF c.pending.text = text THEN CompletePendingPaste(c) ELSE c
RecoverFromAsrError(c) ==
  IF c.errorShown THEN EnterReadyKeepingOverlay([c EXCEPT !.errorShown = FALSE]) ELSE c
Run(c, callback) ==
  CASE callback.does = "commit"  -> CommitPendingPaste(c, callback.text)
    [] callback.does = "recover" -> RecoverFromAsrError(c)
    [] OTHER                     -> c

\* DispatchToUi: at once on the UI thread, else behind what is posted already.
Displayed(c, call) ==
  Run([c EXCEPT !.overlay = Applied(c.overlay, call)], Due(c.overlay, call))
Situation(c) == <<c.state, c.errorShown, c.input>>
Display(c, t, call) ==
  IF t = "ui" THEN Displayed(c, call)
  ELSE [c EXCEPT !.posted = Append(@, [call |-> call, during |-> Situation(c)])]

\* The callback of the overlay being hidden still sees the active device.
EnterReady(c, t) ==
  [Display([SendUiState(c, "ready") EXCEPT !.state = "ready"], t, Hide(NoCallback))
     EXCEPT !.device = NoDevice]
EnterFinalizing(c) == SendUiState([c EXCEPT !.state = "finalizing"], "thinking")
EnterPendingConfirmation(c, t, text, i) ==
  SendUiState(Display([c EXCEPT !.pending = [kind |-> "waiting", text |-> text, of |-> i],
                                !.state = "pending", !.shown[i] = @ + 1],
                      t, Countdown(Commit(text))), "pending")
EnterPausedConfirmation(c, t) ==
  SendUiState(Display([c EXCEPT !.pending.kind = "paused", !.state = "paused"],
                      t, PausedFinal), "pending")
EnterError(c, t) ==
  Display(SendUiState([c EXCEPT !.errorShown = TRUE, !.state = "error"], "error"),
          t, ErrorText(Recover))

FinishWithAsrError(c, t) ==
  EnterError(FinishRecognitionCycle(
    [AsrCancel(CancelAudioEndTimeout(c)) EXCEPT !.pending = Idle, !.session = NoSession]), t)

\* The recording, or the text, the coordinator is busy with.
Recorded(c) == {i \in Inputs : c.state \in {"recording", "finalizing"} /\ i = c.input}
Offered(c) == {i \in Inputs : c.pending.kind # "idle" /\ i = c.pending.of}
InHand(c) == Recorded(c) \cup Offered(c)
Drop(c) == [c EXCEPT !.dropped = @ \cup InHand(c)]

\* CancelRecognitionInProgress, and the same steps where the device is lost or
\* forgotten, or the configuration changes.
CancelCycle(c, t) ==
  EnterReady(FinishRecognitionCycle(
    [AsrCancel(Drop(c)) EXCEPT !.pending = Idle, !.session = NoSession]), t)

\* A text that a late callback put up meanwhile stays.
CancelShortRecording(c, t) ==
  LET short == [c EXCEPT !.dropped = @ \cup (Recorded(c) \ Offered(c))]
  IN  EnterReady(FinishRecognitionCycle([AsrCancel(short) EXCEPT !.session = NoSession]), t)

-----------------------------------------------------------------------------
\* Audio.  luck is how the ASR client fares: "ok", "refused" (Start returns
\* false), "breaks" (a send fails and calls on_error), "silent" (it does not).
SendOggOpusChunk(c, t, chunk, luck) ==
  IF AsrActive(c) = {} THEN c
  ELSE CASE luck \in {"ok", "refused"} ->
              [c EXCEPT !.fed = [i \in Inputs |->
                 IF i \in AsrActive(c) THEN Append(@[i], chunk) ELSE @[i]]]
         [] luck = "breaks" -> FinishWithAsrError(AsrEnd(c, "error"), t)
         [] luck = "silent" -> AsrEnd(c, "silent")

StartAsrAndFlush(c, t, luck) ==
  IF AsrActive(c) # {} \/ luck = "refused"
  THEN LET failed == [c EXCEPT !.buffered = <<>>]
       IN  IF c.errorShown THEN failed ELSE FinishWithAsrError(failed, t)
  ELSE LET begun == [c EXCEPT !.started = TRUE, !.fate[c.input] = "active"]
       IN  IF luck = "ok"
           THEN [begun EXCEPT !.fed[c.input] = @ \o c.buffered, !.buffered = <<>>]
           ELSE [SendOggOpusChunk(begun, t, Head(c.buffered), luck) EXCEPT !.buffered = <<>>]

SendOrBufferOggChunk(c, t, chunk, canStart, luck) ==
  IF c.started THEN SendOggOpusChunk(c, t, chunk, luck)
  ELSE LET kept == [c EXCEPT !.buffered = Append(@, chunk)]
       IN  IF canStart THEN StartAsrAndFlush(kept, t, luck) ELSE kept

FinalUnsent(c) == ~c.sentFinal

SendFinalOggChunkIfNeeded(c, t, luck) ==
  LET ending == CancelAudioEndTimeout([c EXCEPT !.sentFinal = TRUE])
      final  == [of |-> c.input, last |-> TRUE]
  IN  IF ~FinalUnsent(c) THEN c
      ELSE IF ~c.started /\ ~c.half THEN CancelShortRecording(ending, t)
      ELSE IF ~c.heard THEN FinishWithAsrError(ending, t)
      ELSE EnterFinalizing(
             SendOrBufferOggChunk([ending EXCEPT !.session = NoSession], t, final, TRUE, luck))

-----------------------------------------------------------------------------
\* Buttons.
RefreshDeviceUiState(c, d) ==
  LET own == CASE c.state = "recording"  -> "recording"
               [] c.state = "finalizing" -> "thinking"
               [] c.state \in {"pending", "paused"} -> "pending"
               [] c.state \in {"error", "ready"} -> c.state
  IN  SendUiStateTo(c, IF c.device = d THEN own ELSE "ready", {d})

HandleFrontButtonDuringPendingPaste(c, d) ==
  IF c.device # d THEN c
  ELSE IF c.pending.kind = "waiting" THEN EnterPausedConfirmation(c, "ui")
  ELSE Displayed(c, Hide(Commit(c.pending.text)))

BeginRecording(c, d, session, i) ==
  SendUiState(Displayed(
    [c EXCEPT !.session = session, !.device = d, !.half = FALSE, !.heard = FALSE,
              !.buffered = <<>>, !.started = FALSE, !.sentFinal = FALSE,
              !.pastedFinal = FALSE, !.pending = Idle, !.errorShown = FALSE,
              !.state = "recording", !.input = i], Listening), "recording")

HandlePrimaryButtonDown(c, d, session, i) ==
  CASE c.pending.kind # "idle" -> HandleFrontButtonDuringPendingPaste(c, d)
    [] c.pending.kind = "idle" /\ (c.state # "ready" \/ c.device # NoDevice) ->
         RefreshDeviceUiState(c, d)
    [] c.pending.kind = "idle" /\ c.state = "ready" /\ c.device = NoDevice ->
         IF session = NoSession THEN SendUiStateTo(c, "ready", {d})
         ELSE BeginRecording(c, d, session, i)

Owns(c, d) == c.session # NoSession /\ c.device = d

HandlePrimaryButtonUp(c, d) ==
  IF ~Owns(c, d) THEN c
  ELSE IF ~c.half THEN CancelShortRecording(c, "ui")
  ELSE IF c.waiting THEN c
  ELSE [EnterFinalizing(c) EXCEPT !.waiting = TRUE, !.timeout = <<c.session, c.device>>]

HandlePrimaryClick(c, d, session, i) ==
  CASE c.pending.kind # "idle" -> HandleFrontButtonDuringPendingPaste(c, d)
    [] c.pending.kind = "idle" /\ c.mode # "click" -> SendUiStateTo(c, "ready", {d})
    [] c.pending.kind = "idle" /\ c.mode = "click" ->
         CASE c.state = "recording" /\ c.device = d  -> HandlePrimaryButtonUp(c, d)
           [] c.state = "finalizing" /\ c.device = d -> SendUiStateTo(c, "thinking", {d})
           [] OTHER -> HandlePrimaryButtonDown(c, d, session, i)

Restorable(c) ==
  /\ c.pending.kind = "idle" /\ c.state = "ready"
  /\ c.session = NoSession /\ c.last # Idle

RestoreLastInputConfirmation(c, d) ==
  IF ~Restorable(c) THEN c
  ELSE EnterPausedConfirmation([c EXCEPT !.device = d, !.pending = c.last,
                                         !.shown[c.last.of] = @ + 1,
                                         !.dropped = @ \ {c.last.of}], "ui")

CancelPendingAnyhow(c, d) == EnterReady(FinishRecognitionCycle(Drop(c)), "ui")
CancelPending(c, d) ==
  EnterReady(FinishRecognitionCycle([Drop(c) EXCEPT !.pending = Idle]), "ui")

CancelPendingPaste(c, d) ==
  CASE c.session # NoSession -> IF c.device = d THEN CancelCycle(c, "ui") ELSE c
    [] c.session = NoSession /\ c.state = "finalizing" ->
         IF c.device = d THEN CancelCycle(c, "ui") ELSE RefreshDeviceUiState(c, d)
    [] c.session = NoSession /\ c.state # "finalizing" /\ c.pending.kind = "idle" ->
         RestoreLastInputConfirmation(c, d)
    [] c.session = NoSession /\ c.state # "finalizing" /\ c.pending.kind # "idle" ->
         IF c.device = d THEN CancelPending(c, d) ELSE c

FrameOfAnyDevice(c, d, session) == c.session # NoSession /\ session = c.session
FrameAccepted(c, d, session) == Owns(c, d) /\ session = c.session

HandleAudioFrame(c, d, session, i, luck) ==
  IF ~FrameAccepted(c, d, session) THEN c
  ELSE SendOrBufferOggChunk([c EXCEPT !.heard = TRUE], "ui", [of |-> i, last |-> FALSE],
                            c.half /\ ~c.waiting, luck)

HandleAudioEnd(c, d, session, luck) ==
  IF ~FrameAccepted(c, d, session) THEN c
  ELSE SendFinalOggChunkIfNeeded(CancelAudioEndTimeout(c), "ui", luck)

-----------------------------------------------------------------------------
\* What the ASR client and the translator call, on their threads.
Remember(c, text, i) ==
  [c EXCEPT !.last = [kind |-> "paused", text |-> text, of |-> i], !.lastDevice = c.device]

FinishWithFinalText(c, t, text, i) ==
  LET p == [c EXCEPT !.pastedFinal = TRUE]
  IN  CASE c.pastedFinal -> c
        [] ~c.pastedFinal /\ text = Empty ->
             EnterReadyKeepingOverlay(
               Display(FinishRecognitionCycle([p EXCEPT !.pending = Idle, !.state = "ready"]),
                       t, Hide(NoCallback)))
        [] ~c.pastedFinal /\ text # Empty /\ c.device \in Translating ->
             [p EXCEPT !.translating = @ \cup {i}]
        [] ~c.pastedFinal /\ text # Empty /\ c.device \notin Translating ->
             EnterPendingConfirmation(Remember(p, text, i), t, text, i)

\* A callback is late when it is about an input the coordinator has given up, or
\* an error is shown already.
Late(c, i) == [c EXCEPT !.late = @ \/ i \in c.dropped \/ i # c.input \/ c.errorShown]

WorkerIdle == worker = NoCall
Counted(what) == count' = [count EXCEPT ![what] = @ + 1]

\* The worker leaves its mutex with something to report.
AsrPartial(i) ==
  /\ WorkerIdle /\ i \in AsrActive(app) /\ count.event < MaxEvents
  /\ worker' = [tells |-> "partial", of |-> i]
  /\ Counted("event")
  /\ UNCHANGED <<app, dev>>

\* The service can finish only what it got to the end; it can fail any time.
AsrFinal(i) ==
  /\ WorkerIdle /\ i \in AsrActive(app)
  /\ app.fed[i] # <<>> /\ app.fed[i][Len(app.fed[i])].last
  /\ app' = AsrEnd(app, "final")
  /\ \E text \in Texts \cup {Empty} : worker' = [tells |-> "final", of |-> i, text |-> text]
  /\ UNCHANGED <<dev, count>>

AsrFails(i) ==
  /\ WorkerIdle /\ i \in AsrActive(app) /\ count.event < MaxEvents
  /\ \/ /\ app' = AsrEnd(app, "error")
        /\ worker' = [tells |-> "error", of |-> i]
     \/ /\ app' = AsrEnd(app, "silent")
        /\ UNCHANGED worker
  /\ Counted("event")
  /\ UNCHANGED dev

OnPartial ==
  /\ worker.tells = "partial"
  /\ LET shown == Late(Display(app, "worker", Partial), worker.of)
     IN  app' = IF app.sentFinal THEN SendUiState(shown, "thinking") ELSE shown
  /\ worker' = NoCall
  /\ UNCHANGED <<dev, count>>

OnFinal ==
  /\ worker.tells = "final"
  /\ app' = FinishWithFinalText(Late(app, worker.of), "worker", worker.text, worker.of)
  /\ worker' = NoCall
  /\ UNCHANGED <<dev, count>>

\* An error frame that names an upgrade page is reported a second time.
OnError ==
  /\ worker.tells = "error"
  /\ app' = FinishWithAsrError(Late(app, worker.of), "worker")
  /\ worker' \in {NoCall, [tells |-> "upgrade"]}
  /\ UNCHANGED <<dev, count>>

\* ShowCloudUpgrade hides the overlay with a callback of its own.
OnUpgradeUrl ==
  /\ worker.tells = "upgrade"
  /\ app' = Display(RecoverFromAsrError(app), "worker", Hide(UpgradePage))
  /\ worker' = NoCall
  /\ UNCHANGED <<dev, count>>

\* TransformText's completion.
Translated(i) ==
  /\ i \in app.translating
  /\ LET c == Late([app EXCEPT !.translating = @ \ {i}], i)
     IN  \/ /\ \E text \in Texts \cup {Empty} :
                 app' = EnterPendingConfirmation(Remember(c, text, i), "translator", text, i)
            /\ UNCHANGED count
         \/ /\ count.event < MaxEvents /\ Counted("event")
            /\ app' = FinishWithAsrError(c, "translator")
  /\ UNCHANGED <<dev, worker>>

-----------------------------------------------------------------------------
\* The UI thread: posted messages, the overlay's timer, the menu and the
\* configuration, and the end of the paired devices' connections.
UiMessage ==
  /\ app.posted # <<>>
  /\ LET first == Head(app.posted)
         c == [app EXCEPT !.posted = Tail(@), !.late = @ \/ first.during # Situation(app)]
     IN  app' = Displayed(c, first.call)
  /\ UNCHANGED <<dev, worker, count>>

OverlayTimer ==
  /\ app.overlay.timed
  /\ app' = Displayed(app, Hide(NoCallback))
  /\ UNCHANGED <<dev, worker, count>>

RestoreFromMenu ==
  /\ count.event < MaxEvents
  /\ Restorable(app)
  /\ app' = RestoreLastInputConfirmation(app, app.lastDevice)
  /\ Counted("event")
  /\ UNCHANGED <<dev, worker>>

\* was_recognizing, at the top of UpdateConfig.
Recognizing(c) == c.started \/ c.session # NoSession \/ c.pending.kind # "idle"

UpdateConfig ==
  /\ count.event < MaxEvents
  /\ LET c == IF Recognizing(app) THEN CancelCycle(app, "ui") ELSE app
     IN  app' = [AsrCancel(c) EXCEPT !.mode = IF @ = "hold" THEN "click" ELSE "hold"]
  /\ Counted("event")
  /\ UNCHANGED <<dev, worker>>

ConnectionLost(c, d) ==
  [c EXCEPT !.connected = @ \ {d}]

\* A device that restarts counts its recordings from 1 again.
Gone(d) ==
  \E next \in {NoSession, dev[d].session} :
    dev' = [dev EXCEPT ![d] = [Silent EXCEPT !.session = next]]

\* CancelActiveCycleIfDeviceDisconnected.
DeviceLost(d, luck) ==
  /\ d \in app.connected
  /\ count.event < MaxEvents
  /\ LET c == ConnectionLost(app, d)
     IN  app' = IF c.device # d THEN c
                ELSE IF c.waiting THEN SendFinalOggChunkIfNeeded(c, "ui", luck)
                ELSE CancelCycle(c, "ui")
  /\ Gone(d)

RemovePairedDevice(d) ==
  /\ d \in app.connected
  /\ count.event < MaxEvents
  /\ app' = ConnectionLost(IF app.device = d THEN CancelCycle(app, "ui") ELSE app, d)
  /\ Gone(d)
  /\ Counted("event")
  /\ UNCHANGED worker

DeviceBack(d) ==
  /\ d \notin app.connected
  /\ app' = [app EXCEPT !.connected = @ \cup {d}, !.ui[d] = Ready]
  /\ UNCHANGED <<dev, worker, count>>

AudioEndTimeout(luck) ==
  /\ app.timeout = <<app.session, app.device>> /\ app.waiting
  /\ app' = SendFinalOggChunkIfNeeded(app, "timeout", luck)

\* kMinimumRecordingDurationSeconds pass.
HalfSecond ==
  /\ app.session # NoSession /\ ~app.half
  /\ app' = [app EXCEPT !.half = TRUE]
  /\ UNCHANGED <<dev, worker, count>>

-----------------------------------------------------------------------------
\* The devices.  Audio and button events come over different characteristics,
\* each in order; the end marker may be lost.
Press(d) ==
  /\ d \in app.connected /\ dev[d].up
  /\ count.input < MaxInputs
  /\ dev' = [dev EXCEPT ![d] = [session |-> @.session + 1, input |-> count.input + 1,
                                down |-> FALSE, up |-> FALSE, frames |-> 0, ended |-> FALSE]]
  /\ app' = [app EXCEPT !.ui[d].asked = @ /\ app.ui[d].shows = "pending"]
  /\ Counted("input")
  /\ UNCHANGED worker

Pressed(d, session, i) ==
  IF app.mode = "click" THEN HandlePrimaryClick(app, d, session, i)
  ELSE HandlePrimaryButtonDown(app, d, session, i)

ButtonDown(d) ==
  /\ ~dev[d].down /\ ~dev[d].up
  /\ app' = Pressed(d, dev[d].session, dev[d].input)
  /\ dev' = [dev EXCEPT ![d].down = TRUE]
  /\ UNCHANGED <<worker, count>>

ButtonUp(d) ==
  /\ dev[d].down /\ ~dev[d].up
  /\ app' = IF app.mode = "click" THEN HandlePrimaryClick(app, d, dev[d].session, dev[d].input)
            ELSE HandlePrimaryButtonUp(app, d)
  /\ dev' = [dev EXCEPT ![d].up = TRUE]
  /\ UNCHANGED <<worker, count>>

\* A device that shows pending_confirmation starts no recording.
ControlClick(d) ==
  /\ d \in app.connected /\ dev[d].up
  /\ app.ui[d].asked
  /\ app' = HandlePrimaryClick([app EXCEPT !.ui[d].asked = app.ui[d].shows = "pending"],
                               d, NoSession, NoInput)
  /\ UNCHANGED <<dev, worker, count>>

SideClick(d) ==
  /\ d \in app.connected
  /\ count.event < MaxEvents
  /\ app' = CancelPendingPaste(app, d)
  /\ Counted("event")
  /\ UNCHANGED <<dev, worker>>

Frame(d, luck) ==
  /\ ~dev[d].ended /\ dev[d].frames < MaxFrames
  /\ app' = HandleAudioFrame(app, d, dev[d].session, dev[d].input, luck)
  /\ dev' = [dev EXCEPT ![d].frames = @ + 1]

End(d, luck) ==
  /\ dev[d].down /\ ~dev[d].ended
  /\ app' = HandleAudioEnd(app, d, dev[d].session, luck)
  /\ dev' = [dev EXCEPT ![d].ended = TRUE]

\* The steps in which the ASR client may fail.
Audio(luck) ==
  /\ luck # "ok" => count.event < MaxEvents
  /\ \/ /\ \/ \E d \in Devices : Frame(d, luck) \/ End(d, luck)
           \/ (AudioEndTimeout(luck) /\ UNCHANGED dev)
        /\ IF luck = "ok" THEN UNCHANGED count ELSE Counted("event")
     \/ /\ \E d \in Devices : DeviceLost(d, luck)
        /\ Counted("event")
  /\ UNCHANGED worker

Reported == OnPartial \/ OnFinal \/ OnError \/ OnUpgradeUrl

Next ==
  \/ \E luck \in {"ok", "refused", "breaks", "silent"} : Audio(luck)
  \/ \E d \in Devices : \/ Press(d) \/ ButtonDown(d) \/ ButtonUp(d) \/ ControlClick(d)
                        \/ SideClick(d) \/ RemovePairedDevice(d) \/ DeviceBack(d)
  \/ \E i \in Inputs : AsrPartial(i) \/ AsrFinal(i) \/ AsrFails(i) \/ Translated(i)
  \/ Reported \/ UiMessage \/ OverlayTimer \/ RestoreFromMenu \/ UpdateConfig \/ HalfSecond

Spec == Init /\ [][Next]_vars

\* Every thread is scheduled, the overlay's and the audio-end timers fire, the
\* service and the translator answer.  The devices and the user do as they like.
Fairness ==
  /\ WF_vars(UiMessage) /\ WF_vars(OverlayTimer) /\ WF_vars(Reported)
  /\ WF_vars(AudioEndTimeout("ok") /\ UNCHANGED <<dev, worker, count>>)
  /\ \A i \in Inputs : WF_vars(AsrFinal(i)) /\ WF_vars(Translated(i))

FairSpec == Spec /\ Fairness

-----------------------------------------------------------------------------
Times == 0..MaxInputs
States == {"ready", "recording", "finalizing", "pending", "paused", "error"}
Fates == {"unused", "active", "final", "error", "cancelled", "silent"}
Chunk == [of : Times, last : BOOLEAN]
Confirmation == [kind : {"idle", "waiting", "paused"}, text : Texts \cup {Empty}, of : Times]
Call == [call : {"listening", "partial", "paused"}]
          \cup [call : {"countdown", "error", "hide"}, callback : Callbacks]
Timeouts == {<<>>} \cup (Nat \X Devices)
Chunks == Seq(Chunk)
Shown == [shows : {"ready", "recording", "thinking", "pending", "error"},
          greeted : BOOLEAN, asked : BOOLEAN]

Posts == Seq([call : Call, during : States \X BOOLEAN \X Times])

App ==
  [state : States, session : Nat, device : Devices \cup {NoDevice},
   half : BOOLEAN, heard : BOOLEAN, buffered : Chunks,
   started : BOOLEAN, sentFinal : BOOLEAN, pastedFinal : BOOLEAN,
   waiting : BOOLEAN, timeout : Timeouts,
   pending : Confirmation, last : Confirmation, lastDevice : Devices \cup {NoDevice},
   errorShown : BOOLEAN, mode : {"hold", "click"}, overlay : Overlays(Callbacks),
   posted : Posts,
   connected : SUBSET Devices, ui : [Devices -> Shown],
   input : Times, translating : SUBSET Inputs, fate : [Inputs -> Fates],
   fed : [Inputs -> Chunks], typed : [Times -> Nat], shown : [Inputs -> Nat],
   dropped : SUBSET Inputs, late : BOOLEAN]

Sending == [session : Nat, input : Times, down : BOOLEAN, up : BOOLEAN,
            frames : 0..MaxFrames, ended : BOOLEAN]
Report == [tells : {"nothing", "upgrade"}] \cup [tells : {"partial", "error"}, of : Inputs]
            \cup [tells : {"final"}, of : Inputs, text : Texts \cup {Empty}]

TypeOK ==
  /\ app \in App
  /\ dev \in [Devices -> Sending]
  /\ worker \in Report
  /\ count \in [input : Times, event : 0..MaxEvents]

Expected(state) ==
  CASE state = "finalizing" -> "thinking"
    [] state \in {"pending", "paused"} -> "pending"
    [] OTHER -> state

(* Whatever ended or began the recording, every connected device shows the *)
(* state of the input: the active device its state, the others ready.  A   *)
(* device left in thinking or pending_confirmation would start no          *)
(* recording again (main.c:647).                                           *)
UiAgrees ==
  ~app.late => \A d \in app.connected :
    \/ app.ui[d].shows = IF app.device \in {d, NoDevice} THEN Expected(app.state) ELSE "ready"
    \/ app.ui[d].greeted

(* An ASR session gets audio of its own recording only, in one piece with  *)
(* one end, although two devices press at once with equal session numbers, *)
(* and the end marker, the release, the timeout, the loss of the link and  *)
(* callbacks of earlier sessions come in any order.                        *)
FedItsOwn ==
  \A i \in Inputs : \A k \in DOMAIN app.fed[i] :
    /\ app.fed[i][k].of = i
    /\ app.fed[i][k].last => k = Len(app.fed[i])

(* A text is pasted at most once for each time it was put up for           *)
(* confirmation, by countdown, button or both at once, although callbacks  *)
(* of overlays already replaced commit by comparing texts.                 *)
TypedOnce == \A i \in Inputs : app.typed[i] <= app.shown[i]

(* What the side button, a lost device, an error or a new configuration    *)
(* cancelled is not pasted, unless the user restores it.                   *)
DroppedNotTyped ==
  [][\A i \in app'.dropped : app'.typed[i] > app.typed[i] => app'.late]_vars

(* README.md:41, "Pressing the front button during the countdown pauses    *)
(* auto-paste": while paused, no timer is running that would paste.  Does  *)
(* not hold when the press is queued before the countdown is shown         *)
(* (voice_stick_coordinator.cc:1321).                                      *)
PausedStays == app.state = "paused" => ~app.overlay.timed

(* protocol.md:183, "click_to_talk starts audio on the first primary click *)
(* and stops on the next primary click": the click that ends the device's  *)
(* recording does not begin one.  Does not hold in click to talk: after    *)
(* the app gave the recording up, the click that ends it at the device     *)
(* begins it anew at the app (voice_stick_coordinator.cc:359).             *)
SecondClickStops ==
  [][\A d \in Devices : dev[d].down /\ ~dev[d].up /\ dev'[d].up /\ app'.state = "recording"
                         => app.state = "recording"]_vars

Silenced == \E i \in Inputs : app.fate[i] = "silent"

(* Finalizing, the countdown and the display of an error come to an end by *)
(* themselves, as long as no ASR session ends without a report and no      *)
(* callback or overlay call comes late.                                    *)
Settles ==
  [](~app.late /\ ~Silenced) => []<>(app.state \in {"ready", "recording", "paused"})
=============================================================================
