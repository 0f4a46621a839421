------------------------ MODULE WinCoordinatorProofs ------------------------
(***************************************************************************)
(* Proofs about the Windows coordinator, for any devices, texts and number *)
(* of recordings, frames and failures.                                     *)
(*                                                                         *)
(* A handler is a composition of functions of app, most of which only give *)
(* something up.  Calm and Kept say so: Calm of what concerns the audio,   *)
(* Kept of what concerns the texts.  Both are transitive, and the          *)
(* invariants survive them; what is left are the few steps that begin a    *)
(* recording, feed audio, or put a text up and type it.                    *)
(* The last part is about the screens: what the devices and the overlay    *)
(* show agrees with the state of the recording in hand, as long as nothing *)
(* came late.                                                              *)
(***************************************************************************)
EXTENDS WinCoordinator, TLAPS

\* From c to e no recording begins, and what is not over may be over.
Steady(c, e) ==
  /\ e.input = c.input /\ e.heard = c.heard
  /\ \A i \in Inputs \ {c.input} : e.fed[i] = c.fed[i]
  /\ e.session \in {c.session, NoSession}
  /\ e.session # NoSession => e.device \in {c.device, NoDevice}
  /\ e.waiting => /\ c.waiting
                  /\ \/ c.errorShown \/ c.session = NoSession
                     \/ e.timeout = c.timeout /\ e.session = c.session /\ e.device = c.device
  /\ e.sentFinal => c.sentFinal
  /\ e.errorShown => c.errorShown \/ e.session = NoSession

\* Nor is audio taken.
Calm(c, e) ==
  /\ Steady(c, e)
  /\ e.fed = c.fed
  /\ e.buffered \in {c.buffered, <<>>}
  /\ e.started => c.started \/ \A i \in Inputs : e.fate[i] # "active"
  /\ \A i \in Inputs : e.fate[i] = "active" => c.fate[i] = "active"

\* From c to e no text is put up or typed; it may be taken back.
Kept(c, e) ==
  /\ \A i \in Inputs : e.typed[i] = c.typed[i] /\ e.shown[i] = c.shown[i]
  /\ e.last = c.last
  /\ e.pending \in {c.pending, Idle}
  /\ c.dropped \subseteq e.dropped /\ (e.dropped = c.dropped \/ e.pending = Idle)
  /\ c.late => e.late

Quiet(c, e) == Calm(c, e) /\ Kept(c, e)

-----------------------------------------------------------------------------
\* The helpers.

LEMMA Empties ==
  <<>> \in Timeouts /\ <<>> \in Chunks /\ Idle \in Confirmation /\ NoInput \notin Inputs
<1>1. Idle.kind = "idle"
  BY DEF Idle
<1>2. Idle \in Confirmation
  BY BoundsAssumption DEF Idle, Confirmation, Times, NoInput
<1>3. NoInput \notin Inputs
  BY BoundsAssumption DEF NoInput, Inputs
<1> QED BY <1>2, <1>3 DEF Timeouts, Chunks

LEMMA SteadyTwice ==
  ASSUME NEW c, NEW d, NEW e, Steady(c, d), Steady(d, e)
  PROVE  Steady(c, e)
BY DEF Steady

LEMMA CalmTwice ==
  ASSUME NEW c, NEW d, NEW e, Calm(c, d), Calm(d, e)
  PROVE  Calm(c, e)
BY SteadyTwice DEF Calm

LEMMA KeptTwice ==
  ASSUME NEW c, NEW d, NEW e, Kept(c, d), Kept(d, e)
  PROVE  Kept(c, e)
BY DEF Kept

LEMMA QuietTwice ==
  ASSUME NEW c, NEW d, NEW e, Quiet(c, d), Quiet(d, e)
  PROVE  Quiet(c, e)
BY CalmTwice, KeptTwice DEF Quiet

Tellable == {"ready", "recording", "thinking", "pending", "error"}

LEMMA SendToFacts ==
  ASSUME NEW c \in App, NEW state \in Tellable, NEW ds
  PROVE  /\ SendUiStateTo(c, state, ds) \in App
         /\ SendUiStateTo(c, state, ds) = [c EXCEPT !.ui = SendUiStateTo(c, state, ds).ui]
         /\ Quiet(c, SendUiStateTo(c, state, ds))
<1> DEFINE e == SendUiStateTo(c, state, ds)
<1>1. e \in App
  BY DEF SendUiStateTo, App, Shown, Tellable
<1>2. e = [c EXCEPT !.ui = e.ui]
  BY DEF SendUiStateTo, App
<1>3. Calm(c, e)
  BY DEF SendUiStateTo, App, Calm, Steady
<1>4. Kept(c, e)
  BY DEF SendUiStateTo, App, Kept
<1> QED BY <1>1, <1>2, <1>3, <1>4 DEF Quiet

LEMMA SendFacts ==
  ASSUME NEW c \in App, NEW state \in Tellable
  PROVE  /\ SendUiState(c, state) \in App
         /\ SendUiState(c, state) = [c EXCEPT !.ui = SendUiState(c, state).ui]
         /\ Quiet(c, SendUiState(c, state))
BY SendToFacts DEF SendUiState

LEMMA CancelTimeoutFacts ==
  ASSUME NEW c \in App
  PROVE  /\ CancelAudioEndTimeout(c) \in App
         /\ Quiet(c, CancelAudioEndTimeout(c))
         /\ ~CancelAudioEndTimeout(c).waiting
         /\ \A f \in {"session", "device", "pending", "state", "errorShown", "fate", "heard",
                      "sentFinal", "started", "buffered", "half", "connected", "ui"} :
              CancelAudioEndTimeout(c)[f] = c[f]
<1> DEFINE e == CancelAudioEndTimeout(c)
<1>1. e \in App
  BY Empties DEF CancelAudioEndTimeout, App
<1>2. Calm(c, e)
  BY DEF CancelAudioEndTimeout, App, Calm, Steady
<1>3. Kept(c, e)
  BY DEF CancelAudioEndTimeout, App, Kept
<1>4. ~e.waiting
  BY DEF CancelAudioEndTimeout, App
<1>5. \A f \in {"session", "device", "pending", "state", "errorShown", "fate", "heard",
                "sentFinal", "started", "buffered", "half", "connected", "ui"} : e[f] = c[f]
  BY DEF CancelAudioEndTimeout, App
<1> QED BY <1>1, <1>2, <1>3, <1>4, <1>5 DEF Quiet

LEMMA FinishFacts ==
  ASSUME NEW c \in App
  PROVE  /\ FinishRecognitionCycle(c) \in App
         /\ Quiet(c, FinishRecognitionCycle(c))
         /\ ~FinishRecognitionCycle(c).waiting
         /\ ~FinishRecognitionCycle(c).sentFinal
         /\ \A f \in {"session", "device", "pending", "state", "errorShown", "fate", "connected", "ui"} :
              FinishRecognitionCycle(c)[f] = c[f]
<1> DEFINE e == FinishRecognitionCycle(c)
<1>1. e \in App
  BY Empties DEF FinishRecognitionCycle, CancelAudioEndTimeout, App
<1>2. Calm(c, e)
  BY DEF FinishRecognitionCycle, CancelAudioEndTimeout, App, Calm, Steady
<1>3. Kept(c, e)
  BY DEF FinishRecognitionCycle, CancelAudioEndTimeout, App, Kept
<1>4. ~e.waiting /\ ~e.sentFinal
  BY DEF FinishRecognitionCycle, CancelAudioEndTimeout, App
<1>5. \A f \in {"session", "device", "pending", "state", "errorShown", "fate", "connected", "ui"} : e[f] = c[f]
  BY DEF FinishRecognitionCycle, CancelAudioEndTimeout, App
<1> QED BY <1>1, <1>2, <1>3, <1>4, <1>5 DEF Quiet

LEMMA AsrEndFacts ==
  ASSUME NEW c \in App, NEW end \in Fates \ {"active"}
  PROVE  /\ AsrEnd(c, end) \in App
         /\ AsrEnd(c, end) = [c EXCEPT !.fate = AsrEnd(c, end).fate]
         /\ Quiet(c, AsrEnd(c, end))
         /\ AsrActive(AsrEnd(c, end)) = {}
<1> DEFINE e == AsrEnd(c, end)
<1>1. e \in App
  BY DEF AsrEnd, AsrActive, App, Fates
<1>2. e = [c EXCEPT !.fate = e.fate]
  BY DEF AsrEnd, App
<1>3. Calm(c, e)
  BY DEF AsrEnd, AsrActive, App, Calm, Steady
<1>4. Kept(c, e)
  BY DEF AsrEnd, App, Kept
<1>5. AsrActive(e) = {}
  BY DEF AsrEnd, AsrActive, App
<1> QED BY <1>1, <1>2, <1>3, <1>4, <1>5 DEF Quiet

-----------------------------------------------------------------------------
\* The overlay and its callbacks.

LEMMA CallbackFacts ==
  /\ NoCallback \in Callbacks /\ Recover \in Callbacks /\ UpgradePage \in Callbacks
  /\ \A text \in Texts \cup {Empty} : Commit(text) \in Callbacks
BY DEF Callbacks

LEMMA CallFacts ==
  /\ Listening \in Call /\ Partial \in Call /\ PausedFinal \in Call
  /\ \A done \in Callbacks : Countdown(done) \in Call /\ ErrorText(done) \in Call /\ Hide(done) \in Call
BY DEF Call, Listening, Partial, PausedFinal, Countdown, ErrorText, Hide

LEMMA OverlayFacts ==
  ASSUME NEW overlay \in Overlays(Callbacks), NEW call \in Call
  PROVE  /\ Applied(overlay, call) \in Overlays(Callbacks)
         /\ Due(overlay, call) \in Callbacks
         /\ call.call # "hide" => Due(overlay, call) = NoCallback
<1>1. NoCallback \in Callbacks
  BY CallbackFacts
<1>2. CASE call.call = "hide"
  <2>1. call.callback \in Callbacks
    BY <1>2 DEF Call
  <2>2. Applied(overlay, call) = Hidden
    BY <1>2 DEF Applied, Faded
  <2>3. Hidden \in Overlays(Callbacks)
    BY <1>1 DEF Hidden, Overlays
  <2>4. overlay.callback \in Callbacks
    BY DEF Overlays
  <2> QED BY <2>1, <2>2, <2>3, <2>4, <1>2 DEF Due
<1>3. CASE call.call \in {"countdown", "error"}
  <2>1. call.callback \in Callbacks
    BY <1>3 DEF Call
  <2>2. Applied(overlay, call) = ShowTimed(call.call, call.callback)
    BY <1>3 DEF Applied
  <2>3. ShowTimed(call.call, call.callback) \in Overlays(Callbacks)
    BY <2>1, <1>3 DEF ShowTimed, Overlays
  <2> QED BY <2>2, <2>3, <1>3, <1>1 DEF Due
<1>4. CASE call.call \in {"listening", "partial", "paused"}
  <2>1. Applied(overlay, call) \in {Show(overlay, "listening"), Show(overlay, "paused")}
    BY <1>4 DEF Applied
  <2>2. \A mode \in {"listening", "paused"} : Show(overlay, mode) \in Overlays(Callbacks)
    BY DEF Show, Overlays
  <2> QED BY <2>1, <2>2, <1>4, <1>1 DEF Due
<1>5. call.call \in {"listening", "partial", "paused", "countdown", "error", "hide"}
  BY DEF Call
<1> QED BY <1>2, <1>3, <1>4, <1>5

LEMMA KeepOverlayFacts ==
  ASSUME NEW c \in App, ~c.waiting \/ c.errorShown \/ c.session = NoSession
  PROVE  /\ EnterReadyKeepingOverlay(c) \in App
         /\ Quiet(c, EnterReadyKeepingOverlay(c))
<1> DEFINE d == SendUiState(c, "ready")
<1> DEFINE e == EnterReadyKeepingOverlay(c)
<1>1. d \in App /\ Quiet(c, d) /\ d = [c EXCEPT !.ui = d.ui]
  BY SendFacts DEF Tellable
<1>2. e = [d EXCEPT !.state = "ready", !.device = NoDevice]
  BY DEF EnterReadyKeepingOverlay
<1>3. d.waiting = c.waiting /\ d.errorShown = c.errorShown /\ d.session = c.session
  BY <1>1 DEF App
<1> HIDE DEF d, e
<1>4. e \in App
  BY <1>1, <1>2 DEF App, States
<1>5. Calm(d, e)
  BY <1>1, <1>2, <1>3 DEF App, Calm, Steady
<1>6. Kept(d, e)
  BY <1>1, <1>2 DEF App, Kept
<1>7. Quiet(c, e)
  BY <1>1, <1>5, <1>6, QuietTwice DEF Quiet
<1> QED BY <1>4, <1>7 DEF e

LEMMA RecoverFacts ==
  ASSUME NEW c \in App
  PROVE  RecoverFromAsrError(c) \in App /\ Quiet(c, RecoverFromAsrError(c))
<1>1. CASE ~c.errorShown
  <2>1. RecoverFromAsrError(c) = c
    BY <1>1 DEF RecoverFromAsrError
  <2>2. Calm(c, c) /\ Kept(c, c)
    BY DEF Calm, Steady, Kept
  <2> QED BY <2>1, <2>2 DEF Quiet
<1>2. CASE c.errorShown
  <2> DEFINE e == RecoverFromAsrError(c)
  <2> DEFINE a == [c EXCEPT !.errorShown = FALSE]
  <2>1. a \in App
    BY DEF App
  <2> DEFINE u == SendUiState(a, "ready")
  <2>2. u \in App /\ u = [a EXCEPT !.ui = u.ui]
    BY <2>1, SendFacts DEF Tellable
  <2>3. e = [u EXCEPT !.state = "ready", !.device = NoDevice]
    BY <1>2 DEF RecoverFromAsrError, EnterReadyKeepingOverlay
  <2> HIDE DEF u, e
  <2>4. e \in App
    BY <2>2, <2>3 DEF App, States
  <2>5. e = [c EXCEPT !.errorShown = FALSE, !.ui = u.ui, !.state = "ready", !.device = NoDevice]
    BY <2>2, <2>3 DEF App
  <2>6. Calm(c, e)
    BY <2>5, <1>2 DEF App, Calm, Steady
  <2>7. Kept(c, e)
    BY <2>5 DEF App, Kept
  <2> QED BY <2>4, <2>6, <2>7 DEF e, Quiet
<1> QED BY <1>1, <1>2 DEF App

\* The text put up is typed, and put up no more.
Typed(c, e) ==
  /\ e.pending = Idle
  /\ \A i \in Inputs : e.typed[i] = IF i = c.pending.of THEN c.typed[i] + 1 ELSE c.typed[i]
  /\ e.shown = c.shown /\ e.last = c.last /\ e.dropped = c.dropped /\ e.late = c.late

LEMMA CompleteFacts ==
  ASSUME NEW c \in App
  PROVE  /\ CompletePendingPaste(c) \in App
         /\ Calm(c, CompletePendingPaste(c))
         /\ Typed(c, CompletePendingPaste(c))
<1> DEFINE b == [c EXCEPT !.pending = Idle, !.typed[c.pending.of] = @ + 1]
<1> DEFINE d == FinishRecognitionCycle(b)
<1> DEFINE e == EnterReadyKeepingOverlay(d)
<1>1. c.pending.of \in Times /\ c.typed \in [Times -> Nat] /\ Inputs \subseteq Times
  BY BoundsAssumption DEF App, Confirmation, Times, Inputs
<1> DEFINE typed == [c.typed EXCEPT ![c.pending.of] = @ + 1]
<1>11. typed \in [Times -> Nat]
  BY <1>1
<1>12. b = [c EXCEPT !.pending = Idle, !.typed = typed]
  BY DEF App
<1>2. b \in App
  <2> HIDE DEF typed, b
  <2> QED BY <1>11, <1>12, Empties DEF App
<1>3. Calm(c, b)
  BY DEF App, Calm, Steady
<1>4. Typed(c, b)
  BY <1>1 DEF App, Typed
<1>5. d \in App /\ Quiet(b, d) /\ ~d.waiting
  BY <1>2, FinishFacts
<1>6. /\ d.pending = b.pending /\ d.typed = b.typed /\ d.shown = b.shown /\ d.last = b.last
      /\ d.dropped = b.dropped /\ d.late = b.late
  BY <1>2 DEF FinishRecognitionCycle, CancelAudioEndTimeout, App
<1> HIDE DEF d
<1>7. e \in App /\ Quiet(d, e)
  BY <1>5, KeepOverlayFacts
<1>8. /\ e.pending = d.pending /\ e.typed = d.typed /\ e.shown = d.shown /\ e.last = d.last
      /\ e.dropped = d.dropped /\ e.late = d.late
  BY <1>5 DEF EnterReadyKeepingOverlay, SendUiState, SendUiStateTo, App
<1>9. Calm(c, e)
  BY <1>3, <1>5, <1>7, CalmTwice DEF Quiet
<1>10. Typed(c, e)
  BY <1>4, <1>6, <1>8 DEF Typed
<1> QED BY <1>7, <1>9, <1>10 DEF CompletePendingPaste, d

\* What running a callback comes to.
LEMMA RunFacts ==
  ASSUME NEW c \in App, NEW callback
  PROVE  /\ Run(c, callback) \in App
         /\ Calm(c, Run(c, callback))
         /\ Kept(c, Run(c, callback)) \/ Typed(c, Run(c, callback))
         /\ callback = NoCallback => Run(c, callback) = c
<1>1. Calm(c, c) /\ Kept(c, c)
  BY DEF Calm, Steady, Kept
<1>2. Run(c, callback) \in {c, CompletePendingPaste(c), RecoverFromAsrError(c)}
  BY DEF Run, CommitPendingPaste
<1>3. callback = NoCallback => Run(c, callback) = c
  BY DEF Run, NoCallback
<1> QED BY <1>1, <1>2, <1>3, CompleteFacts, RecoverFacts DEF Quiet

LEMMA TypedNothing ==
  ASSUME NEW c \in App, NEW e \in App, c.pending = Idle, Typed(c, e)
  PROVE  Kept(c, e)
<1>1. c.pending.of \notin Inputs
  BY Empties DEF Idle
<1>2. \A i \in Inputs : e.typed[i] = c.typed[i]
  BY <1>1 DEF Typed
<1> QED BY <1>2 DEF Typed, Kept

LEMMA DisplayedFacts ==
  ASSUME NEW c \in App, NEW call \in Call
  PROVE  /\ Displayed(c, call) \in App
         /\ Calm(c, Displayed(c, call))
         /\ Kept(c, Displayed(c, call)) \/ Typed(c, Displayed(c, call))
         /\ c.pending = Idle => Quiet(c, Displayed(c, call))
         /\ call.call # "hide" =>
              /\ Displayed(c, call) = [c EXCEPT !.overlay = Applied(c.overlay, call)]
              /\ Quiet(c, Displayed(c, call))
<1> DEFINE b == [c EXCEPT !.overlay = Applied(c.overlay, call)]
<1> DEFINE e == Run(b, Due(c.overlay, call))
<1>1. c.overlay \in Overlays(Callbacks)
  BY DEF App
<1>2. /\ Applied(c.overlay, call) \in Overlays(Callbacks)
      /\ call.call # "hide" => Due(c.overlay, call) = NoCallback
  BY <1>1, OverlayFacts
<1>3. b \in App
  BY <1>2 DEF App
<1>4. Calm(c, b) /\ Kept(c, b)
  BY DEF App, Calm, Steady, Kept
<1>5. e \in App /\ Calm(b, e) /\ (Kept(b, e) \/ Typed(b, e))
  BY <1>3, RunFacts
<1>6. Calm(c, e)
  BY <1>4, <1>5, CalmTwice
<1>7. Kept(b, e) => Kept(c, e)
  BY <1>4, KeptTwice
<1>8. Typed(b, e) => Typed(c, e)
  BY DEF Typed, App
<1>9. Displayed(c, call) = e
  BY DEF Displayed
<1>10. c.pending = Idle => Kept(c, e)
  BY <1>5, <1>7, <1>8, TypedNothing
<1>11. call.call # "hide" => e = b
  BY <1>2, <1>3, RunFacts
<1> HIDE DEF b, e
<1>12. call.call # "hide" => Kept(c, e)
  BY <1>4, <1>11
<1>13. call.call # "hide" => e = [c EXCEPT !.overlay = Applied(c.overlay, call)]
  BY <1>11 DEF b
<1> QED BY <1>5, <1>6, <1>7, <1>8, <1>9, <1>10, <1>12, <1>13 DEF Quiet

LEMMA DisplayFacts ==
  ASSUME NEW c \in App, NEW t, NEW call \in Call
  PROVE  /\ Display(c, t, call) \in App
         /\ Calm(c, Display(c, t, call))
         /\ c.pending = Idle \/ call.call # "hide" \/ t # "ui" =>
              Quiet(c, Display(c, t, call))
         /\ call.call # "hide" \/ t # "ui" =>
              Display(c, t, call) = [c EXCEPT !.overlay = Display(c, t, call).overlay,
                                              !.posted = Display(c, t, call).posted]
<1>1. CASE t = "ui"
  <2>1. Display(c, t, call) = Displayed(c, call)
    BY <1>1 DEF Display
  <2>2. call.call # "hide" =>
          Displayed(c, call) = [c EXCEPT !.overlay = Displayed(c, call).overlay,
                                         !.posted = Displayed(c, call).posted]
    <3> DEFINE overlay == Applied(c.overlay, call)
    <3>1. SUFFICES ASSUME call.call # "hide"
                   PROVE  Displayed(c, call) = [c EXCEPT !.overlay = Displayed(c, call).overlay,
                                         !.posted = Displayed(c, call).posted]
      OBVIOUS
    <3>2. Displayed(c, call) = [c EXCEPT !.overlay = overlay]
      BY <3>1, DisplayedFacts
    <3> HIDE DEF overlay
    <3> QED BY <3>2 DEF App
  <2> QED BY <1>1, <2>1, <2>2, DisplayedFacts
<1>2. CASE t # "ui"
  <2> DEFINE post == [call |-> call, during |-> Situation(c)]
  <2> DEFINE e == [c EXCEPT !.posted = Append(c.posted, post)]
  <2>1. Display(c, t, call) = e
    BY <1>2 DEF Display, App
  <2>2. Append(c.posted, post) \in Posts
    <3>1. Situation(c) \in States \X BOOLEAN \X Times
      BY DEF Situation, App
    <3>2. post \in [call : Call, during : States \X BOOLEAN \X Times]
      BY <3>1
    <3>3. c.posted \in Posts
      BY DEF App
    <3> HIDE DEF post
    <3> QED BY <3>2, <3>3 DEF Posts
  <2> HIDE DEF post
  <2>3. e \in App
    BY <2>2 DEF App
  <2>4. Calm(c, e) /\ Kept(c, e)
    BY DEF App, Calm, Steady, Kept
  <2>5. e = [c EXCEPT !.overlay = e.overlay, !.posted = e.posted]
    BY DEF App
  <2> QED BY <2>1, <2>3, <2>4, <2>5 DEF Quiet
<1> QED BY <1>1, <1>2

-----------------------------------------------------------------------------
\* The states the coordinator enters.

LEMMA HideCalls ==
  /\ Hide(NoCallback) \in Call /\ Hide(NoCallback).call = "hide"
  /\ Listening \in Call /\ Listening.call # "hide"
  /\ Partial \in Call /\ Partial.call # "hide"
  /\ PausedFinal \in Call /\ PausedFinal.call # "hide"
  /\ ErrorText(Recover) \in Call /\ ErrorText(Recover).call # "hide"
  /\ \A text \in Texts \cup {Empty} : /\ Countdown(Commit(text)) \in Call
                                      /\ Countdown(Commit(text)).call # "hide"
                                      /\ Hide(Commit(text)) \in Call
  /\ Hide(UpgradePage) \in Call
<1>1. /\ Hide(NoCallback).call = "hide" /\ Listening.call # "hide" /\ Partial.call # "hide"
      /\ PausedFinal.call # "hide" /\ ErrorText(Recover).call # "hide"
      /\ \A text : Countdown(Commit(text)).call # "hide"
  BY DEF Hide, Listening, Partial, PausedFinal, ErrorText, Countdown
<1> QED BY <1>1, CallFacts, CallbackFacts

LEMMA EnterReadyFacts ==
  ASSUME NEW c \in App, NEW t, ~c.waiting, c.pending = Idle
  PROVE  EnterReady(c, t) \in App /\ Quiet(c, EnterReady(c, t))
<1> DEFINE u == SendUiState(c, "ready")
<1> DEFINE b == [u EXCEPT !.state = "ready"]
<1> DEFINE d == Display(b, t, Hide(NoCallback))
<1> DEFINE e == [d EXCEPT !.device = NoDevice]
<1>1. u \in App /\ u = [c EXCEPT !.ui = u.ui] /\ Quiet(c, u)
  BY SendFacts DEF Tellable
<1>2. ~u.waiting /\ u.pending = Idle
  BY <1>1 DEF App
<1> HIDE DEF u
<1>3. b \in App /\ ~b.waiting /\ b.pending = Idle
  BY <1>1, <1>2 DEF App, States
<1>4. Calm(u, b) /\ Kept(u, b)
  BY <1>1 DEF App, Calm, Steady, Kept
<1> HIDE DEF b
<1>5. d \in App /\ Quiet(b, d)
  BY <1>3, DisplayFacts, HideCalls
<1>6. ~d.waiting
  BY <1>3, <1>5 DEF Quiet, Calm, Steady, App
<1> HIDE DEF d
<1>7. e \in App
  BY <1>5 DEF App
<1>8. Calm(d, e) /\ Kept(d, e)
  BY <1>5, <1>6 DEF App, Calm, Steady, Kept
<1> HIDE DEF e
<1>9. Quiet(c, e)
  BY <1>1, <1>4, <1>5, <1>8, QuietTwice DEF Quiet
<1> QED BY <1>7, <1>9 DEF e, d, b, u, EnterReady

LEMMA EnterFinalizingFacts ==
  ASSUME NEW c \in App
  PROVE  /\ EnterFinalizing(c) \in App /\ Quiet(c, EnterFinalizing(c))
         /\ EnterFinalizing(c) = [c EXCEPT !.state = "finalizing", !.ui = EnterFinalizing(c).ui]
<1> DEFINE b == [c EXCEPT !.state = "finalizing"]
<1> DEFINE e == SendUiState(b, "thinking")
<1>1. b \in App
  BY DEF App, States
<1>2. Calm(c, b) /\ Kept(c, b)
  BY DEF App, Calm, Steady, Kept
<1>3. e \in App /\ Quiet(b, e) /\ e = [b EXCEPT !.ui = e.ui]
  BY <1>1, SendFacts DEF Tellable
<1>4. EnterFinalizing(c) = e
  BY DEF EnterFinalizing
<1> HIDE DEF e
<1>5. Quiet(c, e)
  BY <1>2, <1>3, QuietTwice DEF Quiet
<1>6. e = [c EXCEPT !.state = "finalizing", !.ui = e.ui]
  BY <1>3 DEF App
<1> QED BY <1>3, <1>4, <1>5, <1>6

LEMMA EnterErrorFacts ==
  ASSUME NEW c \in App, NEW t, c.session = NoSession
  PROVE  EnterError(c, t) \in App /\ Quiet(c, EnterError(c, t))
<1> DEFINE b == [c EXCEPT !.errorShown = TRUE, !.state = "error"]
<1> DEFINE u == SendUiState(b, "error")
<1> DEFINE e == Display(u, t, ErrorText(Recover))
<1>1. b \in App
  BY DEF App, States
<1>2. Calm(c, b) /\ Kept(c, b)
  BY DEF App, Calm, Steady, Kept
<1>3. u \in App /\ Quiet(b, u)
  BY <1>1, SendFacts DEF Tellable
<1> HIDE DEF b, u
<1>4. e \in App /\ Quiet(u, e)
  BY <1>3, DisplayFacts, HideCalls
<1>5. Quiet(c, e)
  BY <1>2, <1>3, <1>4, QuietTwice DEF Quiet
<1> QED BY <1>4, <1>5 DEF EnterError, b, u

\* Text i is put up for confirmation.
PutUp(c, e, i) ==
  /\ e.pending.kind # "idle" /\ e.pending.of = i
  /\ \A j \in Inputs : /\ e.typed[j] = c.typed[j]
                       /\ e.shown[j] = IF j = i THEN c.shown[j] + 1 ELSE c.shown[j]
  /\ e.last = c.last /\ e.dropped = c.dropped /\ e.late = c.late

LEMMA EnterPendingFacts ==
  ASSUME NEW c \in App, NEW t, NEW text \in Texts \cup {Empty}, NEW i \in Inputs
  PROVE  /\ EnterPendingConfirmation(c, t, text, i) \in App
         /\ Calm(c, EnterPendingConfirmation(c, t, text, i))
         /\ PutUp(c, EnterPendingConfirmation(c, t, text, i), i)
<1> DEFINE up == [kind |-> "waiting", text |-> text, of |-> i]
<1> DEFINE shown == [c.shown EXCEPT ![i] = @ + 1]
<1> DEFINE b == [c EXCEPT !.pending = up, !.state = "pending", !.shown[i] = @ + 1]
<1> DEFINE d == Display(b, t, Countdown(Commit(text)))
<1> DEFINE e == SendUiState(d, "pending")
<1>1. i \in Times
  BY BoundsAssumption DEF Inputs, Times
<1>2. up \in Confirmation
  BY <1>1 DEF Confirmation
<1>3. shown \in [Inputs -> Nat] /\ \A j \in Inputs : shown[j] = IF j = i THEN c.shown[j] + 1 ELSE c.shown[j]
  BY DEF App
<1>4. b = [c EXCEPT !.pending = up, !.state = "pending", !.shown = shown]
  BY DEF App
<1>5. up.kind # "idle" /\ up.of = i
  OBVIOUS
<1> HIDE DEF up, shown, b
<1>6. b \in App
  BY <1>2, <1>3, <1>4 DEF App, States
<1>7. Calm(c, b)
  BY <1>4 DEF App, Calm, Steady
<1>8. PutUp(c, b, i)
  BY <1>3, <1>4, <1>5 DEF App, PutUp
<1>9. d \in App /\ Quiet(b, d) /\ d = [b EXCEPT !.overlay = d.overlay, !.posted = d.posted]
  BY <1>6, DisplayFacts, HideCalls
<1> HIDE DEF d
<1>10. e \in App /\ Quiet(d, e) /\ e = [d EXCEPT !.ui = e.ui]
  BY <1>9, SendFacts DEF Tellable
<1> HIDE DEF e
<1>11. Calm(c, e)
  BY <1>7, <1>9, <1>10, CalmTwice DEF Quiet
<1>12. /\ e.pending = b.pending /\ e.typed = b.typed /\ e.shown = b.shown
       /\ e.last = b.last /\ e.dropped = b.dropped /\ e.late = b.late
  <2>1. /\ d.pending = b.pending /\ d.typed = b.typed /\ d.shown = b.shown
        /\ d.last = b.last /\ d.dropped = b.dropped /\ d.late = b.late
    BY <1>6, <1>9 DEF App
  <2>2. /\ e.pending = d.pending /\ e.typed = d.typed /\ e.shown = d.shown
        /\ e.last = d.last /\ e.dropped = d.dropped /\ e.late = d.late
    BY <1>9, <1>10 DEF App
  <2> QED BY <2>1, <2>2
<1>13. PutUp(c, e, i)
  BY <1>8, <1>12 DEF PutUp
<1> QED BY <1>10, <1>11, <1>13 DEF e, d, b, up, EnterPendingConfirmation

\* The text put up waits on.
StaysUp(c, e) ==
  /\ e.pending.kind = "paused" /\ e.pending.of = c.pending.of
  /\ \A j \in Inputs : e.typed[j] = c.typed[j] /\ e.shown[j] = c.shown[j]
  /\ e.last = c.last /\ e.dropped = c.dropped /\ e.late = c.late

LEMMA EnterPausedFacts ==
  ASSUME NEW c \in App, NEW t
  PROVE  /\ EnterPausedConfirmation(c, t) \in App
         /\ Calm(c, EnterPausedConfirmation(c, t))
         /\ StaysUp(c, EnterPausedConfirmation(c, t))
<1> DEFINE up == [c.pending EXCEPT !.kind = "paused"]
<1> DEFINE b == [c EXCEPT !.pending.kind = "paused", !.state = "paused"]
<1> DEFINE d == Display(b, t, PausedFinal)
<1> DEFINE e == SendUiState(d, "pending")
<1>1. c.pending \in Confirmation
  BY DEF App
<1>2. up \in Confirmation /\ up.kind = "paused" /\ up.of = c.pending.of
  BY <1>1 DEF Confirmation
<1>3. b = [c EXCEPT !.pending = up, !.state = "paused"]
  BY DEF App
<1> HIDE DEF up, b
<1>4. b \in App
  BY <1>2, <1>3 DEF App, States
<1>5. Calm(c, b)
  BY <1>3 DEF App, Calm, Steady
<1>6. StaysUp(c, b)
  BY <1>2, <1>3 DEF App, StaysUp
<1>7. d \in App /\ Quiet(b, d) /\ d = [b EXCEPT !.overlay = d.overlay, !.posted = d.posted]
  BY <1>4, DisplayFacts, HideCalls
<1> HIDE DEF d
<1>8. e \in App /\ Quiet(d, e) /\ e = [d EXCEPT !.ui = e.ui]
  BY <1>7, SendFacts DEF Tellable
<1> HIDE DEF e
<1>9. Calm(c, e)
  BY <1>5, <1>7, <1>8, CalmTwice DEF Quiet
<1>10. /\ e.pending = b.pending /\ e.typed = b.typed /\ e.shown = b.shown
       /\ e.last = b.last /\ e.dropped = b.dropped /\ e.late = b.late
  <2>1. /\ d.pending = b.pending /\ d.typed = b.typed /\ d.shown = b.shown
        /\ d.last = b.last /\ d.dropped = b.dropped /\ d.late = b.late
    BY <1>4, <1>7 DEF App
  <2>2. /\ e.pending = d.pending /\ e.typed = d.typed /\ e.shown = d.shown
        /\ e.last = d.last /\ e.dropped = d.dropped /\ e.late = d.late
    BY <1>7, <1>8 DEF App
  <2> QED BY <2>1, <2>2
<1>11. StaysUp(c, e)
  BY <1>6, <1>10 DEF StaysUp
<1> QED BY <1>8, <1>9, <1>11 DEF e, d, b, EnterPausedConfirmation

\* The recording is over, whatever became of it.
LEMMA EndRecording ==
  ASSUME NEW c \in App
  PROVE  LET e == [c EXCEPT !.pending = Idle, !.session = NoSession]
         IN  e \in App /\ (~c.waiting => Quiet(c, e)) /\ e.session = NoSession /\ e.waiting = c.waiting
             /\ e.pending = Idle
<1> DEFINE e == [c EXCEPT !.pending = Idle, !.session = NoSession]
<1>1. e \in App
  BY Empties DEF App, NoSession
<1>2. ~c.waiting => Calm(c, e)
  BY DEF App, Calm, Steady, NoSession
<1>3. Kept(c, e)
  BY DEF App, Kept
<1>4. e.session = NoSession /\ e.waiting = c.waiting /\ e.pending = Idle
  BY DEF App
<1> QED BY <1>1, <1>2, <1>3, <1>4 DEF Quiet

LEMMA FinishWithErrorFacts ==
  ASSUME NEW c \in App, NEW t
  PROVE  /\ FinishWithAsrError(c, t) \in App
         /\ Quiet(c, FinishWithAsrError(c, t))
         /\ FinishWithAsrError(c, t).session = NoSession
         /\ \A i \in Inputs : FinishWithAsrError(c, t).fate[i] # "active"
         /\ FinishWithAsrError(c, t).sentFinal = FALSE
<1> DEFINE a == CancelAudioEndTimeout(c)
<1> DEFINE b == AsrCancel(a)
<1> DEFINE d == [b EXCEPT !.pending = Idle, !.session = NoSession]
<1> DEFINE f == FinishRecognitionCycle(d)
<1> DEFINE e == EnterError(f, t)
<1>1. a \in App /\ Quiet(c, a) /\ ~a.waiting
  BY CancelTimeoutFacts
<1> HIDE DEF a
<1>2. b \in App /\ Quiet(a, b) /\ b = [a EXCEPT !.fate = b.fate] /\ AsrActive(b) = {}
  BY <1>1, AsrEndFacts DEF AsrCancel, Fates
<1>3. ~b.waiting
  BY <1>1, <1>2 DEF App
<1> HIDE DEF b
<1>4. d \in App /\ Quiet(b, d) /\ d.session = NoSession
  BY <1>2, <1>3, EndRecording
<1> HIDE DEF d
<1>5. f \in App /\ Quiet(d, f) /\ f.session = NoSession /\ ~f.sentFinal
  BY <1>4, FinishFacts
<1> HIDE DEF f
<1>6. e \in App /\ Quiet(f, e)
  BY <1>5, EnterErrorFacts
<1> HIDE DEF e
<1>7. Quiet(b, e)
  BY <1>4, <1>5, <1>6, QuietTwice
<1>8. Quiet(c, e)
  BY <1>1, <1>2, <1>7, QuietTwice
<1>9. e.session = NoSession /\ e.sentFinal = FALSE
  <2>1. e.sentFinal \in BOOLEAN
    BY <1>6 DEF App
  <2> QED BY <2>1, <1>5, <1>6 DEF Quiet, Calm, Steady
<1>10. \A i \in Inputs : e.fate[i] # "active"
  BY <1>2, <1>7 DEF Quiet, Calm, AsrActive
<1> QED BY <1>6, <1>8, <1>9, <1>10 DEF e, f, d, b, a, FinishWithAsrError

LEMMA DropFacts ==
  ASSUME NEW c \in App
  PROVE  /\ Drop(c) \in App
         /\ Calm(c, Drop(c))
         /\ Drop(c) = [c EXCEPT !.dropped = Drop(c).dropped]
         /\ c.dropped \subseteq Drop(c).dropped
<1>1. c.dropped \cup InHand(c) \in SUBSET Inputs
  BY DEF App, InHand, Recorded, Offered
<1>2. Drop(c) = [c EXCEPT !.dropped = c.dropped \cup InHand(c)]
  BY DEF Drop, App
<1>3. Drop(c).dropped = c.dropped \cup InHand(c)
  BY DEF Drop, App
<1>4. Drop(c) \in App
  BY <1>1, <1>2 DEF App
<1>5. Calm(c, Drop(c))
  BY <1>2 DEF App, Calm, Steady
<1> QED BY <1>2, <1>3, <1>4, <1>5

LEMMA CancelCycleFacts ==
  ASSUME NEW c \in App, NEW t
  PROVE  /\ CancelCycle(c, t) \in App
         /\ Quiet(c, CancelCycle(c, t))
         /\ CancelCycle(c, t).session = NoSession
         /\ CancelCycle(c, t).sentFinal = FALSE
<1> DEFINE a == Drop(c)
<1> DEFINE b == AsrCancel(a)
<1> DEFINE d == [b EXCEPT !.pending = Idle, !.session = NoSession]
<1> DEFINE f == FinishRecognitionCycle(d)
<1> DEFINE e == EnterReady(f, t)
<1>1. a \in App /\ a = [c EXCEPT !.dropped = a.dropped] /\ c.dropped \subseteq a.dropped
  BY DropFacts
<1> HIDE DEF a
<1>2. b \in App /\ b = [a EXCEPT !.fate = b.fate] /\ Calm(a, b)
  BY <1>1, AsrEndFacts DEF AsrCancel, Fates, Quiet
<1> HIDE DEF b
<1>3. d \in App /\ d.session = NoSession /\ d.pending = Idle
  BY <1>2, EndRecording
<1>4. f \in App /\ f.session = NoSession /\ f.pending = Idle /\ ~f.waiting /\ ~f.sentFinal
  BY <1>3, FinishFacts
<1>5. Kept(c, d)
  BY <1>1, <1>2 DEF App, Kept
<1>6. Calm(c, f)
  <2>1. b.fed = c.fed /\ b.input = c.input /\ b.heard = c.heard /\ b.session = c.session
        /\ b.device = c.device /\ b.buffered = c.buffered /\ b.started = c.started
        /\ b.sentFinal = c.sentFinal /\ b.errorShown = c.errorShown
    BY <1>1, <1>2 DEF App
  <2>2. \A i \in Inputs : b.fate[i] = "active" => c.fate[i] = "active"
    <3>1. a.fate = c.fate
      BY <1>1 DEF App
    <3> QED BY <3>1, <1>2 DEF Calm
  <2>3. /\ d.fed = b.fed /\ d.input = b.input /\ d.heard = b.heard
        /\ d.device = b.device /\ d.buffered = b.buffered /\ d.started = b.started
        /\ d.sentFinal = b.sentFinal /\ d.errorShown = b.errorShown /\ d.fate = b.fate
    BY <1>2 DEF App
  <2>4. Calm(d, f)
    BY <1>3, FinishFacts DEF Quiet
  <2> HIDE DEF d, f
  <2> QED BY <1>3, <1>4, <2>1, <2>2, <2>3, <2>4 DEF Calm, Steady
<1>7. Kept(d, f)
  BY <1>3, FinishFacts DEF Quiet
<1> HIDE DEF d, f
<1>8. e \in App /\ Quiet(f, e)
  BY <1>4, EnterReadyFacts
<1> HIDE DEF e
<1>9. Quiet(c, e)
  BY <1>5, <1>6, <1>7, <1>8, CalmTwice, KeptTwice DEF Quiet
<1>10. e.session = NoSession /\ e.sentFinal = FALSE
  <2>1. e.sentFinal \in BOOLEAN
    BY <1>8 DEF App
  <2> QED BY <2>1, <1>4, <1>8 DEF Quiet, Calm, Steady
<1> QED BY <1>8, <1>9, <1>10 DEF e, f, d, b, a, CancelCycle

-----------------------------------------------------------------------------
\* Audio.

Lucks == {"ok", "refused", "breaks", "silent"}

\* Chunks of recording i; only where over holds may one be the last, and then
\* it is the last.
ChunksOf(s, i, over) ==
  \A k \in DOMAIN s : s[k].of = i /\ (s[k].last => over /\ k = Len(s))

FeedOK(c) ==
  /\ \A i \in Inputs : ChunksOf(c.fed[i], i, TRUE)
  /\ ChunksOf(c.buffered, c.input, FALSE)
  /\ c.started => \A i \in Inputs : c.fate[i] = "active" => i = c.input

LEMMA CalmFeeds ==
  ASSUME NEW c \in App, NEW e \in App, FeedOK(c), Calm(c, e)
  PROVE  FeedOK(e)
<1>1. ChunksOf(<<>>, c.input, FALSE)
  <2>1. DOMAIN <<>> = {}
    OBVIOUS
  <2> QED BY <2>1 DEF ChunksOf
<1> QED BY <1>1 DEF FeedOK, Calm, Steady

LEMMA AppendChunks ==
  ASSUME NEW s \in Chunks, NEW i, NEW over \in BOOLEAN, NEW x \in Chunk,
         ChunksOf(s, i, FALSE), x = [of |-> i, last |-> over]
  PROVE  Append(s, x) \in Chunks /\ ChunksOf(Append(s, x), i, over)
<1>1. s \in Seq(Chunk)
  BY DEF Chunks
<1>2. x.of = i /\ x.last = over
  OBVIOUS
<1>3. /\ Append(s, x) \in Seq(Chunk) /\ Len(Append(s, x)) = Len(s) + 1
      /\ DOMAIN Append(s, x) = 1..(Len(s) + 1) /\ DOMAIN s = 1..Len(s)
      /\ Append(s, x)[Len(s) + 1] = x /\ \A k \in 1..Len(s) : Append(s, x)[k] = s[k]
  BY <1>1
<1>4. ASSUME NEW k \in 1..(Len(s) + 1)
      PROVE  Append(s, x)[k].of = i /\ (Append(s, x)[k].last => over /\ k = Len(s) + 1)
  <2>1. CASE k = Len(s) + 1
    BY <2>1, <1>2, <1>3
  <2>2. CASE k \in 1..Len(s)
    BY <2>2, <1>3 DEF ChunksOf
  <2>3. Len(s) \in Nat
    BY <1>1
  <2> QED BY <2>1, <2>2, <2>3
<1> QED BY <1>3, <1>4 DEF ChunksOf, Chunks

LEMMA ConcatChunks ==
  ASSUME NEW s \in Chunks, NEW u \in Chunks, NEW i, NEW over \in BOOLEAN,
         ChunksOf(s, i, FALSE), ChunksOf(u, i, over)
  PROVE  (s \o u) \in Chunks /\ ChunksOf(s \o u, i, over)
<1>1. s \in Seq(Chunk) /\ u \in Seq(Chunk)
  BY DEF Chunks
<1>2. /\ (s \o u) \in Seq(Chunk) /\ Len(s \o u) = Len(s) + Len(u)
      /\ DOMAIN (s \o u) = 1..(Len(s) + Len(u))
      /\ DOMAIN s = 1..Len(s) /\ DOMAIN u = 1..Len(u)
      /\ \A k \in 1..Len(s) : (s \o u)[k] = s[k]
      /\ \A k \in (Len(s) + 1)..(Len(s) + Len(u)) : (s \o u)[k] = u[k - Len(s)]
      /\ Len(s) \in Nat /\ Len(u) \in Nat
  BY <1>1
<1>3. ASSUME NEW k \in 1..(Len(s) + Len(u))
      PROVE  (s \o u)[k].of = i /\ ((s \o u)[k].last => over /\ k = Len(s) + Len(u))
  <2>1. CASE k \in 1..Len(s)
    BY <2>1, <1>2 DEF ChunksOf
  <2>2. CASE k \in (Len(s) + 1)..(Len(s) + Len(u))
    <3>1. k - Len(s) \in 1..Len(u) /\ (s \o u)[k] = u[k - Len(s)]
      BY <2>2, <1>2
    <3>2. u[k - Len(s)].of = i /\ (u[k - Len(s)].last => over /\ k - Len(s) = Len(u))
      BY <3>1, <1>2 DEF ChunksOf
    <3> QED BY <3>1, <3>2, <1>2
  <2> QED BY <2>1, <2>2, <1>2
<1> QED BY <1>2, <1>3 DEF ChunksOf, Chunks

\* What becomes of one more chunk of the recording in hand.
FedTo(c, e, over) ==
  /\ e \in App
  /\ Steady(c, e) /\ Kept(c, e)
  /\ FeedOK(e)
  /\ ChunksOf(e.fed[c.input], c.input, over)

LEMMA QuietFeeds ==
  ASSUME NEW c \in App, NEW e \in App, NEW over \in BOOLEAN, c.input \in Inputs,
         FeedOK(c), ChunksOf(c.fed[c.input], c.input, FALSE), Quiet(c, e)
  PROVE  FedTo(c, e, over)
<1>1. FeedOK(e)
  BY CalmFeeds DEF Quiet
<1>2. e.fed[c.input] = c.fed[c.input]
  BY DEF Quiet, Calm
<1>3. ChunksOf(e.fed[c.input], c.input, over)
  BY <1>2 DEF ChunksOf
<1> QED BY <1>1, <1>3 DEF FedTo, Quiet, Calm

LEMMA SendChunk ==
  ASSUME NEW c \in App, NEW t, NEW over \in BOOLEAN, NEW chunk \in Chunk, NEW luck \in Lucks,
         c.input \in Inputs, c.started, FeedOK(c), ChunksOf(c.fed[c.input], c.input, FALSE),
         chunk = [of |-> c.input, last |-> over]
  PROVE  FedTo(c, SendOggOpusChunk(c, t, chunk, luck), over)
<1> DEFINE e == SendOggOpusChunk(c, t, chunk, luck)
<1>1. CASE AsrActive(c) = {}
  <2>1. e = c
    BY <1>1 DEF SendOggOpusChunk
  <2>2. Quiet(c, c)
    BY DEF Quiet, Calm, Steady, Kept
  <2> QED BY <2>1, <2>2, QuietFeeds
<1>2. CASE AsrActive(c) # {} /\ luck \in {"ok", "refused"}
  <2> DEFINE more == Append(c.fed[c.input], chunk)
  <2> DEFINE fed == [i \in Inputs |-> IF i \in AsrActive(c) THEN Append(c.fed[i], chunk) ELSE c.fed[i]]
  <2>1. AsrActive(c) = {c.input}
    BY <1>2 DEF AsrActive, FeedOK
  <2>2. e = [c EXCEPT !.fed = fed]
    BY <1>2 DEF SendOggOpusChunk, App
  <2>3. c.fed \in [Inputs -> Chunks]
    BY DEF App
  <2>4. more \in Chunks /\ ChunksOf(more, c.input, over)
    BY <2>3, AppendChunks
  <2>5. fed[c.input] = more /\ \A i \in Inputs \ {c.input} : fed[i] = c.fed[i]
    BY <2>1
  <2>6. fed \in [Inputs -> Chunks]
    BY <2>1, <2>3, <2>4
  <2> HIDE DEF more, fed, e
  <2>7. e \in App
    BY <2>2, <2>6 DEF App
  <2>8. Steady(c, e)
    BY <2>2, <2>5 DEF App, Steady
  <2>9. Kept(c, e)
    BY <2>2 DEF App, Kept
  <2>10. ChunksOf(e.fed[c.input], c.input, over)
    BY <2>2, <2>4, <2>5 DEF App
  <2>11. FeedOK(e)
    <3>1. /\ e.fed = fed /\ e.buffered = c.buffered /\ e.input = c.input
          /\ e.started = c.started /\ e.fate = c.fate
      BY <2>2 DEF App
    <3>2. ChunksOf(more, c.input, TRUE)
      BY <2>4 DEF ChunksOf
    <3> QED BY <3>1, <3>2, <2>5 DEF FeedOK
  <2> QED BY <2>7, <2>8, <2>9, <2>10, <2>11 DEF FedTo, e
<1>3. CASE AsrActive(c) # {} /\ luck = "breaks"
  <2> DEFINE d == AsrEnd(c, "error")
  <2>1. e = FinishWithAsrError(d, t)
    BY <1>3 DEF SendOggOpusChunk
  <2>2. d \in App /\ Quiet(c, d)
    BY AsrEndFacts DEF Fates
  <2> HIDE DEF d
  <2>3. e \in App /\ Quiet(d, e)
    BY <2>1, <2>2, FinishWithErrorFacts
  <2> QED BY <2>2, <2>3, QuietTwice, QuietFeeds
<1>4. CASE AsrActive(c) # {} /\ luck = "silent"
  <2>1. e = AsrEnd(c, "silent")
    BY <1>4 DEF SendOggOpusChunk
  <2>2. e \in App /\ Quiet(c, e)
    BY <2>1, AsrEndFacts DEF Fates
  <2> QED BY <2>2, QuietFeeds
<1> QED BY <1>1, <1>2, <1>3, <1>4 DEF Lucks

LEMMA EmptyChunks ==
  ASSUME NEW i, NEW over
  PROVE  ChunksOf(<<>>, i, over)
<1>1. DOMAIN <<>> = {}
  OBVIOUS
<1> QED BY <1>1 DEF ChunksOf

LEMMA FlushBuffer ==
  ASSUME NEW c \in App, NEW t, NEW over \in BOOLEAN, NEW luck \in Lucks,
         c.input \in Inputs, ~c.started, c.buffered # <<>>,
         \A i \in Inputs : ChunksOf(c.fed[i], i, TRUE),
         ChunksOf(c.fed[c.input], c.input, FALSE), ChunksOf(c.buffered, c.input, over)
  PROVE  FedTo(c, StartAsrAndFlush(c, t, luck), over)
<1> DEFINE e == StartAsrAndFlush(c, t, luck)
<1>1. CASE AsrActive(c) # {} \/ luck = "refused"
  <2> DEFINE failed == [c EXCEPT !.buffered = <<>>]
  <2>1. failed \in App
    BY Empties DEF App
  <2>2. Quiet(c, failed)
    BY DEF App, Quiet, Calm, Steady, Kept
  <2>3. /\ failed.input = c.input /\ failed.fed = c.fed /\ failed.started = c.started
        /\ failed.buffered = <<>>
    BY DEF App
  <2>4. e \in {failed, FinishWithAsrError(failed, t)}
    BY <1>1 DEF StartAsrAndFlush
  <2> HIDE DEF failed, e
  <2>5. FeedOK(failed)
    BY <2>3, EmptyChunks DEF FeedOK
  <2>6. Quiet(failed, failed)
    BY DEF Quiet, Calm, Steady, Kept
  <2>7. e \in App /\ Quiet(failed, e)
    BY <2>1, <2>4, <2>6, FinishWithErrorFacts
  <2>8. FedTo(failed, e, over)
    BY <2>1, <2>3, <2>5, <2>7, QuietFeeds
  <2>9. Quiet(c, e)
    BY <2>2, <2>7, QuietTwice
  <2> QED BY <2>3, <2>8, <2>9 DEF FedTo, Quiet, Calm, e
<1> DEFINE fate == [c.fate EXCEPT ![c.input] = "active"]
<1> DEFINE begun == [c EXCEPT !.started = TRUE, !.fate[c.input] = "active"]
<1>2. fate \in [Inputs -> Fates] /\ fate[c.input] = "active" /\ \A i \in Inputs \ {c.input} : fate[i] = c.fate[i]
  BY DEF App, Fates
<1>3. begun = [c EXCEPT !.started = TRUE, !.fate = fate]
  BY DEF App
<1>4. CASE AsrActive(c) = {} /\ luck = "ok"
  <2> DEFINE more == c.fed[c.input] \o c.buffered
  <2> DEFINE fed == [c.fed EXCEPT ![c.input] = more]
  <2>1. c.fed \in [Inputs -> Chunks] /\ c.buffered \in Chunks
    BY DEF App
  <2>2. more \in Chunks /\ ChunksOf(more, c.input, over)
    BY <2>1, ConcatChunks
  <2>3. e = [begun EXCEPT !.fed[c.input] = @ \o c.buffered, !.buffered = <<>>]
    BY <1>4 DEF StartAsrAndFlush
  <2>4. begun.fed = c.fed
    BY DEF App
  <2>5. fed \in [Inputs -> Chunks] /\ fed[c.input] = more /\ \A i \in Inputs \ {c.input} : fed[i] = c.fed[i]
    BY <2>1, <2>2
  <2> HIDE DEF more, fate, begun
  <2>6. begun \in App
    BY <1>2, <1>3 DEF App
  <2>7. e = [begun EXCEPT !.fed = fed, !.buffered = <<>>]
    BY <2>3, <2>4, <2>6 DEF more, App
  <2> HIDE DEF fed, e
  <2>8. e = [c EXCEPT !.started = TRUE, !.fate = fate, !.fed = fed, !.buffered = <<>>]
    BY <2>7, <1>3 DEF App
  <2>9. e \in App
    BY <2>5, <2>8, <1>2, Empties DEF App
  <2>10. Steady(c, e)
    BY <2>5, <2>8 DEF App, Steady
  <2>11. Kept(c, e)
    BY <2>8 DEF App, Kept
  <2>12. e.fed = fed /\ e.buffered = <<>> /\ e.input = c.input /\ e.started /\ e.fate = fate
    BY <2>8 DEF App
  <2>13. \A i \in Inputs : fate[i] = "active" => i = c.input
    BY <1>2, <1>4 DEF AsrActive
  <2>14. ChunksOf(more, c.input, TRUE)
    BY <2>2 DEF ChunksOf
  <2>15. FeedOK(e)
    BY <2>5, <2>12, <2>13, <2>14, EmptyChunks DEF FeedOK
  <2> QED BY <2>2, <2>5, <2>9, <2>10, <2>11, <2>12, <2>15 DEF FedTo, e
<1>5. CASE AsrActive(c) = {} /\ luck \in {"breaks", "silent"}
  <2> DEFINE d == SendOggOpusChunk(begun, t, Head(c.buffered), luck)
  <2>1. e = [d EXCEPT !.buffered = <<>>]
    BY <1>5 DEF StartAsrAndFlush
  <2> HIDE DEF fate, begun
  <2>2. begun \in App
    BY <1>2, <1>3 DEF App
  <2>3. Steady(c, begun) /\ Kept(c, begun)
    BY <1>3 DEF App, Steady, Kept
  <2>4. begun.fed = c.fed /\ begun.input = c.input
    BY <1>3 DEF App
  <2>5. c.input \in AsrActive(begun)
    BY <1>2, <1>3 DEF AsrActive, App
  <2>6. d \in App /\ Quiet(begun, d) /\ \A i \in Inputs : d.fate[i] # "active"
    <3>1. CASE luck = "breaks"
      <4> DEFINE b == AsrEnd(begun, "error")
      <4>1. d = FinishWithAsrError(b, t)
        BY <2>5, <3>1 DEF SendOggOpusChunk
      <4>2. b \in App /\ Quiet(begun, b)
        BY <2>2, AsrEndFacts DEF Fates
      <4> HIDE DEF b, d
      <4>3. d \in App /\ Quiet(b, d) /\ \A i \in Inputs : d.fate[i] # "active"
        BY <4>1, <4>2, FinishWithErrorFacts
      <4> QED BY <4>2, <4>3, QuietTwice
    <3>2. CASE luck = "silent"
      <4>1. d = AsrEnd(begun, "silent")
        BY <2>5, <3>2 DEF SendOggOpusChunk
      <4> HIDE DEF d
      <4> QED BY <2>2, <4>1, AsrEndFacts DEF Fates, AsrActive
    <3> QED BY <3>1, <3>2, <1>5
  <2> HIDE DEF d, e
  <2>7. e \in App
    BY <2>1, <2>6, Empties DEF App
  <2>8. Quiet(d, e)
    BY <2>1, <2>6 DEF App, Quiet, Calm, Steady, Kept
  <2>9. Quiet(begun, e)
    BY <2>6, <2>8, QuietTwice
  <2>10. Steady(c, e) /\ Kept(c, e)
    BY <2>3, <2>9, SteadyTwice, KeptTwice DEF Quiet, Calm
  <2>11. e.fed = c.fed /\ e.buffered = <<>> /\ \A i \in Inputs : e.fate[i] # "active"
    BY <2>1, <2>4, <2>6, <2>9 DEF App, Quiet, Calm
  <2>12. FeedOK(e)
    BY <2>11, EmptyChunks DEF FeedOK
  <2>13. ChunksOf(e.fed[c.input], c.input, over)
    BY <2>11 DEF ChunksOf
  <2> QED BY <2>7, <2>10, <2>12, <2>13 DEF FedTo, e
<1> QED BY <1>1, <1>4, <1>5 DEF Lucks

LEMMA SendOrBuffer ==
  ASSUME NEW c \in App, NEW t, NEW over \in BOOLEAN, NEW chunk \in Chunk, NEW luck \in Lucks,
         NEW canStart \in BOOLEAN, over => canStart,
         c.input \in Inputs, FeedOK(c), ChunksOf(c.fed[c.input], c.input, FALSE),
         chunk = [of |-> c.input, last |-> over]
  PROVE  FedTo(c, SendOrBufferOggChunk(c, t, chunk, canStart, luck), over)
<1> DEFINE e == SendOrBufferOggChunk(c, t, chunk, canStart, luck)
<1>1. CASE c.started
  <2>1. e = SendOggOpusChunk(c, t, chunk, luck)
    BY <1>1 DEF SendOrBufferOggChunk
  <2> QED BY <1>1, <2>1, SendChunk
<1>2. CASE ~c.started
  <2> DEFINE more == Append(c.buffered, chunk)
  <2> DEFINE kept == [c EXCEPT !.buffered = more]
  <2>1. e = IF canStart THEN StartAsrAndFlush(kept, t, luck) ELSE kept
    BY <1>2 DEF SendOrBufferOggChunk, App
  <2>2. c.buffered \in Chunks
    BY DEF App
  <2>3. more \in Chunks /\ ChunksOf(more, c.input, over)
    BY <2>2, AppendChunks DEF FeedOK
  <2>4. more # <<>>
    <3>1. Len(more) = Len(c.buffered) + 1 /\ Len(c.buffered) \in Nat
      BY <2>2 DEF Chunks
    <3>2. Len(<<>>) = 0
      OBVIOUS
    <3>3. Len(more) # Len(<<>>)
      BY <3>1, <3>2
    <3> HIDE DEF more
    <3> QED BY <3>3
  <2> HIDE DEF more, e
  <2>5. kept \in App
    BY <2>3 DEF App
  <2>6. Steady(c, kept) /\ Kept(c, kept)
    BY DEF App, Steady, Kept
  <2>7. /\ kept.input = c.input /\ kept.fed = c.fed /\ kept.buffered = more
        /\ kept.started = c.started
    BY DEF App
  <2> HIDE DEF kept
  <2>8. CASE canStart
    <3>1. ASSUME NEW i \in Inputs PROVE ChunksOf(kept.fed[i], i, TRUE)
      BY <2>7 DEF FeedOK
    <3>2. FedTo(kept, StartAsrAndFlush(kept, t, luck), over)
      BY <1>2, <2>3, <2>4, <2>5, <2>7, <3>1, FlushBuffer
    <3>3. FedTo(kept, e, over)
      BY <2>1, <2>8, <3>2
    <3> QED BY <2>6, <2>7, <3>3, SteadyTwice, KeptTwice DEF FedTo, e
  <2>9. CASE ~canStart
    <3>1. e = kept
      BY <2>1, <2>9
    <3>2. FeedOK(kept)
      BY <1>2, <2>3, <2>7, <2>9 DEF FeedOK
    <3>3. ChunksOf(kept.fed[c.input], c.input, over)
      BY <2>7 DEF ChunksOf
    <3> QED BY <2>5, <2>6, <3>1, <3>2, <3>3 DEF FedTo, e
  <2> QED BY <2>8, <2>9
<1> QED BY <1>1, <1>2 DEF App

-----------------------------------------------------------------------------
\* Texts put up and typed.

PasteInv(c) ==
  /\ \/ c.pending = Idle
     \/ /\ c.pending.kind # "idle" /\ c.pending.of \in Inputs
        /\ c.typed[c.pending.of] < c.shown[c.pending.of]
        /\ c.pending.of \in c.dropped => c.late
  /\ c.last = Idle \/ (c.last.kind = "paused" /\ c.last.of \in Inputs)
  /\ \A i \in Inputs : c.typed[i] <= c.shown[i]

PasteStep(c, e) ==
  /\ PasteInv(e)
  /\ \A i \in e.dropped : e.typed[i] > c.typed[i] => e.late
  /\ c.late => e.late

\* A handler that takes no audio.
Handled(c, e) == e \in App /\ Calm(c, e) /\ PasteStep(c, e)

LEMMA Counts ==
  ASSUME NEW c \in App
  PROVE  /\ \A i \in Inputs : c.typed[i] \in Nat /\ c.shown[i] \in Nat
         /\ c.dropped \subseteq Inputs
<1>1. Inputs \subseteq Times
  BY BoundsAssumption DEF Inputs, Times
<1> QED BY <1>1 DEF App

LEMMA KeptPastes ==
  ASSUME NEW c \in App, NEW e \in App, PasteInv(c), Kept(c, e)
  PROVE  PasteStep(c, e)
<1>1. \A i \in e.dropped : i \in Inputs /\ ~(e.typed[i] > c.typed[i])
  BY Counts DEF Kept
<1>2. PasteInv(e)
  BY DEF PasteInv, Kept
<1> QED BY <1>1, <1>2 DEF PasteStep, Kept

LEMMA TypedPastes ==
  ASSUME NEW c \in App, NEW e \in App, PasteInv(c), Typed(c, e)
  PROVE  PasteStep(c, e)
<1>1. CASE c.pending = Idle
  BY <1>1, TypedNothing, KeptPastes
<1>2. CASE c.pending # Idle
  <2>1. \A i \in Inputs : c.typed[i] \in Nat /\ c.shown[i] \in Nat
    BY Counts
  <2>2. \A i \in Inputs : e.typed[i] <= e.shown[i]
    BY <1>2, <2>1 DEF PasteInv, Typed
  <2>3. PasteInv(e)
    BY <2>2 DEF PasteInv, Typed
  <2>4. e.dropped \subseteq Inputs
    BY Counts
  <2>5. ASSUME NEW i \in e.dropped, e.typed[i] > c.typed[i] PROVE e.late
    <3>1. i = c.pending.of
      BY <2>1, <2>4, <2>5 DEF Typed
    <3> QED BY <1>2, <2>5, <3>1 DEF PasteInv, Typed
  <2> QED BY <2>3, <2>5 DEF PasteStep, Typed
<1> QED BY <1>1, <1>2

LEMMA PutUpPastes ==
  ASSUME NEW c \in App, NEW e \in App, NEW i \in Inputs, PasteInv(c), PutUp(c, e, i),
         i \in c.dropped => c.late
  PROVE  PasteStep(c, e)
<1>1. \A j \in Inputs : c.typed[j] \in Nat /\ c.shown[j] \in Nat /\ e.typed[j] = c.typed[j]
  BY Counts DEF PutUp
<1>2. \A j \in Inputs : e.typed[j] <= e.shown[j]
  BY <1>1 DEF PasteInv, PutUp
<1>3. e.typed[i] < e.shown[i]
  BY <1>1 DEF PasteInv, PutUp
<1>4. PasteInv(e)
  BY <1>2, <1>3 DEF PasteInv, PutUp
<1>5. \A j \in e.dropped : ~(e.typed[j] > c.typed[j])
  BY <1>1, Counts
<1> QED BY <1>4, <1>5 DEF PasteStep, PutUp

LEMMA StaysUpPastes ==
  ASSUME NEW c \in App, NEW e \in App, PasteInv(c), StaysUp(c, e), c.pending.kind # "idle"
  PROVE  PasteStep(c, e)
<1>1. \A j \in Inputs : c.typed[j] \in Nat /\ e.typed[j] = c.typed[j]
  BY Counts DEF StaysUp
<1>2. c.pending # Idle
  BY DEF Idle
<1>3. PasteInv(e)
  BY <1>2 DEF PasteInv, StaysUp
<1>4. \A j \in e.dropped : ~(e.typed[j] > c.typed[j])
  BY <1>1, Counts
<1> QED BY <1>3, <1>4 DEF PasteStep, StaysUp

\* What comes before may not type.
LEMMA ThenPastes ==
  ASSUME NEW c, NEW b, NEW e \in App, \A i \in Inputs : b.typed[i] = c.typed[i],
         c.late => b.late, PasteStep(b, e)
  PROVE  PasteStep(c, e)
BY Counts DEF PasteStep

LEMMA QuietHandled ==
  ASSUME NEW c \in App, NEW e \in App, PasteInv(c), Quiet(c, e)
  PROVE  Handled(c, e)
BY KeptPastes DEF Quiet, Handled

LEMMA ItselfHandled ==
  ASSUME NEW c \in App, PasteInv(c)
  PROVE  Handled(c, c)
<1>1. Quiet(c, c)
  BY DEF Quiet, Calm, Steady, Kept
<1> QED BY <1>1, QuietHandled

LEMMA QuietThen ==
  ASSUME NEW c \in App, NEW b \in App, NEW e, PasteInv(c), Quiet(c, b),
         PasteInv(b) => Handled(b, e)
  PROVE  Handled(c, e)
<1>1. PasteInv(b)
  BY KeptPastes DEF Quiet, PasteStep
<1>2. Handled(b, e)
  BY <1>1
<1>3. Calm(c, e)
  BY <1>2, CalmTwice DEF Quiet, Handled
<1>4. PasteStep(c, e)
  BY <1>2, ThenPastes DEF Quiet, Kept, Handled
<1> QED BY <1>2, <1>3, <1>4 DEF Handled

LEMMA DisplayedHandled ==
  ASSUME NEW c \in App, NEW call \in Call, PasteInv(c)
  PROVE  Handled(c, Displayed(c, call))
<1> DEFINE e == Displayed(c, call)
<1>1. e \in App /\ Calm(c, e) /\ (Kept(c, e) \/ Typed(c, e))
  BY DisplayedFacts
<1> HIDE DEF e
<1>2. PasteStep(c, e)
  BY <1>1, KeptPastes, TypedPastes
<1> QED BY <1>1, <1>2 DEF Handled, e

LEMMA DisplayHandled ==
  ASSUME NEW c \in App, NEW t, NEW call \in Call, PasteInv(c)
  PROVE  Handled(c, Display(c, t, call))
<1>1. CASE t = "ui"
  BY <1>1, DisplayedHandled DEF Display
<1>2. CASE t # "ui"
  BY <1>2, DisplayFacts, QuietHandled
<1> QED BY <1>1, <1>2

LEMMA EnterReadyHandled ==
  ASSUME NEW c \in App, NEW t, ~c.waiting, PasteInv(c)
  PROVE  Handled(c, EnterReady(c, t))
<1> DEFINE u == SendUiState(c, "ready")
<1> DEFINE b == [u EXCEPT !.state = "ready"]
<1> DEFINE d == Display(b, t, Hide(NoCallback))
<1> DEFINE e == [d EXCEPT !.device = NoDevice]
<1>1. u \in App /\ Quiet(c, u) /\ u.waiting = c.waiting
  BY SendFacts DEF Tellable, App
<1> HIDE DEF u
<1>2. b \in App /\ Quiet(u, b) /\ ~b.waiting
  <2>1. b \in App /\ ~b.waiting
    BY <1>1 DEF App, States
  <2>2. Calm(u, b)
    BY <1>1 DEF App, Calm, Steady
  <2>3. Kept(u, b)
    BY <1>1 DEF App, Kept
  <2> QED BY <2>1, <2>2, <2>3 DEF Quiet
<1>3. Quiet(c, b)
  BY <1>1, <1>2, QuietTwice
<1> HIDE DEF b
<1>4. PasteInv(b) => Handled(b, d)
  BY <1>2, DisplayHandled, HideCalls
<1> HIDE DEF d
<1>5. Handled(c, d)
  BY <1>2, <1>3, <1>4, QuietThen
<1>6. d \in App /\ PasteInv(d) /\ ~d.waiting
  BY <1>5 DEF Handled, PasteStep, Calm, Steady
<1>7. e \in App
  BY <1>6 DEF App
<1>8. Quiet(d, e)
  <2>1. Calm(d, e)
    BY <1>6 DEF App, Calm, Steady
  <2>2. Kept(d, e)
    BY <1>6 DEF App, Kept
  <2> QED BY <2>1, <2>2 DEF Quiet
<1> HIDE DEF e
<1>9. Calm(c, e)
  BY <1>5, <1>8, CalmTwice DEF Handled, Quiet
<1>10. \A i \in Inputs : e.typed[i] = d.typed[i]
  BY <1>8 DEF Quiet, Kept
<1>11. PasteInv(e)
  BY <1>6, <1>7, <1>8, KeptPastes DEF Quiet, PasteStep
<1>12. \A i \in e.dropped : e.typed[i] > c.typed[i] => e.late
  <2>1. e.dropped \subseteq Inputs /\ \A i \in Inputs : d.shown[i] \in Nat /\ d.typed[i] \in Nat
    BY <1>6, <1>7, Counts
  <2>2. e = [d EXCEPT !.device = NoDevice]
    BY DEF e
  <2>3. e.dropped = d.dropped /\ e.late = d.late
    BY <1>6, <2>2 DEF App
  <2> QED BY <1>5, <1>10, <2>1, <2>3 DEF Handled, PasteStep
<1>13. c.late => e.late
  BY <1>5, <1>8 DEF Handled, PasteStep, Quiet, Kept
<1>14. PasteStep(c, e)
  BY <1>11, <1>12, <1>13 DEF PasteStep
<1> QED BY <1>7, <1>9, <1>14 DEF Handled, e, d, b, u, EnterReady

\* Of a recording that was too short, though a text is put up already.
LEMMA CancelShortHandled ==
  ASSUME NEW c \in App, NEW t, PasteInv(c)
  PROVE  /\ Handled(c, CancelShortRecording(c, t))
         /\ CancelShortRecording(c, t).session = NoSession
<1> DEFINE dropped == c.dropped \cup (Recorded(c) \ Offered(c))
<1> DEFINE a == [c EXCEPT !.dropped = dropped]
<1> DEFINE b == AsrCancel(a)
<1> DEFINE d == [b EXCEPT !.session = NoSession]
<1> DEFINE f == FinishRecognitionCycle(d)
<1> DEFINE e == EnterReady(f, t)
<1>0. CancelShortRecording(c, t) = e
  BY DEF CancelShortRecording, App
<1>1. dropped \in SUBSET Inputs
  BY DEF App, Recorded
<1>2. c.pending # Idle /\ c.pending.of \in dropped => c.late
  BY DEF PasteInv, Offered
<1> HIDE DEF dropped
<1>3. a \in App
  BY <1>1 DEF App
<1>4. /\ a.dropped = dropped /\ a.pending = c.pending /\ a.typed = c.typed /\ a.shown = c.shown
      /\ a.last = c.last /\ a.late = c.late /\ a.fate = c.fate
  BY DEF App
<1>5. a.fed = c.fed /\ a.input = c.input /\ a.heard = c.heard /\ a.session = c.session
      /\ a.device = c.device /\ a.buffered = c.buffered /\ a.started = c.started
      /\ a.sentFinal = c.sentFinal /\ a.errorShown = c.errorShown
  BY DEF App
<1>6. PasteInv(a)
  BY <1>2, <1>4 DEF PasteInv
<1> HIDE DEF a
<1>7. b \in App /\ b = [a EXCEPT !.fate = b.fate] /\ Quiet(a, b)
  BY <1>3, AsrEndFacts DEF AsrCancel, Fates
<1> HIDE DEF b
<1>8. b.fed = a.fed /\ b.input = a.input /\ b.heard = a.heard /\ b.session = a.session
      /\ b.device = a.device /\ b.buffered = a.buffered /\ b.started = a.started
      /\ b.sentFinal = a.sentFinal /\ b.errorShown = a.errorShown
  BY <1>3, <1>7 DEF App
<1>9. d \in App /\ d.session = NoSession /\ Kept(b, d)
  BY <1>7 DEF App, NoSession, Kept
<1>10. /\ d.fed = b.fed /\ d.input = b.input /\ d.heard = b.heard
       /\ d.device = b.device /\ d.buffered = b.buffered /\ d.started = b.started
       /\ d.sentFinal = b.sentFinal /\ d.errorShown = b.errorShown /\ d.fate = b.fate
  BY <1>7 DEF App
<1> HIDE DEF d
<1>11. f \in App /\ Quiet(d, f) /\ ~f.waiting /\ f.session = NoSession
  BY <1>9, FinishFacts
<1> HIDE DEF f
<1>12. Calm(c, f)
  <2>1. \A i \in Inputs : b.fate[i] = "active" => c.fate[i] = "active"
    BY <1>4, <1>7 DEF Quiet, Calm
  <2> QED BY <1>5, <1>8, <1>9, <1>10, <1>11, <2>1 DEF Quiet, Calm, Steady
<1>13. Kept(a, f)
  BY <1>7, <1>9, <1>11, KeptTwice DEF Quiet
<1>14. PasteInv(f)
  BY <1>3, <1>6, <1>11, <1>13, KeptPastes DEF PasteStep
<1>15. Handled(f, e)
  BY <1>11, <1>14, EnterReadyHandled
<1> HIDE DEF e
<1>16. \A i \in Inputs : f.typed[i] = c.typed[i]
  BY <1>4, <1>13 DEF Kept
<1>17. c.late => f.late
  BY <1>4, <1>13 DEF Kept
<1>18. Handled(c, e)
  BY <1>12, <1>15, <1>16, <1>17, CalmTwice, ThenPastes DEF Handled
<1>19. e.session = NoSession
  BY <1>11, <1>15 DEF Handled, Calm, Steady
<1> QED BY <1>0, <1>18, <1>19

-----------------------------------------------------------------------------
\* The end of a recording's audio.

\* The recording in hand gets no more audio.
Ended(c, e) ==
  /\ e \in App
  /\ PasteStep(c, e)
  /\ FeedOK(e)
  /\ e.session = NoSession /\ ~e.waiting
  /\ e.input = c.input
  /\ \A i \in Inputs \ {c.input} : e.fed[i] = c.fed[i]
  /\ ~c.heard => e.fed = c.fed

LEMMA HandledEnds ==
  ASSUME NEW c \in App, NEW e, FeedOK(c), ~c.waiting, Handled(c, e), e.session = NoSession
  PROVE  Ended(c, e)
<1>1. FeedOK(e)
  BY CalmFeeds DEF Handled
<1>2. ~e.waiting
  BY DEF Handled, Calm, Steady
<1> QED BY <1>1, <1>2 DEF Ended, Handled, Calm, Steady

\* Also when the end marker, the timeout and the loss of the link compete.
LEMMA SendFinal ==
  ASSUME NEW c \in App, NEW t, NEW luck \in Lucks, c.input \in Inputs, ~c.sentFinal,
         FeedOK(c), c.heard => ChunksOf(c.fed[c.input], c.input, FALSE), PasteInv(c)
  PROVE  Ended(c, SendFinalOggChunkIfNeeded(c, t, luck))
<1> DEFINE a == [c EXCEPT !.sentFinal = TRUE]
<1> DEFINE ending == CancelAudioEndTimeout(a)
<1> DEFINE final == [of |-> c.input, last |-> TRUE]
<1> DEFINE b == [ending EXCEPT !.session = NoSession]
<1> DEFINE f == SendOrBufferOggChunk(b, t, final, TRUE, luck)
<1> DEFINE e == SendFinalOggChunkIfNeeded(c, t, luck)
<1>1. e = IF ~c.started /\ ~c.half THEN CancelShortRecording(ending, t)
          ELSE IF ~c.heard THEN FinishWithAsrError(ending, t)
          ELSE EnterFinalizing(f)
  BY DEF SendFinalOggChunkIfNeeded, FinalUnsent
<1>2. ending = [c EXCEPT !.sentFinal = TRUE, !.waiting = FALSE, !.timeout = <<>>]
  BY DEF CancelAudioEndTimeout, App
<1>3. final \in Chunk
  BY DEF Chunk, App
<1> HIDE DEF e, f, final, ending
<1>4. ending \in App /\ ~ending.waiting
  BY <1>2, Empties DEF App
<1>5. /\ ending.fed = c.fed /\ ending.buffered = c.buffered /\ ending.input = c.input
      /\ ending.started = c.started /\ ending.fate = c.fate /\ ending.heard = c.heard
  BY <1>2 DEF App
<1>6. FeedOK(ending)
  BY <1>5 DEF FeedOK
<1>7. Kept(c, ending)
  BY <1>2 DEF App, Kept
<1>8. PasteInv(ending) /\ \A i \in Inputs : ending.typed[i] = c.typed[i]
  BY <1>4, <1>7, KeptPastes DEF PasteStep, Kept
<1>9. ASSUME Ended(ending, e)
      PROVE  Ended(c, e)
  <2>1. PasteStep(c, e)
    BY <1>7, <1>8, <1>9, ThenPastes DEF Ended, Kept
  <2> QED BY <1>5, <1>9, <2>1 DEF Ended
<1>10. CASE ~c.started /\ ~c.half
  <2>1. e = CancelShortRecording(ending, t)
    BY <1>1, <1>10
  <2>2. Handled(ending, e) /\ e.session = NoSession
    BY <1>4, <1>8, <2>1, CancelShortHandled
  <2> QED BY <1>4, <1>6, <1>9, <2>2, HandledEnds DEF e
<1>11. CASE ~(~c.started /\ ~c.half) /\ ~c.heard
  <2>1. e = FinishWithAsrError(ending, t)
    BY <1>1, <1>11
  <2>2. e \in App /\ Quiet(ending, e) /\ e.session = NoSession
    BY <1>4, <2>1, FinishWithErrorFacts
  <2> QED BY <1>4, <1>6, <1>8, <1>9, <2>2, QuietHandled, HandledEnds DEF e
<1>12. CASE ~(~c.started /\ ~c.half) /\ c.heard
  <2>1. e = EnterFinalizing(f)
    BY <1>1, <1>12
  <2>2. b \in App /\ b.session = NoSession /\ ~b.waiting
    BY <1>4 DEF App, NoSession
  <2>3. /\ b.fed = c.fed /\ b.buffered = c.buffered /\ b.input = c.input
        /\ b.started = c.started /\ b.fate = c.fate /\ b.heard = c.heard
    BY <1>4, <1>5 DEF App
  <2>4. Kept(ending, b)
    BY <1>4 DEF App, Kept
  <2>5. FeedOK(b)
    BY <2>3 DEF FeedOK
  <2> HIDE DEF b
  <2>6. FedTo(b, f, TRUE)
    BY <1>3, <1>12, <2>2, <2>3, <2>5, SendOrBuffer DEF f, final
  <2>7. f \in App /\ f.session = NoSession /\ ~f.waiting
    BY <2>2, <2>6 DEF FedTo, Steady
  <2>8. e \in App /\ Quiet(f, e)
    BY <2>1, <2>7, EnterFinalizingFacts
  <2>9. FeedOK(e)
    BY <2>6, <2>7, <2>8, CalmFeeds DEF FedTo, Quiet
  <2>10. Kept(c, e)
    BY <1>7, <2>4, <2>6, <2>8, KeptTwice DEF FedTo, Quiet
  <2>11. e.session = NoSession /\ ~e.waiting /\ e.input = c.input
    BY <2>3, <2>6, <2>7, <2>8 DEF FedTo, Quiet, Calm, Steady
  <2>12. \A i \in Inputs \ {c.input} : e.fed[i] = c.fed[i]
    BY <2>3, <2>6, <2>8 DEF FedTo, Quiet, Calm, Steady
  <2>13. PasteStep(c, e)
    BY <2>8, <2>10, KeptPastes
  <2> QED BY <1>12, <2>8, <2>9, <2>11, <2>12, <2>13 DEF Ended, e
<1> QED BY <1>10, <1>11, <1>12 DEF e

-----------------------------------------------------------------------------
\* Buttons.

LEMMA RefreshFacts ==
  ASSUME NEW c \in App, NEW d
  PROVE  RefreshDeviceUiState(c, d) \in App /\ Quiet(c, RefreshDeviceUiState(c, d))
<1> DEFINE own == CASE c.state = "recording"  -> "recording"
                    [] c.state = "finalizing" -> "thinking"
                    [] c.state \in {"pending", "paused"} -> "pending"
                    [] c.state \in {"error", "ready"} -> c.state
<1>1. own \in Tellable
  BY DEF App, States, Tellable
<1>2. (IF c.device = d THEN own ELSE "ready") \in Tellable
  BY <1>1 DEF Tellable
<1> QED BY <1>2, SendToFacts DEF RefreshDeviceUiState

LEMMA FrontHandled ==
  ASSUME NEW c \in App, NEW d, PasteInv(c), c.pending.kind # "idle"
  PROVE  Handled(c, HandleFrontButtonDuringPendingPaste(c, d))
<1> DEFINE e == HandleFrontButtonDuringPendingPaste(c, d)
<1>1. e \in {c, EnterPausedConfirmation(c, "ui"), Displayed(c, Hide(Commit(c.pending.text)))}
  BY DEF HandleFrontButtonDuringPendingPaste
<1>2. Handled(c, EnterPausedConfirmation(c, "ui"))
  BY EnterPausedFacts, StaysUpPastes DEF Handled
<1>3. Hide(Commit(c.pending.text)) \in Call
  BY HideCalls DEF App, Confirmation
<1>4. Handled(c, Displayed(c, Hide(Commit(c.pending.text))))
  BY <1>3, DisplayedHandled
<1> QED BY <1>1, <1>2, <1>4, ItselfHandled

LEMMA RestoreHandled ==
  ASSUME NEW c \in App, NEW d \in Devices \cup {NoDevice}, PasteInv(c)
  PROVE  Handled(c, RestoreLastInputConfirmation(c, d))
<1>1. CASE ~Restorable(c)
  BY <1>1, ItselfHandled DEF RestoreLastInputConfirmation
<1>2. CASE Restorable(c)
  <2> DEFINE shown == [c.shown EXCEPT ![c.last.of] = @ + 1]
  <2> DEFINE dropped == c.dropped \ {c.last.of}
  <2> DEFINE b == [c EXCEPT !.device = d, !.pending = c.last, !.shown[c.last.of] = @ + 1,
                            !.dropped = @ \ {c.last.of}]
  <2> DEFINE e == EnterPausedConfirmation(b, "ui")
  <2>1. c.last # Idle /\ c.session = NoSession
    BY <1>2 DEF Restorable
  <2>2. c.last.kind = "paused" /\ c.last.of \in Inputs
    BY <2>1 DEF PasteInv
  <2>3. /\ shown \in [Inputs -> Nat]
        /\ \A j \in Inputs : shown[j] = IF j = c.last.of THEN c.shown[j] + 1 ELSE c.shown[j]
    BY <2>2 DEF App
  <2>4. b = [c EXCEPT !.device = d, !.pending = c.last, !.shown = shown, !.dropped = dropped]
    BY DEF App
  <2>5. dropped \in SUBSET Inputs /\ c.last.of \notin dropped
    BY DEF App
  <2> HIDE DEF shown, dropped, b
  <2>6. b \in App
    BY <2>3, <2>4, <2>5 DEF App
  <2>7. Calm(c, b)
    BY <2>1, <2>4 DEF App, Calm, Steady
  <2>8. /\ b.pending = c.last /\ b.typed = c.typed /\ b.shown = shown /\ b.dropped = dropped
        /\ b.last = c.last /\ b.late = c.late
    BY <2>4 DEF App
  <2>9. PasteInv(b)
    <3>1. \A j \in Inputs : c.typed[j] \in Nat /\ c.shown[j] \in Nat
      BY Counts
    <3> QED BY <2>2, <2>3, <2>5, <2>8, <3>1 DEF PasteInv
  <2>10. e \in App /\ Calm(b, e) /\ StaysUp(b, e)
    BY <2>6, EnterPausedFacts
  <2> HIDE DEF e
  <2>11. PasteStep(b, e)
    BY <2>2, <2>6, <2>8, <2>9, <2>10, StaysUpPastes
  <2>12. Handled(c, e)
    BY <2>7, <2>8, <2>10, <2>11, CalmTwice, ThenPastes DEF Handled
  <2> QED BY <1>2, <2>12 DEF e, b, RestoreLastInputConfirmation
<1> QED BY <1>1, <1>2

LEMMA CancelPendingHandled ==
  ASSUME NEW c \in App, NEW d, PasteInv(c)
  PROVE  Handled(c, CancelPending(c, d))
<1> DEFINE a == Drop(c)
<1> DEFINE b == [a EXCEPT !.pending = Idle]
<1> DEFINE f == FinishRecognitionCycle(b)
<1> DEFINE e == EnterReady(f, "ui")
<1>1. a \in App /\ Calm(c, a) /\ a = [c EXCEPT !.dropped = a.dropped] /\ c.dropped \subseteq a.dropped
  BY DropFacts
<1> HIDE DEF a
<1>2. b \in App /\ b.pending = Idle
  BY <1>1, Empties DEF App
<1>3. Calm(a, b)
  BY <1>1 DEF App, Calm, Steady
<1>4. Kept(c, b)
  BY <1>1 DEF App, Kept
<1> HIDE DEF b
<1>5. f \in App /\ Quiet(b, f) /\ ~f.waiting /\ f.pending = Idle
  BY <1>2, FinishFacts
<1> HIDE DEF f
<1>6. e \in App /\ Quiet(f, e)
  BY <1>5, EnterReadyFacts
<1> HIDE DEF e
<1>7. Quiet(c, e)
  BY <1>1, <1>3, <1>4, <1>5, <1>6, CalmTwice, KeptTwice DEF Quiet
<1> QED BY <1>6, <1>7, QuietHandled DEF e, f, b, a, CancelPending

LEMMA CancelPasteHandled ==
  ASSUME NEW c \in App, NEW d \in Devices, PasteInv(c)
  PROVE  Handled(c, CancelPendingPaste(c, d))
<1>1. CancelPendingPaste(c, d) \in {c, CancelCycle(c, "ui"), RefreshDeviceUiState(c, d),
                                     RestoreLastInputConfirmation(c, d), CancelPending(c, d)}
  BY DEF CancelPendingPaste
<1>2. Handled(c, CancelCycle(c, "ui"))
  BY CancelCycleFacts, QuietHandled
<1>3. Handled(c, RefreshDeviceUiState(c, d))
  BY RefreshFacts, QuietHandled
<1> QED BY <1>1, <1>2, <1>3, ItselfHandled, RestoreHandled, CancelPendingHandled

\* A recording begins.
Begun(c, e, d, session, i) ==
  /\ e \in App
  /\ PasteStep(c, e)
  /\ c.device = NoDevice /\ session # NoSession
  /\ e.session = session /\ e.device = d /\ e.input = i
  /\ ~e.heard /\ ~e.started /\ ~e.sentFinal /\ ~e.errorShown
  /\ e.buffered = <<>> /\ e.fed = c.fed /\ e.waiting = c.waiting

LEMMA BeginType ==
  ASSUME NEW c \in App, NEW d \in Devices, NEW session \in Nat, NEW i \in Times
  PROVE  [c EXCEPT !.session = session, !.device = d, !.half = FALSE, !.heard = FALSE,
              !.buffered = <<>>, !.started = FALSE, !.sentFinal = FALSE,
              !.pastedFinal = FALSE, !.pending = Idle, !.errorShown = FALSE,
              !.state = "recording", !.input = i] \in App
BY Empties DEF App, States

LEMMA BeginFacts ==
  ASSUME NEW c \in App, NEW d \in Devices, NEW session \in Nat, NEW i \in Times,
         PasteInv(c), c.device = NoDevice, session # NoSession
  PROVE  Begun(c, BeginRecording(c, d, session, i), d, session, i)
<1> DEFINE b == [c EXCEPT !.session = session, !.device = d, !.half = FALSE, !.heard = FALSE,
              !.buffered = <<>>, !.started = FALSE, !.sentFinal = FALSE,
              !.pastedFinal = FALSE, !.pending = Idle, !.errorShown = FALSE,
              !.state = "recording", !.input = i]
<1> DEFINE f == Displayed(b, Listening)
<1> DEFINE e == SendUiState(f, "recording")
<1>1. b \in App
  BY BeginType
<1>2. Kept(c, b)
  BY DEF App, Kept
<1>3. /\ b.session = session /\ b.device = d /\ b.input = i
      /\ b.heard = FALSE /\ b.started = FALSE /\ b.sentFinal = FALSE /\ b.errorShown = FALSE
      /\ b.buffered = <<>> /\ b.fed = c.fed /\ b.waiting = c.waiting
  BY DEF App
<1> HIDE DEF b
<1>4. f \in App /\ f = [b EXCEPT !.overlay = Applied(b.overlay, Listening)] /\ Quiet(b, f)
  BY <1>1, DisplayedFacts, HideCalls
<1>5. /\ f.session = b.session /\ f.device = b.device /\ f.input = b.input
      /\ f.heard = b.heard /\ f.started = b.started /\ f.sentFinal = b.sentFinal
      /\ f.errorShown = b.errorShown
      /\ f.buffered = b.buffered /\ f.fed = b.fed /\ f.waiting = b.waiting
  BY <1>1, <1>4 DEF App
<1> HIDE DEF f
<1>6. e \in App /\ e = [f EXCEPT !.ui = e.ui] /\ Quiet(f, e)
  BY <1>4, SendFacts DEF Tellable
<1> HIDE DEF e
<1>7. /\ e.session = f.session /\ e.device = f.device /\ e.input = f.input
      /\ e.heard = f.heard /\ e.started = f.started /\ e.sentFinal = f.sentFinal
      /\ e.errorShown = f.errorShown
      /\ e.buffered = f.buffered /\ e.fed = f.fed /\ e.waiting = f.waiting
  BY <1>4, <1>6 DEF App
<1>8. Kept(c, e)
  BY <1>2, <1>4, <1>6, KeptTwice DEF Quiet
<1>9. PasteStep(c, e)
  BY <1>6, <1>8, KeptPastes
<1> QED BY <1>3, <1>5, <1>6, <1>7, <1>9 DEF Begun, e, f, b, BeginRecording

\* What pressing the front button comes to.
LEMMA ButtonDownFacts ==
  ASSUME NEW c \in App, NEW d \in Devices, NEW session \in Nat, NEW i \in Times, PasteInv(c)
  PROVE  LET e == HandlePrimaryButtonDown(c, d, session, i)
         IN  Handled(c, e) \/ Begun(c, e, d, session, i)
<1> DEFINE e == HandlePrimaryButtonDown(c, d, session, i)
<1>1. CASE c.pending.kind # "idle"
  BY <1>1, FrontHandled DEF HandlePrimaryButtonDown
<1>2. CASE c.pending.kind = "idle" /\ (c.state # "ready" \/ c.device # NoDevice)
  <2>1. e = RefreshDeviceUiState(c, d)
    BY <1>2 DEF HandlePrimaryButtonDown
  <2> QED BY <2>1, RefreshFacts, QuietHandled
<1>3. CASE c.pending.kind = "idle" /\ c.state = "ready" /\ c.device = NoDevice
  <2>1. e = IF session = NoSession THEN SendUiStateTo(c, "ready", {d})
            ELSE BeginRecording(c, d, session, i)
    BY <1>3 DEF HandlePrimaryButtonDown
  <2>2. Handled(c, SendUiStateTo(c, "ready", {d}))
    BY SendToFacts, QuietHandled DEF Tellable
  <2> QED BY <1>3, <2>1, <2>2, BeginFacts
<1> QED BY <1>1, <1>2, <1>3

\* A recording waits for the end of its audio.
Waits(c, e, d) ==
  /\ e \in App
  /\ PasteStep(c, e)
  /\ Owns(c, d)
  /\ \E b \in App : /\ Calm(c, b)
                    /\ e = [b EXCEPT !.waiting = TRUE, !.timeout = <<c.session, c.device>>]
                    /\ b.session = c.session /\ b.device = c.device

LEMMA ButtonUpFacts ==
  ASSUME NEW c \in App, NEW d \in Devices, PasteInv(c)
  PROVE  LET e == HandlePrimaryButtonUp(c, d) IN Handled(c, e) \/ Waits(c, e, d)
<1> DEFINE e == HandlePrimaryButtonUp(c, d)
<1>1. CASE ~Owns(c, d) \/ ~c.half \/ c.waiting
  <2>1. e \in {c, CancelShortRecording(c, "ui")}
    BY <1>1 DEF HandlePrimaryButtonUp
  <2> QED BY <2>1, CancelShortHandled, ItselfHandled
<1>2. CASE ~(~Owns(c, d) \/ ~c.half \/ c.waiting)
  <2> DEFINE b == EnterFinalizing(c)
  <2> DEFINE f == [b EXCEPT !.waiting = TRUE, !.timeout = <<c.session, c.device>>]
  <2>1. e = f
    BY <1>2 DEF HandlePrimaryButtonUp
  <2>2. /\ b \in App /\ Quiet(c, b)
        /\ b = [c EXCEPT !.state = "finalizing", !.ui = b.ui]
    BY EnterFinalizingFacts
  <2> HIDE DEF b, e
  <2>3. b.session = c.session /\ b.device = c.device
    BY <2>2 DEF App
  <2>4. <<c.session, c.device>> \in Timeouts
    BY <1>2 DEF Owns, App, Timeouts
  <2>5. f \in App
    BY <2>2, <2>4 DEF App
  <2>6. Kept(b, f)
    BY <2>2 DEF App, Kept
  <2> HIDE DEF f
  <2>7. PasteStep(c, f)
    BY <2>2, <2>5, <2>6, KeptTwice, KeptPastes DEF Quiet
  <2>8. Waits(c, f, d)
    BY <1>2, <2>2, <2>3, <2>5, <2>7 DEF Waits, Quiet, f
  <2> QED BY <2>1, <2>8 DEF e
<1> QED BY <1>1, <1>2

LEMMA ClickFacts ==
  ASSUME NEW c \in App, NEW d \in Devices, NEW session \in Nat, NEW i \in Times, PasteInv(c)
  PROVE  LET e == HandlePrimaryClick(c, d, session, i)
         IN  Handled(c, e) \/ Begun(c, e, d, session, i) \/ Waits(c, e, d)
<1> DEFINE e == HandlePrimaryClick(c, d, session, i)
<1>1. CASE c.pending.kind # "idle"
  BY <1>1, FrontHandled DEF HandlePrimaryClick
<1>2. CASE c.pending.kind = "idle"
  <2>1. e \in {SendUiStateTo(c, "ready", {d}), SendUiStateTo(c, "thinking", {d}),
               HandlePrimaryButtonUp(c, d), HandlePrimaryButtonDown(c, d, session, i)}
    BY <1>2 DEF HandlePrimaryClick
  <2>2. Handled(c, SendUiStateTo(c, "ready", {d})) /\ Handled(c, SendUiStateTo(c, "thinking", {d}))
    BY SendToFacts, QuietHandled DEF Tellable
  <2> QED BY <2>1, <2>2, ButtonUpFacts, ButtonDownFacts
<1> QED BY <1>1, <1>2

-----------------------------------------------------------------------------
\* What the ASR client and the translator report.

\* Remembered for the menu's Restore.
LEMMA RememberFacts ==
  ASSUME NEW c \in App, NEW text \in Texts \cup {Empty}, NEW i \in Inputs, PasteInv(c)
  PROVE  /\ Handled(c, Remember(c, text, i))
         /\ \A j \in Inputs : Remember(c, text, i).typed[j] = c.typed[j]
         /\ Remember(c, text, i).dropped = c.dropped /\ Remember(c, text, i).late = c.late
<1> DEFINE last == [kind |-> "paused", text |-> text, of |-> i]
<1> DEFINE e == [c EXCEPT !.last = last, !.lastDevice = c.device]
<1>1. Remember(c, text, i) = e
  BY DEF Remember
<1>2. i \in Times
  BY BoundsAssumption DEF Inputs, Times
<1>3. last \in Confirmation /\ last.kind = "paused" /\ last.of = i
  BY <1>2 DEF Confirmation
<1> HIDE DEF last
<1>4. e \in App
  BY <1>3 DEF App
<1>5. Calm(c, e)
  BY DEF App, Calm, Steady
<1>6. /\ e.last = last /\ e.typed = c.typed /\ e.shown = c.shown /\ e.pending = c.pending
      /\ e.dropped = c.dropped /\ e.late = c.late
  BY DEF App
<1> HIDE DEF e
<1>7. PasteInv(e)
  BY <1>3, <1>6 DEF PasteInv
<1>8. PasteStep(c, e)
  BY <1>4, <1>6, <1>7, Counts DEF PasteStep
<1> QED BY <1>1, <1>4, <1>5, <1>6, <1>8 DEF Handled

LEMMA ConfirmHandled ==
  ASSUME NEW c \in App, NEW t, NEW text \in Texts \cup {Empty}, NEW i \in Inputs, PasteInv(c),
         i \in c.dropped => c.late
  PROVE  Handled(c, EnterPendingConfirmation(Remember(c, text, i), t, text, i))
<1> DEFINE b == Remember(c, text, i)
<1> DEFINE e == EnterPendingConfirmation(b, t, text, i)
<1>1. /\ Handled(c, b) /\ \A j \in Inputs : b.typed[j] = c.typed[j]
      /\ b.dropped = c.dropped /\ b.late = c.late
  BY RememberFacts
<1> HIDE DEF b
<1>2. b \in App /\ Calm(c, b) /\ PasteInv(b)
  BY <1>1 DEF Handled, PasteStep
<1>3. e \in App /\ Calm(b, e) /\ PutUp(b, e, i)
  BY <1>2, EnterPendingFacts
<1> HIDE DEF e
<1>4. PasteStep(b, e)
  BY <1>1, <1>2, <1>3, PutUpPastes
<1>5. Handled(c, e)
  BY <1>1, <1>2, <1>3, <1>4, CalmTwice, ThenPastes DEF Handled
<1> QED BY <1>5 DEF e, b

LEMMA FinalTextHandled ==
  ASSUME NEW c \in App, NEW text \in Texts \cup {Empty}, NEW i \in Inputs, PasteInv(c),
         i \in c.dropped => c.late
  PROVE  Handled(c, FinishWithFinalText(c, "worker", text, i))
<1> DEFINE p == [c EXCEPT !.pastedFinal = TRUE]
<1> DEFINE e == FinishWithFinalText(c, "worker", text, i)
<1>1. p \in App /\ Quiet(c, p) /\ p.dropped = c.dropped /\ p.late = c.late
  <2>1. p \in App /\ p.dropped = c.dropped /\ p.late = c.late
    BY DEF App
  <2>2. Calm(c, p)
    BY DEF App, Calm, Steady
  <2>3. Kept(c, p)
    BY DEF App, Kept
  <2> QED BY <2>1, <2>2, <2>3 DEF Quiet
<1>2. CASE c.pastedFinal
  BY <1>2, ItselfHandled DEF FinishWithFinalText
<1>3. CASE ~c.pastedFinal /\ text = Empty
  <2> DEFINE a == [p EXCEPT !.pending = Idle, !.state = "ready"]
  <2> DEFINE f == FinishRecognitionCycle(a)
  <2> DEFINE h == Display(f, "worker", Hide(NoCallback))
  <2>1. e = EnterReadyKeepingOverlay(h)
    BY <1>3 DEF FinishWithFinalText
  <2> HIDE DEF p
  <2>2. a \in App /\ Quiet(p, a)
    <3>1. a \in App
      BY <1>1, Empties DEF App, States
    <3>2. Calm(p, a)
      BY <1>1 DEF App, Calm, Steady
    <3>3. Kept(p, a)
      BY <1>1 DEF App, Kept
    <3> QED BY <3>1, <3>2, <3>3 DEF Quiet
  <2> HIDE DEF a
  <2>3. f \in App /\ Quiet(a, f) /\ ~f.waiting
    BY <2>2, FinishFacts
  <2> HIDE DEF f
  <2>4. h \in App /\ Quiet(f, h)
    BY <2>3, DisplayFacts, HideCalls
  <2>5. ~h.waiting
    BY <2>3, <2>4 DEF Quiet, Calm, Steady
  <2> HIDE DEF h, e
  <2>6. e \in App /\ Quiet(h, e)
    BY <2>1, <2>4, <2>5, KeepOverlayFacts
  <2>7. Quiet(c, e)
    BY <1>1, <2>2, <2>3, <2>4, <2>6, QuietTwice
  <2> QED BY <2>6, <2>7, QuietHandled DEF e
<1>4. CASE ~c.pastedFinal /\ text # Empty /\ c.device \in Translating
  <2>1. e = [p EXCEPT !.translating = @ \cup {i}]
    BY <1>4 DEF FinishWithFinalText
  <2> HIDE DEF p, e
  <2>2. e \in App
    BY <1>1, <2>1 DEF App
  <2>3. Quiet(p, e)
    BY <1>1, <2>1 DEF App, Quiet, Calm, Steady, Kept
  <2> QED BY <1>1, <2>2, <2>3, QuietTwice, QuietHandled DEF e
<1>5. CASE ~c.pastedFinal /\ text # Empty /\ c.device \notin Translating
  <2>1. e = EnterPendingConfirmation(Remember(p, text, i), "worker", text, i)
    BY <1>5 DEF FinishWithFinalText
  <2> HIDE DEF p
  <2>2. PasteInv(p) => Handled(p, e)
    BY <1>1, <2>1, ConfirmHandled
  <2> QED BY <1>1, <2>2, QuietThen
<1> QED BY <1>2, <1>3, <1>4, <1>5 DEF App

LEMMA LateFacts ==
  ASSUME NEW c \in App, NEW i
  PROVE  /\ Late(c, i) \in App /\ Quiet(c, Late(c, i))
         /\ i \in Late(c, i).dropped => Late(c, i).late
<1> DEFINE e == Late(c, i)
<1> DEFINE late == c.late \/ i \in c.dropped \/ i # c.input \/ c.errorShown
<1>1. e = [c EXCEPT !.late = late]
  BY DEF Late, App
<1>6. late \in BOOLEAN /\ (c.late => late) /\ (i \in c.dropped => late)
  OBVIOUS
<1> HIDE DEF late, e
<1>2. e \in App
  BY <1>1, <1>6 DEF App
<1>3. e.late = late /\ e.dropped = c.dropped
  BY <1>1 DEF App
<1>4. Calm(c, e)
  BY <1>1 DEF App, Calm, Steady
<1>5. Kept(c, e)
  BY <1>1, <1>6 DEF App, Kept
<1> QED BY <1>2, <1>3, <1>4, <1>5, <1>6 DEF Quiet, e

-----------------------------------------------------------------------------
\* The invariant about audio: of the coordinator c, of what the devices send,
\* v, and of the n presses so far.

Closed(c, i) == \E k \in DOMAIN c.fed[i] : c.fed[i][k].last

FeedInv(c, n) ==
  /\ FeedOK(c)
  /\ \A i \in Inputs : i > n => c.fed[i] = <<>>

\* The recording in hand.  One that is begun again after its end has no audio.
RecordingInv(c, n) ==
  /\ c.input <= n
  /\ c.session # NoSession => c.input \in Inputs
  /\ c.sentFinal \/ c.errorShown => c.session = NoSession
  /\ c.waiting => /\ c.session # NoSession /\ c.device \in Devices
                  /\ c.timeout = <<c.session, c.device>>
  /\ c.session # NoSession /\ Closed(c, c.input) => ~c.heard

\* The device in hand sends that recording, or a later one.
SenderInv(c, v) ==
  c.session # NoSession /\ c.device \in Devices =>
    /\ c.session <= v[c.device].session
    /\ c.session = v[c.device].session => c.input = v[c.device].input
    /\ \A d \in Devices : v[d].input = c.input => d = c.device
    /\ c.waiting /\ v[c.device].input = c.input => v[c.device].up
    /\ Closed(c, c.input) /\ v[c.device].input = c.input => v[c.device].ended

\* Of a device whose button is pressed, the coordinator has not heard yet; whose
\* recording was closed, nothing more will come, or the button is released.
DeviceInv(c, v, n) ==
  \A d \in Devices :
    /\ v[d].input <= n
    /\ ~v[d].up => v[d].input \in Inputs /\ v[d].session # NoSession
    /\ ~v[d].up /\ ~v[d].down => c.input # v[d].input /\ c.fed[v[d].input] = <<>>
    /\ v[d].input \in Inputs /\ Closed(c, v[d].input) => v[d].up \/ v[d].ended
    /\ \A e \in Devices : v[d].input = v[e].input /\ v[d].input \in Inputs => d = e

AudioInv(c, v, n) ==
  FeedInv(c, n) /\ RecordingInv(c, n) /\ SenderInv(c, v) /\ DeviceInv(c, v, n)

LEMMA ClosedFacts ==
  ASSUME NEW c \in App, NEW i \in Inputs, FeedOK(c)
  PROVE  /\ ~Closed(c, i) <=> ChunksOf(c.fed[i], i, FALSE)
         /\ c.fed[i] = <<>> => ~Closed(c, i)
<1>1. DOMAIN <<>> = {}
  OBVIOUS
<1>2. c.fed[i] = <<>> => ~Closed(c, i)
  BY <1>1 DEF Closed
<1>3. ~Closed(c, i) => ChunksOf(c.fed[i], i, FALSE)
  BY DEF Closed, FeedOK, ChunksOf
<1>4. ChunksOf(c.fed[i], i, FALSE) => ~Closed(c, i)
  BY DEF Closed, ChunksOf
<1> QED BY <1>2, <1>3, <1>4

LEMMA CalmAudio ==
  ASSUME NEW c \in App, NEW e \in App, NEW v, NEW n, AudioInv(c, v, n), Calm(c, e)
  PROVE  AudioInv(e, v, n)
<1>1. FeedInv(e, n)
  BY CalmFeeds DEF AudioInv, FeedInv, Calm
<1>2. /\ e.fed = c.fed /\ e.input = c.input /\ e.heard = c.heard
      /\ \A i : Closed(e, i) = Closed(c, i)
  BY DEF Calm, Steady, Closed
<1>3. RecordingInv(e, n)
  BY <1>2 DEF AudioInv, RecordingInv, Calm, Steady
<1>4. e.session # NoSession => e.session = c.session /\ (e.device = c.device \/ e.device = NoDevice)
  BY DEF Calm, Steady
<1>5. e.waiting => c.waiting
  BY DEF Calm, Steady
<1>6. SenderInv(e, v)
  BY <1>2, <1>4, <1>5, BoundsAssumption DEF AudioInv, SenderInv
<1>7. DeviceInv(e, v, n)
  BY <1>2 DEF AudioInv, DeviceInv
<1> QED BY <1>1, <1>3, <1>6, <1>7 DEF AudioInv

\* A device that is gone sends nothing.
Left(v, w, d) == \E s \in Nat : w = [v EXCEPT ![d] = [Silent EXCEPT !.session = s]]

LEMMA GoneDevices ==
  ASSUME NEW c \in App, NEW v \in [Devices -> Sending], NEW n \in Times, NEW d \in Devices,
         NEW w, Left(v, w, d), DeviceInv(c, v, n)
  PROVE  /\ w \in [Devices -> Sending]
         /\ DeviceInv(c, w, n)
         /\ w[d].input = NoInput /\ NoInput \notin Inputs
         /\ \A x \in Devices \ {d} : w[x] = v[x]
<1> PICK s \in Nat : w = [v EXCEPT ![d] = [Silent EXCEPT !.session = s]]
  BY DEF Left
<1>1. w[d] = [Silent EXCEPT !.session = s]
  OBVIOUS
<1>2. /\ w[d].input = NoInput /\ w[d].up = TRUE
      /\ \A x \in Devices \ {d} : w[x] = v[x]
  BY DEF Silent
<1>3. NoInput \notin Inputs /\ NoInput <= n /\ NoInput \in Times /\ 0 \in 0..MaxFrames
  BY Empties, BoundsAssumption DEF NoInput, Times
<1>4. [Silent EXCEPT !.session = s] \in Sending
  BY <1>3 DEF Silent, Sending
<1>5. w \in [Devices -> Sending]
  BY <1>4
<1> HIDE DEF Silent
<1>6. DeviceInv(c, w, n)
  BY <1>2, <1>3 DEF DeviceInv
<1> QED BY <1>2, <1>3, <1>5, <1>6

\* The device's button goes down or up, or its audio comes or ends.
Further(v, w, d) ==
  /\ \A x \in Devices \ {d} : w[x] = v[x]
  /\ w[d].session = v[d].session /\ w[d].input = v[d].input
  /\ v[d].down => w[d].down
  /\ v[d].up => w[d].up
  /\ v[d].ended => w[d].ended

LEMMA FurtherAudio ==
  ASSUME NEW c \in App, NEW v, NEW w, NEW n, NEW d \in Devices, AudioInv(c, v, n), Further(v, w, d)
  PROVE  AudioInv(c, w, n)
<1>1. SenderInv(c, w)
  BY DEF AudioInv, SenderInv, Further
<1>2. DeviceInv(c, w, n)
  BY DEF AudioInv, DeviceInv, Further
<1> QED BY <1>1, <1>2 DEF AudioInv

LEMMA PressAudio ==
  ASSUME NEW c \in App, NEW v \in [Devices -> Sending], NEW n \in Times, NEW d \in Devices,
         AudioInv(c, v, n), n < MaxInputs,
         NEW w, w = [v EXCEPT ![d] = [session |-> @.session + 1, input |-> n + 1,
                                down |-> FALSE, up |-> FALSE, frames |-> 0, ended |-> FALSE]]
  PROVE  AudioInv(c, w, n + 1)
<1>1. /\ w[d].session = v[d].session + 1 /\ w[d].input = n + 1 /\ w[d].down = FALSE /\ w[d].up = FALSE
      /\ w[d].ended = FALSE
  OBVIOUS
<1>2. \A x \in Devices \ {d} : w[x] = v[x]
  OBVIOUS
<1>3. n + 1 \in Inputs /\ n \in Nat /\ c.input \in Nat /\ c.session \in Nat
  BY BoundsAssumption DEF Inputs, Times, App
<1>4. \A x \in Devices : v[x].session \in Nat /\ v[x].input \in Nat
  BY BoundsAssumption DEF Sending, Times
<1>5. c.fed[n + 1] = <<>> /\ ~Closed(c, n + 1)
  <2>1. FeedOK(c) /\ c.fed[n + 1] = <<>>
    BY <1>3 DEF AudioInv, FeedInv
  <2> QED BY <1>3, <2>1, ClosedFacts
<1>6. FeedInv(c, n + 1)
  BY <1>3 DEF AudioInv, FeedInv, Inputs
<1>7. RecordingInv(c, n + 1)
  BY <1>3 DEF AudioInv, RecordingInv
<1>8. c.input # n + 1
  BY <1>3 DEF AudioInv, RecordingInv
<1>9. SenderInv(c, w)
  <2> SUFFICES ASSUME c.session # NoSession, c.device \in Devices
               PROVE  /\ c.session <= w[c.device].session
                      /\ c.session = w[c.device].session => c.input = w[c.device].input
                      /\ \A x \in Devices : w[x].input = c.input => x = c.device
                      /\ c.waiting /\ w[c.device].input = c.input => w[c.device].up
                      /\ Closed(c, c.input) /\ w[c.device].input = c.input => w[c.device].ended
    BY DEF SenderInv
  <2>1. /\ c.session <= v[c.device].session
        /\ c.session = v[c.device].session => c.input = v[c.device].input
        /\ \A x \in Devices : v[x].input = c.input => x = c.device
        /\ c.waiting /\ v[c.device].input = c.input => v[c.device].up
        /\ Closed(c, c.input) /\ v[c.device].input = c.input => v[c.device].ended
    BY DEF AudioInv, SenderInv
  <2>2. CASE c.device = d
    BY <1>1, <1>2, <1>3, <1>4, <1>8, <2>1, <2>2
  <2>3. CASE c.device # d
    BY <1>1, <1>2, <1>8, <2>1, <2>3
  <2> QED BY <2>2, <2>3
<1>10. DeviceInv(c, w, n + 1)
  <2>1. \A x \in Devices \ {d} : w[x].input # n + 1 /\ w[x].input <= n + 1
    BY <1>2, <1>3, <1>4 DEF AudioInv, DeviceInv
  <2>2. v[d].session + 1 # NoSession
    BY <1>4 DEF NoSession
  <2> QED BY <1>1, <1>2, <1>3, <1>5, <1>8, <2>1, <2>2 DEF AudioInv, DeviceInv
<1> QED BY <1>6, <1>7, <1>9, <1>10 DEF AudioInv

\* A press the coordinator hears of begins a recording.
LEMMA BeginAudio ==
  ASSUME NEW c \in App, NEW e, NEW v \in [Devices -> Sending], NEW w, NEW n \in Times,
         NEW d \in Devices, AudioInv(c, v, n), Further(v, w, d), ~v[d].up,
         w[d].down \/ w[d].up, Begun(c, e, d, v[d].session, v[d].input)
  PROVE  AudioInv(e, w, n)
<1>1. /\ e \in App /\ e.session = v[d].session /\ e.device = d /\ e.input = v[d].input
      /\ ~e.heard /\ ~e.started /\ ~e.sentFinal /\ ~e.errorShown
      /\ e.buffered = <<>> /\ e.fed = c.fed /\ e.waiting = c.waiting /\ c.device = NoDevice
  BY DEF Begun
<1>2. ~e.waiting
  BY <1>1, BoundsAssumption DEF AudioInv, RecordingInv
<1>3. e.input \in Inputs /\ e.input <= n
  BY <1>1 DEF AudioInv, DeviceInv
<1>4. \A i : Closed(e, i) = Closed(c, i)
  BY <1>1 DEF Closed
<1>5. FeedInv(e, n)
  BY <1>1, EmptyChunks DEF AudioInv, FeedInv, FeedOK
<1>6. RecordingInv(e, n)
  BY <1>1, <1>2, <1>3 DEF RecordingInv
<1>7. SenderInv(e, w)
  <2>1. e.session <= w[d].session /\ e.input = w[d].input
    BY <1>1 DEF Further, App
  <2>2. \A x \in Devices : w[x].input = e.input => x = d
    BY <1>1, <1>3 DEF AudioInv, DeviceInv, Further
  <2>3. Closed(e, e.input) => w[d].ended
    BY <1>1, <1>3, <1>4 DEF AudioInv, DeviceInv, Further
  <2> QED BY <1>1, <1>2, <2>1, <2>2, <2>3 DEF SenderInv
<1>8. DeviceInv(e, w, n)
  <2>1. ASSUME NEW x \in Devices, ~w[x].up, ~w[x].down
        PROVE  e.input # w[x].input /\ e.fed[w[x].input] = <<>>
    <3>1. x # d
      BY <2>1
    <3> QED BY <1>1, <1>3, <2>1, <3>1 DEF AudioInv, DeviceInv, Further
  <2> QED BY <1>4, <2>1 DEF AudioInv, DeviceInv, Further
<1> QED BY <1>1, <1>5, <1>6, <1>7, <1>8 DEF AudioInv

\* Its release makes the coordinator wait for the end.
LEMMA WaitAudio ==
  ASSUME NEW c \in App, NEW e, NEW v \in [Devices -> Sending], NEW w, NEW n \in Times,
         NEW d \in Devices, AudioInv(c, v, n), Further(v, w, d),
         w[d].up \/ (~v[d].up /\ ~v[d].down), Waits(c, e, d)
  PROVE  AudioInv(e, w, n)
<1> PICK b \in App : /\ Calm(c, b)
                     /\ e = [b EXCEPT !.waiting = TRUE, !.timeout = <<c.session, c.device>>]
                     /\ b.session = c.session /\ b.device = c.device
  BY DEF Waits
<1>1. AudioInv(b, w, n)
  BY CalmAudio, FurtherAudio
<1>2. /\ e.fed = b.fed /\ e.input = b.input /\ e.heard = b.heard /\ e.buffered = b.buffered
      /\ e.started = b.started /\ e.fate = b.fate /\ e.session = b.session /\ e.device = b.device
      /\ e.sentFinal = b.sentFinal /\ e.errorShown = b.errorShown
      /\ e.waiting = TRUE /\ e.timeout = <<c.session, c.device>>
  BY DEF App
<1>3. \A i : Closed(e, i) = Closed(b, i)
  BY <1>2 DEF Closed
<1>4. c.session # NoSession /\ c.device = d
  BY DEF Waits, Owns
<1>5. FeedInv(e, n)
  BY <1>1, <1>2 DEF AudioInv, FeedInv, FeedOK
<1>6. RecordingInv(e, n)
  BY <1>1, <1>2, <1>3, <1>4 DEF AudioInv, RecordingInv
<1>7. w[d].input = e.input => w[d].up
  <2>1. e.input = c.input
    BY <1>2 DEF Calm, Steady
  <2>2. w[d].input = v[d].input
    BY DEF Further
  <2>3. ~v[d].up /\ ~v[d].down => c.input # v[d].input
    BY DEF AudioInv, DeviceInv
  <2> QED BY <2>1, <2>2, <2>3
<1>8. SenderInv(e, w)
  BY <1>1, <1>2, <1>3, <1>4, <1>7 DEF AudioInv, SenderInv
<1>9. DeviceInv(e, w, n)
  BY <1>1, <1>2, <1>3 DEF AudioInv, DeviceInv
<1> QED BY <1>5, <1>6, <1>8, <1>9 DEF AudioInv

LEMMA EndedAudio ==
  ASSUME NEW c \in App, NEW e, NEW w, NEW n \in Times, FeedInv(c, n), c.input \in Inputs,
         c.input <= n, DeviceInv(c, w, n), Ended(c, e),
         \A x \in Devices : c.heard /\ w[x].input = c.input => w[x].up \/ w[x].ended
  PROVE  AudioInv(e, w, n)
<1>1. /\ e \in App /\ FeedOK(e) /\ e.session = NoSession /\ ~e.waiting /\ e.input = c.input
      /\ \A i \in Inputs \ {c.input} : e.fed[i] = c.fed[i]
      /\ ~c.heard => e.fed = c.fed
  BY DEF Ended
<1>2. n \in Nat
  BY BoundsAssumption DEF Times
<1>3. FeedInv(e, n)
  BY <1>1, <1>2 DEF FeedInv, Inputs
<1>4. RecordingInv(e, n) /\ SenderInv(e, w)
  BY <1>1 DEF RecordingInv, SenderInv
<1>5. \A i \in Inputs : i # c.input \/ ~c.heard => Closed(e, i) = Closed(c, i)
  BY <1>1 DEF Closed
<1>6. DeviceInv(e, w, n)
  <2> SUFFICES ASSUME NEW d \in Devices
               PROVE  /\ w[d].input <= n
                      /\ ~w[d].up => w[d].input \in Inputs /\ w[d].session # NoSession
                      /\ ~w[d].up /\ ~w[d].down => e.input # w[d].input /\ e.fed[w[d].input] = <<>>
                      /\ w[d].input \in Inputs /\ Closed(e, w[d].input) => w[d].up \/ w[d].ended
                      /\ \A x \in Devices : w[d].input = w[x].input /\ w[d].input \in Inputs => d = x
    BY DEF DeviceInv
  <2>1. /\ w[d].input <= n
        /\ ~w[d].up => w[d].input \in Inputs /\ w[d].session # NoSession
        /\ ~w[d].up /\ ~w[d].down => c.input # w[d].input /\ c.fed[w[d].input] = <<>>
        /\ w[d].input \in Inputs /\ Closed(c, w[d].input) => w[d].up \/ w[d].ended
        /\ \A x \in Devices : w[d].input = w[x].input /\ w[d].input \in Inputs => d = x
    BY DEF DeviceInv
  <2>2. w[d].input \in Inputs /\ Closed(e, w[d].input) => w[d].up \/ w[d].ended
    BY <1>5, <2>1
  <2> QED BY <1>1, <2>1, <2>2
<1> QED BY <1>3, <1>4, <1>6 DEF AudioInv

\* Of its own device and session the coordinator takes audio of its own recording.
LEMMA AcceptedAudio ==
  ASSUME NEW c \in App, NEW v \in [Devices -> Sending], NEW n \in Times, NEW d \in Devices,
         AudioInv(c, v, n), FrameAccepted(c, d, v[d].session)
  PROVE  /\ c.session # NoSession /\ c.device = d /\ c.input \in Inputs /\ c.input = v[d].input
         /\ ~c.sentFinal
         /\ \A x \in Devices : v[x].input = c.input => x = d
         /\ ~v[d].ended => ChunksOf(c.fed[c.input], c.input, FALSE)
<1>1. c.session # NoSession /\ c.device = d /\ v[d].session = c.session
  BY DEF FrameAccepted, Owns
<1>2. c.input \in Inputs /\ ~c.sentFinal
  BY <1>1 DEF AudioInv, RecordingInv
<1>3. /\ c.input = v[d].input
      /\ \A x \in Devices : v[x].input = c.input => x = d
      /\ Closed(c, c.input) => v[d].ended
  BY <1>1 DEF AudioInv, SenderInv
<1>4. FeedOK(c)
  BY DEF AudioInv, FeedInv
<1> QED BY <1>1, <1>2, <1>3, <1>4, ClosedFacts

LEMMA FrameAudio ==
  ASSUME NEW c \in App, NEW v \in [Devices -> Sending], NEW w, NEW n \in Times,
         NEW d \in Devices, NEW luck \in Lucks, AudioInv(c, v, n), PasteInv(c),
         Further(v, w, d), ~v[d].ended
  PROVE  LET e == HandleAudioFrame(c, d, v[d].session, v[d].input, luck)
         IN  e \in App /\ AudioInv(e, w, n) /\ PasteStep(c, e)
<1> DEFINE e == HandleAudioFrame(c, d, v[d].session, v[d].input, luck)
<1>1. CASE ~FrameAccepted(c, d, v[d].session)
  <2>1. e = c
    BY <1>1 DEF HandleAudioFrame
  <2> QED BY <2>1, FurtherAudio, ItselfHandled DEF Handled
<1>2. CASE FrameAccepted(c, d, v[d].session)
  <2> DEFINE chunk == [of |-> v[d].input, last |-> FALSE]
  <2> DEFINE b == [c EXCEPT !.heard = TRUE]
  <2>1. e = SendOrBufferOggChunk(b, "ui", chunk, c.half /\ ~c.waiting, luck)
    BY <1>2 DEF HandleAudioFrame
  <2>2. /\ c.session # NoSession /\ c.device = d /\ c.input \in Inputs /\ c.input = v[d].input
        /\ ChunksOf(c.fed[c.input], c.input, FALSE)
    <3> HIDE DEF e, b, chunk
    <3>1. c.session # NoSession /\ c.device = d
      BY <1>2 DEF FrameAccepted, Owns
    <3>2. c.input \in Inputs /\ ChunksOf(c.fed[c.input], c.input, FALSE)
      BY <1>2, AcceptedAudio
    <3>3. c.input = v[d].input
      BY <1>2 DEF AudioInv, SenderInv, FrameAccepted, Owns
    <3> QED BY <3>1, <3>2, <3>3
  <2>3. b \in App
    BY DEF App
  <2>4. /\ b.fed = c.fed /\ b.input = c.input /\ b.buffered = c.buffered /\ b.started = c.started
        /\ b.fate = c.fate /\ b.session = c.session /\ b.device = c.device
        /\ b.waiting = c.waiting /\ b.timeout = c.timeout /\ b.sentFinal = c.sentFinal
        /\ b.errorShown = c.errorShown
    BY DEF App
  <2>5. FeedOK(b)
    BY <2>4 DEF AudioInv, FeedInv, FeedOK
  <2>6. Kept(c, b)
    BY DEF App, Kept
  <2>7. chunk \in Chunk /\ chunk = [of |-> b.input, last |-> FALSE]
    BY <2>2, <2>4 DEF Chunk, App
  <2>8. (c.half /\ ~c.waiting) \in BOOLEAN
    OBVIOUS
  <2> HIDE DEF b, e, chunk
  <2>9. FedTo(b, e, FALSE)
    BY <2>1, <2>2, <2>3, <2>4, <2>5, <2>7, <2>8, SendOrBuffer
  <2>10. e \in App /\ FeedOK(e) /\ e.input = c.input /\ ChunksOf(e.fed[c.input], c.input, FALSE)
         /\ \A i \in Inputs \ {c.input} : e.fed[i] = c.fed[i]
    BY <2>4, <2>9 DEF FedTo, Steady
  <2>11. PasteStep(c, e)
    BY <2>6, <2>9, <2>10, KeptTwice, KeptPastes DEF FedTo
  <2>12. ~Closed(e, c.input)
    BY <2>2, <2>10, ClosedFacts
  <2>13. \A i \in Inputs \ {c.input} : Closed(e, i) = Closed(c, i)
    BY <2>10 DEF Closed
  <2>14. AudioInv(c, w, n)
    BY FurtherAudio
  <2>15. FeedInv(e, n)
    <3>1. c.input <= n /\ n \in Nat
      BY BoundsAssumption DEF AudioInv, RecordingInv, Times
    <3> QED BY <2>2, <2>10, <2>14, <3>1 DEF AudioInv, FeedInv, Inputs
  <2>16. RecordingInv(e, n)
    BY <2>2, <2>4, <2>9, <2>10, <2>12, <2>14 DEF AudioInv, RecordingInv, FedTo, Steady
  <2>17. /\ e.session # NoSession => e.session = c.session /\ e.device \in {c.device, NoDevice}
         /\ e.waiting => c.waiting
    BY <2>4, <2>9 DEF FedTo, Steady
  <2>18. SenderInv(e, w)
    BY <2>2, <2>10, <2>12, <2>14, <2>17, BoundsAssumption DEF AudioInv, SenderInv
  <2>19. DeviceInv(e, w, n)
    <3> SUFFICES ASSUME NEW x \in Devices
                 PROVE  /\ ~w[x].up /\ ~w[x].down => e.input # w[x].input /\ e.fed[w[x].input] = <<>>
                        /\ w[x].input \in Inputs /\ Closed(e, w[x].input) => w[x].up \/ w[x].ended
      BY <2>14 DEF AudioInv, DeviceInv
    <3>1. ~w[x].up /\ ~w[x].down => c.input # w[x].input /\ c.fed[w[x].input] = <<>>
                                    /\ w[x].input \in Inputs
      BY <2>14 DEF AudioInv, DeviceInv
    <3>2. w[x].input \in Inputs /\ Closed(c, w[x].input) => w[x].up \/ w[x].ended
      BY <2>14 DEF AudioInv, DeviceInv
    <3>3. w[x].input \in Inputs /\ Closed(e, w[x].input) => w[x].up \/ w[x].ended
      BY <2>12, <2>13, <3>2
    <3> QED BY <2>10, <3>1, <3>3
  <2> QED BY <2>10, <2>11, <2>15, <2>16, <2>18, <2>19 DEF AudioInv, e
<1> QED BY <1>1, <1>2

LEMMA EndAudio ==
  ASSUME NEW c \in App, NEW v \in [Devices -> Sending], NEW w, NEW n \in Times,
         NEW d \in Devices, NEW luck \in Lucks, AudioInv(c, v, n), PasteInv(c),
         Further(v, w, d), ~v[d].ended, w[d].ended
  PROVE  LET e == HandleAudioEnd(c, d, v[d].session, luck)
         IN  e \in App /\ AudioInv(e, w, n) /\ PasteStep(c, e)
<1> DEFINE e == HandleAudioEnd(c, d, v[d].session, luck)
<1>1. CASE ~FrameAccepted(c, d, v[d].session)
  <2>1. e = c
    BY <1>1 DEF HandleAudioEnd
  <2> QED BY <2>1, FurtherAudio, ItselfHandled DEF Handled
<1>2. CASE FrameAccepted(c, d, v[d].session)
  <2> DEFINE b == CancelAudioEndTimeout(c)
  <2>1. e = SendFinalOggChunkIfNeeded(b, "ui", luck)
    BY <1>2 DEF HandleAudioEnd
  <2>2. /\ c.input \in Inputs /\ ChunksOf(c.fed[c.input], c.input, FALSE) /\ ~c.sentFinal
        /\ \A x \in Devices : v[x].input = c.input => x = d
    BY <1>2, AcceptedAudio
  <2>3. b \in App /\ Quiet(c, b)
    BY CancelTimeoutFacts
  <2> HIDE DEF b, e
  <2>4. b.fed = c.fed /\ b.input = c.input /\ ~b.sentFinal
    BY <2>2, <2>3 DEF Quiet, Calm, Steady
  <2>5. AudioInv(b, w, n)
    BY <2>3, CalmAudio, FurtherAudio DEF Quiet
  <2>11. PasteInv(b) /\ \A i \in Inputs : b.typed[i] = c.typed[i]
    BY <2>3, KeptPastes DEF Quiet, Kept, PasteStep
  <2>6. Ended(b, e)
    BY <2>1, <2>2, <2>3, <2>4, <2>5, <2>11, SendFinal DEF AudioInv, FeedInv
  <2>7. \A x \in Devices : w[x].input = c.input => w[x].ended
    BY <2>2 DEF Further
  <2>8. AudioInv(e, w, n)
    BY <2>2, <2>3, <2>4, <2>5, <2>6, <2>7, EndedAudio DEF AudioInv, RecordingInv
  <2>9. PasteStep(c, e)
    BY <2>3, <2>6, <2>11, ThenPastes DEF Quiet, Kept, Ended
  <2> QED BY <2>6, <2>8, <2>9 DEF Ended, e
<1> QED BY <1>1, <1>2

LEMMA TimeoutAudio ==
  ASSUME NEW c \in App, NEW v \in [Devices -> Sending], NEW n \in Times, NEW luck \in Lucks,
         AudioInv(c, v, n), PasteInv(c), c.waiting
  PROVE  LET e == SendFinalOggChunkIfNeeded(c, "timeout", luck)
         IN  e \in App /\ AudioInv(e, v, n) /\ PasteStep(c, e)
<1> DEFINE e == SendFinalOggChunkIfNeeded(c, "timeout", luck)
<1>1. /\ c.session # NoSession /\ c.device \in Devices /\ c.input \in Inputs /\ ~c.sentFinal
      /\ c.heard => ~Closed(c, c.input)
  BY DEF AudioInv, RecordingInv
<1>2. \A x \in Devices : v[x].input = c.input => v[x].up
  BY <1>1 DEF AudioInv, SenderInv
<1>3. FeedOK(c)
  BY DEF AudioInv, FeedInv
<1>4. c.heard => ChunksOf(c.fed[c.input], c.input, FALSE)
  BY <1>1, <1>3, ClosedFacts
<1>5. Ended(c, e)
  BY <1>1, <1>3, <1>4, SendFinal
<1> HIDE DEF e
<1>6. AudioInv(e, v, n)
  BY <1>1, <1>2, <1>5, EndedAudio DEF AudioInv, RecordingInv
<1> QED BY <1>5, <1>6 DEF Ended, e

\* The device in hand is lost: what it waited for does not come any more.
LEMMA LostAudio ==
  ASSUME NEW c \in App, NEW v \in [Devices -> Sending], NEW n \in Times, NEW d \in Devices,
         NEW w, Left(v, w, d), NEW e, AudioInv(c, v, n), PasteInv(c),
         \/ Handled(c, e) /\ (e.session = NoSession \/ c.device # d)
         \/ \E luck \in Lucks : c.device = d /\ c.waiting /\ e = SendFinalOggChunkIfNeeded(c, "ui", luck)
  PROVE  /\ e \in App /\ AudioInv(e, w, n) /\ PasteStep(c, e)
         /\ w \in [Devices -> Sending]
<1>0. DeviceInv(c, v, n)
  BY DEF AudioInv
<1>1. /\ w \in [Devices -> Sending] /\ w[d].input = NoInput /\ NoInput \notin Inputs
      /\ \A x \in Devices \ {d} : w[x] = v[x]
  BY <1>0, GoneDevices
<1>2. CASE Handled(c, e) /\ (e.session = NoSession \/ c.device # d)
  <2>1. e \in App /\ AudioInv(e, v, n) /\ PasteStep(c, e)
    BY <1>2, CalmAudio DEF Handled
  <2>2. DeviceInv(e, w, n)
    <3>1. DeviceInv(e, v, n)
      BY <2>1 DEF AudioInv
    <3> QED BY <2>1, <3>1, GoneDevices
  <2>3. e.session # NoSession => e.device # d /\ e.input \in Inputs
    <3>1. NoDevice # d
      BY BoundsAssumption
    <3>2. e.session # NoSession => e.device \in {c.device, NoDevice}
      BY <1>2 DEF Handled, Calm, Steady
    <3> QED BY <1>2, <2>1, <3>1, <3>2 DEF AudioInv, RecordingInv
  <2>4. SenderInv(e, w)
    BY <1>1, <2>1, <2>3 DEF AudioInv, SenderInv
  <2> QED BY <1>1, <2>1, <2>2, <2>4 DEF AudioInv
<1>3. ASSUME NEW luck \in Lucks, c.device = d, c.waiting,
             e = SendFinalOggChunkIfNeeded(c, "ui", luck)
      PROVE  e \in App /\ AudioInv(e, w, n) /\ PasteStep(c, e)
  <2>1. /\ c.session # NoSession /\ c.device \in Devices /\ c.input \in Inputs /\ ~c.sentFinal
        /\ c.heard => ~Closed(c, c.input)
    BY <1>3 DEF AudioInv, RecordingInv
  <2>2. \A x \in Devices : v[x].input = c.input => x = d
    BY <1>3, <2>1 DEF AudioInv, SenderInv
  <2>3. FeedOK(c)
    BY DEF AudioInv, FeedInv
  <2>4. c.heard => ChunksOf(c.fed[c.input], c.input, FALSE)
    BY <2>1, <2>3, ClosedFacts
  <2>5. Ended(c, e)
    BY <1>3, <2>1, <2>3, <2>4, SendFinal
  <2>6. DeviceInv(c, w, n)
    BY <1>0, GoneDevices
  <2>7. \A x \in Devices : w[x].input # c.input
    BY <1>1, <2>1, <2>2
  <2>8. AudioInv(e, w, n)
    BY <2>1, <2>5, <2>6, <2>7, EndedAudio DEF AudioInv, RecordingInv
  <2> QED BY <2>5, <2>8 DEF Ended
<1> QED BY <1>1, <1>2, <1>3

-----------------------------------------------------------------------------
\* The steps.

IInv ==
  /\ TypeOK
  /\ AudioInv(app, dev, count.input)
  /\ PasteInv(app)

Count == [input : Times, event : 0..MaxEvents]

\* What a step must leave behind.
Good == IInv' /\ PasteStep(app, app')

LEMMA GoodStep ==
  ASSUME TypeOK, app' \in App, dev' \in [Devices -> Sending], worker' \in Report, count' \in Count,
         AudioInv(app', dev', count'.input), PasteStep(app, app')
  PROVE  Good
BY DEF Good, IInv, TypeOK, PasteStep, Count

LEMMA CalmStep ==
  ASSUME IInv, Handled(app, app'), dev' = dev, worker' \in Report, count' \in Count,
         count'.input = count.input
  PROVE  Good
<1>1. AudioInv(app', dev', count'.input)
  BY CalmAudio DEF IInv, TypeOK, Handled
<1> QED BY <1>1, GoodStep DEF IInv, TypeOK, Handled

LEMMA CountEvent ==
  ASSUME TypeOK, count.event < MaxEvents, Counted("event")
  PROVE  count' \in Count /\ count'.input = count.input
<1>1. count'.input = count.input /\ count' = [count EXCEPT !.event = @ + 1]
  BY DEF Counted, TypeOK
<1>2. count.event + 1 \in 0..MaxEvents
  BY BoundsAssumption DEF TypeOK
<1> QED BY <1>1, <1>2 DEF TypeOK, Count

LEMMA CountSame ==
  ASSUME TypeOK, count' = count
  PROVE  count' \in Count /\ count'.input = count.input
BY DEF TypeOK, Count

\* Reports of the worker and the translator.
LEMMA ReportTypes ==
  /\ NoCall \in Report /\ [tells |-> "upgrade"] \in Report
  /\ \A i \in Inputs : /\ [tells |-> "partial", of |-> i] \in Report
                       /\ [tells |-> "error", of |-> i] \in Report
                       /\ \A text \in Texts \cup {Empty} :
                            [tells |-> "final", of |-> i, text |-> text] \in Report
BY DEF Report, NoCall

LEMMA PartialStep ==
  ASSUME IInv, NEW i \in Inputs, AsrPartial(i)
  PROVE  Good
<1>1. count' \in Count /\ count'.input = count.input
  BY CountEvent DEF AsrPartial, IInv
<1>2. worker' \in Report /\ app' = app /\ dev' = dev
  BY ReportTypes DEF AsrPartial
<1>3. Handled(app, app')
  BY <1>2, ItselfHandled DEF IInv, TypeOK
<1> QED BY <1>1, <1>2, <1>3, CalmStep

LEMMA FinalStep ==
  ASSUME IInv, NEW i \in Inputs, AsrFinal(i)
  PROVE  Good
<1>1. count' \in Count /\ count'.input = count.input
  BY CountSame DEF AsrFinal, IInv
<1>2. worker' \in Report /\ dev' = dev
  BY ReportTypes DEF AsrFinal
<1>3. app' = AsrEnd(app, "final")
  BY DEF AsrFinal
<1>4. Handled(app, app')
  BY <1>3, AsrEndFacts, QuietHandled DEF IInv, TypeOK, Fates
<1> QED BY <1>1, <1>2, <1>4, CalmStep

LEMMA FailStep ==
  ASSUME IInv, NEW i \in Inputs, AsrFails(i)
  PROVE  Good
<1>1. count' \in Count /\ count'.input = count.input
  BY CountEvent DEF AsrFails, IInv
<1>2. worker' \in Report /\ dev' = dev
  BY ReportTypes DEF AsrFails, IInv, TypeOK
<1>3. app' = AsrEnd(app, "error") \/ app' = AsrEnd(app, "silent")
  BY DEF AsrFails
<1>4. Handled(app, app')
  BY <1>3, AsrEndFacts, QuietHandled DEF IInv, TypeOK, Fates
<1> QED BY <1>1, <1>2, <1>4, CalmStep

LEMMA ReportedStep ==
  ASSUME IInv, Reported
  PROVE  Good
<1> USE DEF IInv
<1>1. app \in App /\ PasteInv(app) /\ worker \in Report
  BY DEF TypeOK
<1>2. dev' = dev /\ count' = count
  BY DEF Reported, OnPartial, OnFinal, OnError, OnUpgradeUrl
<1>3. worker' \in Report
  BY ReportTypes DEF Reported, OnPartial, OnFinal, OnError, OnUpgradeUrl
<1>4. CASE OnPartial
  <2> DEFINE shown == Display(app, "worker", Partial)
  <2> DEFINE late == Late(shown, worker.of)
  <2>1. shown \in App /\ Quiet(app, shown)
    BY <1>1, DisplayFacts, HideCalls
  <2> HIDE DEF shown
  <2>2. late \in App /\ Quiet(shown, late)
    BY <2>1, LateFacts
  <2>3. app' \in {late, SendUiState(late, "thinking")}
    BY <1>4 DEF OnPartial, shown
  <2> HIDE DEF late
  <2>4. Quiet(late, late)
    BY DEF Quiet, Calm, Steady, Kept
  <2>5. app' \in App /\ Quiet(late, app')
    BY <2>2, <2>3, <2>4, SendFacts DEF Tellable
  <2> QED BY <1>1, <2>1, <2>2, <2>5, QuietTwice, QuietHandled, <1>2, <1>3, CalmStep, CountSame
<1>5. CASE OnFinal
  <2> DEFINE late == Late(app, worker.of)
  <2>1. worker.of \in Inputs /\ worker.text \in Texts \cup {Empty}
    BY <1>1, <1>5 DEF OnFinal, Report
  <2>2. late \in App /\ Quiet(app, late) /\ (worker.of \in late.dropped => late.late)
    BY <1>1, LateFacts
  <2>3. app' = FinishWithFinalText(late, "worker", worker.text, worker.of)
    BY <1>5 DEF OnFinal
  <2> HIDE DEF late
  <2>4. PasteInv(late) => Handled(late, app')
    BY <2>1, <2>2, <2>3, FinalTextHandled
  <2>5. Handled(app, app')
    BY <1>1, <2>2, <2>4, QuietThen
  <2> QED BY <2>5, <1>2, <1>3, CalmStep, CountSame
<1>6. CASE OnError
  <2> DEFINE late == Late(app, worker.of)
  <2>1. late \in App /\ Quiet(app, late)
    BY <1>1, LateFacts
  <2>2. app' = FinishWithAsrError(late, "worker")
    BY <1>6 DEF OnError
  <2> HIDE DEF late
  <2>3. app' \in App /\ Quiet(late, app')
    BY <2>1, <2>2, FinishWithErrorFacts
  <2> QED BY <1>1, <2>1, <2>3, QuietTwice, QuietHandled, <1>2, <1>3, CalmStep, CountSame
<1>7. CASE OnUpgradeUrl
  <2> DEFINE b == RecoverFromAsrError(app)
  <2>1. b \in App /\ Quiet(app, b)
    BY <1>1, RecoverFacts
  <2>2. app' = Display(b, "worker", Hide(UpgradePage))
    BY <1>7 DEF OnUpgradeUrl
  <2> HIDE DEF b
  <2>3. app' \in App /\ Quiet(b, app')
    BY <2>1, <2>2, DisplayFacts, HideCalls
  <2> QED BY <1>1, <2>1, <2>3, QuietTwice, QuietHandled, <1>2, <1>3, CalmStep, CountSame
<1> QED BY <1>4, <1>5, <1>6, <1>7 DEF Reported

LEMMA TranslatedStep ==
  ASSUME IInv, NEW i \in Inputs, Translated(i)
  PROVE  Good
<1> DEFINE a == [app EXCEPT !.translating = @ \ {i}]
<1> DEFINE c == Late(a, i)
<1>1. app \in App /\ PasteInv(app) /\ worker \in Report
  BY DEF IInv, TypeOK
<1>2. a \in App
  BY <1>1 DEF App
<1>3. Quiet(app, a)
  BY <1>1 DEF App, Quiet, Calm, Steady, Kept
<1>4. \/ \E text \in Texts \cup {Empty} :
           app' = EnterPendingConfirmation(Remember(c, text, i), "translator", text, i)
      \/ app' = FinishWithAsrError(c, "translator")
  BY DEF Translated
<1>5. count' = count \/ (count.event < MaxEvents /\ Counted("event"))
  BY DEF Translated
<1>6. dev' = dev /\ worker' = worker
  BY DEF Translated
<1> HIDE DEF a
<1>7. c \in App /\ Quiet(a, c) /\ (i \in c.dropped => c.late)
  BY <1>2, LateFacts
<1> HIDE DEF c
<1>8. PasteInv(c) => Handled(c, app')
  <2>1. CASE app' = FinishWithAsrError(c, "translator")
    BY <1>7, <2>1, FinishWithErrorFacts, QuietHandled
  <2>2. ASSUME NEW text \in Texts \cup {Empty}, PasteInv(c),
               app' = EnterPendingConfirmation(Remember(c, text, i), "translator", text, i)
        PROVE  Handled(c, app')
    BY <1>7, <2>2, ConfirmHandled
  <2> QED BY <1>4, <2>1, <2>2
<1>9. Handled(app, app')
  BY <1>1, <1>3, <1>7, <1>8, QuietTwice, QuietThen
<1>10. count' \in Count /\ count'.input = count.input
  BY <1>5, CountSame, CountEvent DEF IInv
<1> QED BY <1>1, <1>6, <1>9, <1>10, CalmStep

-----------------------------------------------------------------------------
\* The UI thread's own steps.

LEMMA FirstFacts ==
  ASSUME NEW S, NEW s \in Seq(S), s # <<>>
  PROVE  Head(s) \in S /\ Tail(s) \in Seq(S)
OBVIOUS

LEMMA UiMessageStep ==
  ASSUME IInv, UiMessage
  PROVE  Good
<1> DEFINE first == Head(app.posted)
<1> DEFINE late == app.late \/ first.during # Situation(app)
<1> DEFINE c == [app EXCEPT !.posted = Tail(@), !.late = @ \/ first.during # Situation(app)]
<1>1. app \in App /\ PasteInv(app) /\ worker \in Report /\ app.posted # <<>>
  BY DEF IInv, TypeOK, UiMessage
<1>2. first \in [call : Call, during : States \X BOOLEAN \X Times] /\ Tail(app.posted) \in Posts
  <2>1. app.posted \in Posts
    BY <1>1 DEF App
  <2> QED BY <1>1, <2>1, FirstFacts DEF Posts
<1>3. first.call \in Call
  BY <1>2
<1>4. late \in BOOLEAN /\ (app.late => late)
  OBVIOUS
<1>5. c = [app EXCEPT !.posted = Tail(app.posted), !.late = late]
  BY <1>1 DEF App
<1>6. app' = Displayed(c, first.call)
  BY DEF UiMessage
<1> HIDE DEF first, late, c
<1>7. c \in App
  BY <1>1, <1>2, <1>4, <1>5 DEF App
<1>8. Calm(app, c)
  BY <1>1, <1>5 DEF App, Calm, Steady
<1>9. Kept(app, c)
  BY <1>1, <1>4, <1>5 DEF App, Kept
<1>10. PasteInv(c) => Handled(c, app')
  BY <1>3, <1>6, <1>7, DisplayedHandled
<1>11. Handled(app, app')
  BY <1>1, <1>7, <1>8, <1>9, <1>10, QuietThen DEF Quiet
<1>12. dev' = dev /\ worker' = worker /\ count' = count
  BY DEF UiMessage
<1> QED BY <1>1, <1>11, <1>12, CalmStep, CountSame DEF IInv

LEMMA OverlayTimerStep ==
  ASSUME IInv, OverlayTimer
  PROVE  Good
<1>1. app \in App /\ PasteInv(app) /\ worker \in Report
  BY DEF IInv, TypeOK
<1>2. app' = Displayed(app, Hide(NoCallback)) /\ dev' = dev /\ worker' = worker /\ count' = count
  BY DEF OverlayTimer
<1>3. Handled(app, app')
  BY <1>1, <1>2, HideCalls, DisplayedHandled
<1> QED BY <1>1, <1>2, <1>3, CalmStep, CountSame DEF IInv

LEMMA RestoreStep ==
  ASSUME IInv, RestoreFromMenu
  PROVE  Good
<1>1. app \in App /\ PasteInv(app) /\ worker \in Report /\ app.lastDevice \in Devices \cup {NoDevice}
  BY DEF IInv, TypeOK, App
<1>2. app' = RestoreLastInputConfirmation(app, app.lastDevice) /\ dev' = dev /\ worker' = worker
  BY DEF RestoreFromMenu
<1>3. Handled(app, app')
  BY <1>1, <1>2, RestoreHandled
<1>4. count' \in Count /\ count'.input = count.input
  BY CountEvent DEF RestoreFromMenu, IInv
<1> QED BY <1>1, <1>2, <1>3, <1>4, CalmStep

LEMMA UpdateConfigStep ==
  ASSUME IInv, UpdateConfig
  PROVE  Good
<1> DEFINE c == IF Recognizing(app) THEN CancelCycle(app, "ui") ELSE app
<1> DEFINE b == AsrCancel(c)
<1> DEFINE mode == IF b.mode = "hold" THEN "click" ELSE "hold"
<1>1. app \in App /\ PasteInv(app) /\ worker \in Report
  BY DEF IInv, TypeOK
<1>2. c \in App /\ Quiet(app, c)
  <2>1. CancelCycle(app, "ui") \in App /\ Quiet(app, CancelCycle(app, "ui"))
    BY <1>1, CancelCycleFacts
  <2>2. Quiet(app, app)
    BY DEF Quiet, Calm, Steady, Kept
  <2> QED BY <1>1, <2>1, <2>2
<1>3. app' = [b EXCEPT !.mode = IF @ = "hold" THEN "click" ELSE "hold"]
  BY DEF UpdateConfig
<1> HIDE DEF c
<1>4. b \in App /\ Quiet(c, b)
  BY <1>2, AsrEndFacts DEF AsrCancel, Fates
<1> HIDE DEF b
<1>5. app' = [b EXCEPT !.mode = mode] /\ mode \in {"hold", "click"}
  BY <1>3, <1>4 DEF App
<1> HIDE DEF mode
<1>6. app' \in App
  BY <1>4, <1>5 DEF App
<1>7. Quiet(b, app')
  BY <1>4, <1>5 DEF App, Quiet, Calm, Steady, Kept
<1>8. Handled(app, app')
  BY <1>1, <1>2, <1>4, <1>6, <1>7, QuietTwice, QuietHandled
<1>9. count' \in Count /\ count'.input = count.input
  BY CountEvent DEF UpdateConfig, IInv
<1>10. dev' = dev /\ worker' = worker
  BY DEF UpdateConfig
<1> QED BY <1>1, <1>8, <1>9, <1>10, CalmStep

LEMMA DeviceBackStep ==
  ASSUME IInv, NEW d \in Devices, DeviceBack(d)
  PROVE  Good
<1>1. app \in App /\ PasteInv(app) /\ worker \in Report
  BY DEF IInv, TypeOK
<1> DEFINE ui == [app.ui EXCEPT ![d] = Ready]
<1> DEFINE connected == app.connected \cup {d}
<1>2. app' = [app EXCEPT !.connected = connected, !.ui = ui]
  BY <1>1 DEF DeviceBack, App
<1>3. Ready \in Shown
  BY DEF Ready, Shown
<1>4. ui \in [Devices -> Shown] /\ connected \in SUBSET Devices
  BY <1>1, <1>3 DEF App
<1> HIDE DEF ui, connected
<1>5. app' \in App
  BY <1>1, <1>2, <1>4 DEF App
<1>6. Quiet(app, app')
  BY <1>1, <1>2 DEF App, Quiet, Calm, Steady, Kept
<1>7. dev' = dev /\ worker' = worker /\ count' = count
  BY DEF DeviceBack
<1> QED BY <1>1, <1>5, <1>6, <1>7, QuietHandled, CalmStep, CountSame DEF IInv

LEMMA HalfSecondStep ==
  ASSUME IInv, HalfSecond
  PROVE  Good
<1>1. app \in App /\ PasteInv(app) /\ worker \in Report
  BY DEF IInv, TypeOK
<1>2. app' = [app EXCEPT !.half = TRUE] /\ dev' = dev /\ worker' = worker /\ count' = count
  BY DEF HalfSecond
<1>3. app' \in App
  BY <1>1, <1>2 DEF App
<1>4. Quiet(app, app')
  BY <1>1, <1>2 DEF App, Quiet, Calm, Steady, Kept
<1> QED BY <1>1, <1>2, <1>3, <1>4, QuietHandled, CalmStep, CountSame DEF IInv

-----------------------------------------------------------------------------
\* The devices' steps.

\* What a device was told to show is of no concern to audio or texts.
LEMMA AskedFacts ==
  ASSUME NEW c \in App, NEW d \in Devices, NEW asked \in BOOLEAN
  PROVE  [c EXCEPT !.ui[d].asked = asked] \in App /\ Quiet(c, [c EXCEPT !.ui[d].asked = asked])
<1> DEFINE ui == [c.ui EXCEPT ![d].asked = asked]
<1> DEFINE e == [c EXCEPT !.ui[d].asked = asked]
<1>1. e = [c EXCEPT !.ui = ui]
  BY DEF App
<1>2. ui \in [Devices -> Shown]
  <2>1. [c.ui[d] EXCEPT !.asked = asked] \in Shown
    BY DEF App, Shown
  <2> QED BY <2>1 DEF App
<1> HIDE DEF ui, e
<1>3. e \in App
  BY <1>1, <1>2 DEF App
<1>4. Calm(c, e)
  BY <1>1 DEF App, Calm, Steady
<1>5. Kept(c, e)
  BY <1>1 DEF App, Kept
<1> QED BY <1>3, <1>4, <1>5 DEF Quiet, e

LEMMA SideClickStep ==
  ASSUME IInv, NEW d \in Devices, SideClick(d)
  PROVE  Good
<1>1. app \in App /\ PasteInv(app) /\ worker \in Report
  BY DEF IInv, TypeOK
<1>2. app' = CancelPendingPaste(app, d) /\ dev' = dev /\ worker' = worker
  BY DEF SideClick
<1>3. Handled(app, app')
  BY <1>1, <1>2, CancelPasteHandled
<1>4. count' \in Count /\ count'.input = count.input
  BY CountEvent DEF SideClick, IInv
<1> QED BY <1>1, <1>2, <1>3, <1>4, CalmStep

LEMMA PressStep ==
  ASSUME IInv, NEW d \in Devices, Press(d)
  PROVE  Good
<1> DEFINE sending == [session |-> dev[d].session + 1, input |-> count.input + 1,
                       down |-> FALSE, up |-> FALSE, frames |-> 0, ended |-> FALSE]
<1> DEFINE asked == app.ui[d].asked /\ app.ui[d].shows = "pending"
<1>1. app \in App /\ PasteInv(app) /\ worker \in Report /\ dev \in [Devices -> Sending]
      /\ count.input \in Times /\ AudioInv(app, dev, count.input)
  BY DEF IInv, TypeOK
<1>2. /\ dev' = [dev EXCEPT ![d] = [session |-> @.session + 1, input |-> count.input + 1,
                                down |-> FALSE, up |-> FALSE, frames |-> 0, ended |-> FALSE]]
      /\ count.input < MaxInputs /\ worker' = worker /\ count' = [count EXCEPT !.input = @ + 1]
  BY DEF Press, Counted
<1>3. app' = [app EXCEPT !.ui[d].asked = asked]
  BY <1>1 DEF Press, App
<1>4. asked \in BOOLEAN
  OBVIOUS
<1> HIDE DEF asked
<1>5. app' \in App /\ Quiet(app, app')
  BY <1>1, <1>3, <1>4, AskedFacts
<1>6. Handled(app, app') /\ AudioInv(app', dev, count.input)
  BY <1>1, <1>5, QuietHandled, CalmAudio DEF Quiet
<1>7. AudioInv(app', dev', count.input + 1)
  BY <1>1, <1>2, <1>5, <1>6, PressAudio
<1>8. count.input + 1 \in Times /\ count' \in Count /\ count'.input = count.input + 1
  <2>1. count.input + 1 \in Times
    BY <1>1, <1>2, BoundsAssumption DEF Times
  <2> QED BY <1>2, <2>1 DEF IInv, TypeOK, Count
<1>9. dev' \in [Devices -> Sending]
  <2>1. sending \in Sending
    BY <1>1, <1>8, BoundsAssumption DEF Sending
  <2>2. dev' = [dev EXCEPT ![d] = sending]
    BY <1>2
  <2> HIDE DEF sending
  <2> QED BY <1>1, <2>1, <2>2
<1> QED BY <1>1, <1>2, <1>5, <1>6, <1>7, <1>8, <1>9, GoodStep DEF IInv, Handled

\* A button event has come to the coordinator.
LEMMA PressedStep ==
  ASSUME IInv, NEW d \in Devices, NEW w, Further(dev, w, d), ~dev[d].up,
         \/ ~dev[d].down /\ w[d].down
         \/ w[d].up,
         dev' = w, w \in [Devices -> Sending], worker' = worker, count' = count,
         \/ Handled(app, app')
         \/ Begun(app, app', d, dev[d].session, dev[d].input)
         \/ Waits(app, app', d)
  PROVE  Good
<1>1. app \in App /\ PasteInv(app) /\ worker \in Report /\ dev \in [Devices -> Sending]
      /\ count.input \in Times /\ AudioInv(app, dev, count.input)
  BY DEF IInv, TypeOK
<1>2. app' \in App /\ AudioInv(app', w, count.input) /\ PasteStep(app, app')
  <2>1. Handled(app, app') => app' \in App /\ AudioInv(app', w, count.input) /\ PasteStep(app, app')
    <3>1. Handled(app, app') => AudioInv(app', w, count.input)
      BY <1>1, CalmAudio, FurtherAudio DEF Handled
    <3> QED BY <3>1 DEF Handled
  <2>2. Begun(app, app', d, dev[d].session, dev[d].input) =>
          app' \in App /\ AudioInv(app', w, count.input) /\ PasteStep(app, app')
    <3>1. Begun(app, app', d, dev[d].session, dev[d].input) => AudioInv(app', w, count.input)
      BY <1>1, BeginAudio
    <3> QED BY <3>1 DEF Begun
  <2>3. Waits(app, app', d) => app' \in App /\ AudioInv(app', w, count.input) /\ PasteStep(app, app')
    <3>1. w[d].up \/ (~dev[d].up /\ ~dev[d].down)
      OBVIOUS
    <3>2. Waits(app, app', d) => AudioInv(app', w, count.input)
      BY <1>1, <3>1, WaitAudio
    <3> QED BY <3>2 DEF Waits
  <2> QED BY <2>1, <2>2, <2>3
<1>3. count' \in Count /\ count'.input = count.input
  BY CountSame DEF IInv
<1> QED BY <1>1, <1>2, <1>3, GoodStep DEF IInv
LEMMA ButtonStep ==
  ASSUME IInv, NEW d \in Devices, ButtonDown(d) \/ ButtonUp(d)
  PROVE  Good
<1>1. app \in App /\ PasteInv(app) /\ dev \in [Devices -> Sending]
  BY DEF IInv, TypeOK
<1>2. dev[d].session \in Nat /\ dev[d].input \in Times /\ ~dev[d].up
  BY <1>1 DEF Sending, ButtonDown, ButtonUp
<1>3. \/ Handled(app, app')
      \/ Begun(app, app', d, dev[d].session, dev[d].input)
      \/ Waits(app, app', d)
  <2>1. app' \in {HandlePrimaryClick(app, d, dev[d].session, dev[d].input),
                  HandlePrimaryButtonDown(app, d, dev[d].session, dev[d].input),
                  HandlePrimaryButtonUp(app, d)}
    BY DEF ButtonDown, ButtonUp, Pressed
  <2> QED BY <1>1, <1>2, <2>1, ClickFacts, ButtonDownFacts, ButtonUpFacts
<1>4. CASE ButtonDown(d)
  <2> DEFINE w == [dev EXCEPT ![d].down = TRUE]
  <2>1. Further(dev, w, d) /\ ~dev[d].down /\ w[d].down /\ w \in [Devices -> Sending]
    BY <1>1, <1>4 DEF ButtonDown, Further, Sending
  <2>2. dev' = w /\ worker' = worker /\ count' = count
    BY <1>4 DEF ButtonDown
  <2> HIDE DEF w
  <2> QED BY <1>2, <1>3, <2>1, <2>2, PressedStep
<1>5. CASE ButtonUp(d)
  <2> DEFINE w == [dev EXCEPT ![d].up = TRUE]
  <2>1. Further(dev, w, d) /\ w[d].up /\ w \in [Devices -> Sending]
    BY <1>1, <1>5 DEF ButtonUp, Further, Sending
  <2>2. dev' = w /\ worker' = worker /\ count' = count
    BY <1>5 DEF ButtonUp
  <2> HIDE DEF w
  <2> QED BY <1>2, <1>3, <2>1, <2>2, PressedStep
<1> QED BY <1>4, <1>5

\* The click of a device that shows pending_confirmation is of no session.
LEMMA ControlClickStep ==
  ASSUME IInv, NEW d \in Devices, ControlClick(d)
  PROVE  Good
<1> DEFINE asked == app.ui[d].shows = "pending"
<1> DEFINE c == [app EXCEPT !.ui[d].asked = asked]
<1>1. app \in App /\ PasteInv(app) /\ worker \in Report /\ dev \in [Devices -> Sending]
      /\ count.input \in Times /\ AudioInv(app, dev, count.input)
  BY DEF IInv, TypeOK
<1>2. c \in App /\ Quiet(app, c)
  BY <1>1, AskedFacts
<1>3. /\ app' = HandlePrimaryClick(c, d, NoSession, NoInput) /\ dev[d].up
      /\ dev' = dev /\ worker' = worker /\ count' = count
  BY DEF ControlClick
<1> HIDE DEF c
<1>4. /\ PasteInv(c) /\ AudioInv(c, dev, count.input)
      /\ \A i \in Inputs : c.typed[i] = app.typed[i]
      /\ app.late => c.late
  <2>1. AudioInv(c, dev, count.input)
    BY <1>1, <1>2, CalmAudio DEF Quiet
  <2>2. PasteInv(c)
    BY <1>1, <1>2, KeptPastes DEF Quiet, PasteStep
  <2> QED BY <1>2, <2>1, <2>2 DEF Quiet, Kept
<1>5. NoSession \in Nat /\ NoInput \in Times
  BY BoundsAssumption DEF NoSession, NoInput, Times
<1>6. Handled(c, app') \/ Waits(c, app', d)
  <2>1. ~Begun(c, app', d, NoSession, NoInput)
    BY DEF Begun
  <2> QED BY <1>2, <1>3, <1>4, <1>5, <2>1, ClickFacts
<1>7. Further(dev, dev, d)
  BY DEF Further
<1>8. app' \in App /\ AudioInv(app', dev, count.input) /\ PasteStep(c, app')
  <2>1. CASE Handled(c, app')
    <3>1. AudioInv(app', dev, count.input)
      BY <1>2, <1>4, <2>1, CalmAudio DEF Handled
    <3> QED BY <2>1, <3>1 DEF Handled
  <2>2. CASE Waits(c, app', d)
    <3>1. AudioInv(app', dev, count.input)
      BY <1>1, <1>2, <1>3, <1>4, <1>7, <2>2, WaitAudio
    <3> QED BY <2>2, <3>1 DEF Waits
  <2> QED BY <1>6, <2>1, <2>2
<1>9. PasteStep(app, app')
  BY <1>4, <1>8, ThenPastes
<1>10. count' \in Count /\ count'.input = count.input
  BY <1>3, CountSame DEF IInv
<1> QED BY <1>1, <1>3, <1>8, <1>9, <1>10, GoodStep DEF IInv

LEMMA LostFacts ==
  ASSUME NEW c \in App, NEW d
  PROVE  ConnectionLost(c, d) \in App /\ Quiet(c, ConnectionLost(c, d))
<1> DEFINE e == ConnectionLost(c, d)
<1> DEFINE connected == c.connected \ {d}
<1>1. e = [c EXCEPT !.connected = connected] /\ connected \in SUBSET Devices
  BY DEF ConnectionLost, App
<1> HIDE DEF connected, e
<1>2. e \in App
  BY <1>1 DEF App
<1>3. Quiet(c, e)
  BY <1>1 DEF App, Quiet, Calm, Steady, Kept
<1> QED BY <1>2, <1>3 DEF e

LEMMA GoneFacts ==
  ASSUME TypeOK, NEW d \in Devices, Gone(d)
  PROVE  Left(dev, dev', d)
<1>1. dev[d].session \in Nat /\ NoSession \in Nat
  BY DEF TypeOK, Sending, NoSession
<1> QED BY <1>1 DEF Gone, Left

LEMMA DeviceLostStep ==
  ASSUME IInv, NEW d \in Devices, NEW luck \in Lucks, DeviceLost(d, luck), Counted("event"),
         worker' = worker
  PROVE  Good
<1> DEFINE c == ConnectionLost(app, d)
<1>1. app \in App /\ PasteInv(app) /\ worker \in Report /\ dev \in [Devices -> Sending]
      /\ count.input \in Times /\ AudioInv(app, dev, count.input)
  BY DEF IInv, TypeOK
<1>2. c \in App /\ Quiet(app, c)
  BY <1>1, LostFacts
<1>3. /\ app' = IF c.device # d THEN c
                ELSE IF c.waiting THEN SendFinalOggChunkIfNeeded(c, "ui", luck)
                ELSE CancelCycle(c, "ui")
      /\ count.event < MaxEvents
  BY DEF DeviceLost
<1>4. Left(dev, dev', d)
  BY GoneFacts DEF DeviceLost, IInv
<1> HIDE DEF c
<1>5. /\ PasteInv(c) /\ AudioInv(c, dev, count.input)
      /\ \A i \in Inputs : c.typed[i] = app.typed[i]
      /\ app.late => c.late
  <2>1. AudioInv(c, dev, count.input)
    BY <1>1, <1>2, CalmAudio DEF Quiet
  <2>2. PasteInv(c)
    BY <1>1, <1>2, KeptPastes DEF Quiet, PasteStep
  <2> QED BY <1>2, <2>1, <2>2 DEF Quiet, Kept
<1>6. \/ Handled(c, app') /\ (app'.session = NoSession \/ c.device # d)
      \/ \E l \in Lucks : c.device = d /\ c.waiting /\ app' = SendFinalOggChunkIfNeeded(c, "ui", l)
  <2>1. Handled(c, c)
    BY <1>2, <1>5, ItselfHandled
  <2>2. Handled(c, CancelCycle(c, "ui")) /\ CancelCycle(c, "ui").session = NoSession
    BY <1>2, <1>5, CancelCycleFacts, QuietHandled
  <2> QED BY <1>3, <2>1, <2>2
<1>7. app' \in App /\ AudioInv(app', dev', count.input) /\ PasteStep(c, app')
      /\ dev' \in [Devices -> Sending]
  BY <1>1, <1>2, <1>4, <1>5, <1>6, LostAudio
<1>8. PasteStep(app, app')
  BY <1>5, <1>7, ThenPastes
<1>9. count' \in Count /\ count'.input = count.input
  BY <1>3, CountEvent DEF IInv
<1> QED BY <1>1, <1>7, <1>8, <1>9, GoodStep DEF IInv

LEMMA RemoveStep ==
  ASSUME IInv, NEW d \in Devices, RemovePairedDevice(d)
  PROVE  Good
<1> DEFINE c == IF app.device = d THEN CancelCycle(app, "ui") ELSE app
<1>1. app \in App /\ PasteInv(app) /\ worker \in Report /\ dev \in [Devices -> Sending]
      /\ count.input \in Times /\ AudioInv(app, dev, count.input)
  BY DEF IInv, TypeOK
<1>2. app' = ConnectionLost(c, d) /\ count.event < MaxEvents /\ Counted("event") /\ worker' = worker
  BY DEF RemovePairedDevice
<1>3. Left(dev, dev', d)
  BY GoneFacts DEF RemovePairedDevice, IInv
<1>4. c \in App /\ Quiet(app, c) /\ (c.session = NoSession \/ app.device # d)
  <2>1. CancelCycle(app, "ui") \in App /\ Quiet(app, CancelCycle(app, "ui"))
        /\ CancelCycle(app, "ui").session = NoSession
    BY <1>1, CancelCycleFacts
  <2>2. Quiet(app, app)
    BY DEF Quiet, Calm, Steady, Kept
  <2> QED BY <1>1, <2>1, <2>2
<1> HIDE DEF c
<1>5. app' \in App /\ Quiet(c, app')
  BY <1>2, <1>4, LostFacts
<1>6. app'.session = NoSession \/ app.device # d
  BY <1>4, <1>5 DEF Quiet, Calm, Steady
<1>7. Handled(app, app')
  BY <1>1, <1>4, <1>5, QuietTwice, QuietHandled
<1>8. app' \in App /\ AudioInv(app', dev', count.input) /\ PasteStep(app, app')
      /\ dev' \in [Devices -> Sending]
  BY <1>1, <1>3, <1>6, <1>7, LostAudio
<1>9. count' \in Count /\ count'.input = count.input
  BY <1>2, CountEvent DEF IInv
<1> QED BY <1>1, <1>2, <1>8, <1>9, GoodStep DEF IInv

LEMMA AudioStep ==
  ASSUME IInv, NEW luck \in Lucks, Audio(luck)
  PROVE  Good
<1>1. app \in App /\ PasteInv(app) /\ worker \in Report /\ dev \in [Devices -> Sending]
      /\ count.input \in Times /\ AudioInv(app, dev, count.input)
  BY DEF IInv, TypeOK
<1>2. worker' = worker
  BY DEF Audio
<1>3. \/ \E d \in Devices : DeviceLost(d, luck) /\ Counted("event")
      \/ /\ (\E d \in Devices : Frame(d, luck) \/ End(d, luck)) \/ (AudioEndTimeout(luck) /\ dev' = dev)
         /\ count' = count \/ (count.event < MaxEvents /\ Counted("event"))
  BY DEF Audio
<1>4. CASE \E d \in Devices : DeviceLost(d, luck) /\ Counted("event")
  BY <1>2, <1>4, DeviceLostStep
<1>5. ASSUME count' = count \/ (count.event < MaxEvents /\ Counted("event"))
      PROVE  count' \in Count /\ count'.input = count.input
  BY <1>5, CountSame, CountEvent DEF IInv
<1>6. ASSUME NEW d \in Devices, Frame(d, luck), count' \in Count, count'.input = count.input
      PROVE  Good
  <2> DEFINE w == [dev EXCEPT ![d].frames = @ + 1]
  <2>1. dev[d].frames + 1 \in 0..MaxFrames
    BY <1>1, <1>6, BoundsAssumption DEF Frame, Sending
  <2>2. Further(dev, w, d) /\ ~dev[d].ended /\ w \in [Devices -> Sending]
    BY <1>1, <1>6, <2>1 DEF Frame, Further, Sending
  <2>3. dev' = w /\ app' = HandleAudioFrame(app, d, dev[d].session, dev[d].input, luck)
    BY <1>6 DEF Frame
  <2> HIDE DEF w
  <2>4. app' \in App /\ AudioInv(app', w, count.input) /\ PasteStep(app, app')
    BY <1>1, <2>2, <2>3, FrameAudio
  <2> QED BY <1>1, <1>2, <1>6, <2>2, <2>3, <2>4, GoodStep DEF IInv
<1>7. ASSUME NEW d \in Devices, End(d, luck), count' \in Count, count'.input = count.input
      PROVE  Good
  <2> DEFINE w == [dev EXCEPT ![d].ended = TRUE]
  <2>1. Further(dev, w, d) /\ ~dev[d].ended /\ w[d].ended /\ w \in [Devices -> Sending]
    BY <1>1, <1>7 DEF End, Further, Sending
  <2>2. dev' = w /\ app' = HandleAudioEnd(app, d, dev[d].session, luck)
    BY <1>7 DEF End
  <2> HIDE DEF w
  <2>3. app' \in App /\ AudioInv(app', w, count.input) /\ PasteStep(app, app')
    BY <1>1, <2>1, <2>2, EndAudio
  <2> QED BY <1>1, <1>2, <1>7, <2>1, <2>2, <2>3, GoodStep DEF IInv
<1>8. ASSUME AudioEndTimeout(luck), dev' = dev, count' \in Count, count'.input = count.input
      PROVE  Good
  <2>1. app' = SendFinalOggChunkIfNeeded(app, "timeout", luck) /\ app.waiting
    BY <1>8 DEF AudioEndTimeout
  <2>2. app' \in App /\ AudioInv(app', dev, count.input) /\ PasteStep(app, app')
    BY <1>1, <2>1, TimeoutAudio
  <2> QED BY <1>1, <1>2, <1>8, <2>2, GoodStep DEF IInv
<1> QED BY <1>3, <1>4, <1>5, <1>6, <1>7, <1>8

-----------------------------------------------------------------------------
\* The invariant.

LEMMA InitAppType ==
  ASSUME Init
  PROVE  app \in App
<1>1. Hidden \in Overlays(Callbacks)
  BY CallbackFacts DEF Hidden, Overlays
<1>2. Ready \in Shown
  BY DEF Ready, Shown
<1>3. NoInput \in Times /\ NoSession \in Nat
  BY BoundsAssumption DEF NoInput, NoSession, Times
<1>4. Inputs \cup {NoInput} = Times
  BY BoundsAssumption DEF NoInput, Inputs, Times
<1>5. <<>> \in Posts
  BY DEF Posts
<1>6. /\ [d \in Devices |-> Ready] \in [Devices -> Shown]
      /\ [i \in Inputs |-> "unused"] \in [Inputs -> Fates]
      /\ [i \in Inputs |-> <<>>] \in [Inputs -> Chunks]
      /\ [i \in Inputs \cup {NoInput} |-> 0] \in [Times -> Nat]
      /\ [i \in Inputs |-> 0] \in [Inputs -> Nat]
  BY <1>2, <1>4, Empties DEF Fates
<1>7. InitialMode \in {"hold", "click"}
  BY BoundsAssumption
<1> QED BY <1>1, <1>3, <1>5, <1>6, <1>7, Empties DEF Init, App, States

LEMMA InitIInv ==
  ASSUME Init
  PROVE  IInv
<1>1. app \in App
  BY InitAppType
<1>2. count.input = 0 /\ count \in Count
  BY BoundsAssumption DEF Init, Count, Times
<1>3. Silent \in Sending /\ Silent.input = NoInput /\ Silent.up = TRUE
  BY BoundsAssumption DEF Silent, Sending, Times, NoInput, NoSession
<1>4. dev \in [Devices -> Sending] /\ \A d \in Devices : dev[d] = Silent
  BY <1>3 DEF Init
<1>5. worker \in Report
  BY ReportTypes DEF Init
<1>6. /\ app.session = NoSession /\ app.waiting = FALSE /\ app.input = NoInput
      /\ app.buffered = <<>> /\ app.started = FALSE /\ app.pending = Idle /\ app.last = Idle
      /\ \A i \in Inputs : app.fed[i] = <<>>
      /\ \A i \in Inputs : app.typed[i] = 0 /\ app.shown[i] = 0
  BY DEF Init
<1>7. FeedInv(app, 0)
  BY <1>6, EmptyChunks DEF FeedInv, FeedOK
<1>8. RecordingInv(app, 0) /\ SenderInv(app, dev)
  BY <1>6 DEF RecordingInv, SenderInv, NoInput
<1>9. DeviceInv(app, dev, 0)
  <2>1. NoInput <= 0 /\ NoInput \notin Inputs
    BY Empties DEF NoInput
  <2> QED BY <1>3, <1>4, <2>1 DEF DeviceInv
<1>10. PasteInv(app)
  BY <1>6 DEF PasteInv
<1> QED BY <1>1, <1>2, <1>4, <1>5, <1>7, <1>8, <1>9, <1>10 DEF IInv, TypeOK, AudioInv, Count

LEMMA NextGood ==
  ASSUME IInv, [Next]_vars
  PROVE  Good
<1>1. CASE UNCHANGED vars
  <2>1. app' = app /\ dev' = dev /\ worker' = worker /\ count' = count
    BY <1>1 DEF vars
  <2>2. app \in App /\ PasteInv(app) /\ worker \in Report
    BY DEF IInv, TypeOK
  <2>3. Handled(app, app')
    BY <2>1, <2>2, ItselfHandled
  <2> QED BY <2>1, <2>2, <2>3, CalmStep, CountSame DEF IInv
<1>2. CASE Next
  <2>1. ASSUME NEW luck \in Lucks, Audio(luck) PROVE Good
    BY <2>1, AudioStep
  <2>2. ASSUME NEW d \in Devices, \/ Press(d) \/ ButtonDown(d) \/ ButtonUp(d) \/ ControlClick(d)
                                  \/ SideClick(d) \/ RemovePairedDevice(d) \/ DeviceBack(d)
        PROVE  Good
    BY <2>2, PressStep, ButtonStep, ControlClickStep, SideClickStep, RemoveStep, DeviceBackStep
  <2>3. ASSUME NEW i \in Inputs, AsrPartial(i) \/ AsrFinal(i) \/ AsrFails(i) \/ Translated(i)
        PROVE  Good
    BY <2>3, PartialStep, FinalStep, FailStep, TranslatedStep
  <2>4. CASE Reported \/ UiMessage \/ OverlayTimer \/ RestoreFromMenu \/ UpdateConfig \/ HalfSecond
    BY <2>4, ReportedStep, UiMessageStep, OverlayTimerStep, RestoreStep, UpdateConfigStep,
       HalfSecondStep
  <2> QED BY <1>2, <2>1, <2>2, <2>3, <2>4 DEF Next, Lucks
<1> QED BY <1>1, <1>2

(* The inductive invariant holds always: the types, where the audio of a   *)
(* recording is and who may still send of it, and what is put up and typed. *)
THEOREM CoordinatorInvariance == Spec => []IInv
<1>1. Init => IInv
  BY InitIInv
<1>2. IInv /\ [Next]_vars => IInv'
  BY NextGood DEF Good
<1> QED BY <1>1, <1>2, PTL DEF Spec

(* The coordinator, its devices, the worker's report and the counts keep   *)
(* their types.                                                            *)
THEOREM CoordinatorTypes == Spec => []TypeOK
<1>1. IInv => TypeOK
  BY DEF IInv
<1> QED BY <1>1, CoordinatorInvariance, PTL

(* An ASR session gets audio of its own recording only, and no more of it  *)
(* after its end, whatever the order of presses, frames, end markers,      *)
(* releases, timeouts, losses and late callbacks of any number of devices. *)
THEOREM FedItsOwnAlways == Spec => []FedItsOwn
<1>1. IInv => FedItsOwn
  BY DEF IInv, AudioInv, FeedInv, FeedOK, ChunksOf, FedItsOwn
<1> QED BY <1>1, CoordinatorInvariance, PTL

(* A text is pasted at most once for each time it was put up for           *)
(* confirmation.                                                           *)
THEOREM TypedOnceAlways == Spec => []TypedOnce
<1>1. IInv => TypedOnce
  BY DEF IInv, PasteInv, TypedOnce
<1> QED BY <1>1, CoordinatorInvariance, PTL

(* What was cancelled is not pasted, unless the user restores it or a late *)
(* callback brings it back.                                                *)
THEOREM DroppedNotTypedAlways == Spec => DroppedNotTyped
<1> DEFINE Step == \A i \in app'.dropped : app'.typed[i] > app.typed[i] => app'.late
<1>1. IInv /\ [Next]_vars => [Step]_vars
  BY NextGood DEF Good, PasteStep
<1>2. Spec => [][Step]_vars
  BY <1>1, CoordinatorInvariance, PTL DEF Spec
<1> QED BY <1>2 DEF DroppedNotTyped

-----------------------------------------------------------------------------
\* What each connected device was last told is the state of the input.
Target(c, d) == IF c.device \in {d, NoDevice} THEN Expected(c.state) ELSE "ready"
Agrees(c) == \A d \in c.connected : c.ui[d].shows = Target(c, d) \/ c.ui[d].greeted

\* A device that asks for a click shows the confirmation, or did until just now.
Asking(c) ==
  \A d \in Devices :
    c.ui[d].asked => c.ui[d].shows \in {"pending", "ready"} /\ ~c.ui[d].greeted

Screens(c) == Agrees(c) /\ Asking(c)

\* A recording goes on, or its text is awaited, with a device and its audio.
Busy(c) == c.state \in {"recording", "finalizing"}
Engaged(c) == Busy(c) /\ c.device # NoDevice /\ c.started /\ c.heard /\ ~c.errorShown

StateInv(c) ==
  /\ c.session # NoSession => Busy(c) /\ c.device # NoDevice
  /\ c.state = "recording" => c.session # NoSession
  /\ c.device = NoDevice /\ c.state # "ready" => c.pending.kind # "idle"
  /\ c.state \in {"pending", "paused"} => c.pending.kind # "idle"
  /\ Busy(c) => c.pending = Idle
  /\ c.errorShown => ~c.sentFinal

\* What the worker is about to report of recording i.
Tells(w, i) == w.tells \in {"partial", "final", "error"} /\ w.of = i
Ends(w, i) == w.tells \in {"final", "error"} /\ w.of = i

\* The result of recording i is on its way to the coordinator.
Coming(c, w, i) == Ends(w, i) \/ i \in c.translating

\* A result that is on its way is that of the recording in hand, unless it was
\* cancelled.
ResultInv(c, w) ==
  /\ \A i \in Inputs : c.fate[i] = "active" => i = c.input /\ Engaged(c)
  /\ \A i \in Inputs \ c.dropped : Coming(c, w, i) =>
       /\ i = c.input /\ Engaged(c) /\ c.fate[i] # "active"
       /\ w.tells = "final" \/ i \in c.translating => Closed(c, i)
  /\ \A i \in Inputs \ c.dropped : i \in c.translating => ~Tells(w, i)
  /\ Tells(w, c.input) /\ w.tells = "partial" /\ c.input \notin c.dropped /\ c.sentFinal
       => c.state = "finalizing"

\* Of a text that can be restored nothing more is to come.
LastInv(c, w) ==
  \A i \in Inputs : c.last.of = i =>
    ~Tells(w, i) /\ i \notin c.translating /\ c.fate[i] # "active" /\ Closed(c, i)

Committing(callback) == callback.does = "commit"

\* A callback that commits is in the overlay only while a text is up, and on its
\* way there only with a countdown.
Commits(call) == call.call \in {"countdown", "error", "hide"} /\ Committing(call.callback)
OverlayInv(c) ==
  /\ Committing(c.overlay.callback) => c.pending.kind # "idle"
  /\ \A k \in DOMAIN c.posted : Commits(c.posted[k].call) =>
       c.posted[k].call.call = "countdown" /\ c.posted[k].during[1] = "pending"

Sound(c, w) ==
  Screens(c) /\ StateInv(c) /\ ResultInv(c, w) /\ LastInv(c, w) /\ OverlayInv(c)

UiInv(c, w) == ~c.late => Sound(c, w)

-----------------------------------------------------------------------------
\* What the devices are told.

LEMMA TellFacts ==
  ASSUME NEW c \in App, NEW state \in Tellable, NEW ds
  PROVE  LET e == SendUiStateTo(c, state, ds)
         IN  /\ \A d \in Devices : d \in ds \cap c.connected =>
                  /\ e.ui[d].shows = state /\ ~e.ui[d].greeted
                  /\ e.ui[d].asked => state \in {"pending", "ready"}
             /\ \A d \in Devices : d \notin ds \cap c.connected => e.ui[d] = c.ui[d]
             /\ Asking(c) => Asking(e)
<1> DEFINE e == SendUiStateTo(c, state, ds)
<1>1. \A d \in Devices : e.ui[d] =
        IF d \in ds \cap c.connected
        THEN [shows |-> state, greeted |-> FALSE,
              asked |-> state = "pending" \/ (c.ui[d].asked /\ state = "ready")]
        ELSE c.ui[d]
  BY DEF SendUiStateTo, App
<1> HIDE DEF e
<1>2. ASSUME NEW d \in Devices, d \in ds \cap c.connected
      PROVE  /\ e.ui[d].shows = state /\ ~e.ui[d].greeted
             /\ e.ui[d].asked => state \in {"pending", "ready"}
  <2> DEFINE asked == state = "pending" \/ (c.ui[d].asked /\ state = "ready")
  <2>1. e.ui[d] = [shows |-> state, greeted |-> FALSE, asked |-> asked]
    BY <1>1, <1>2
  <2>2. asked => state \in {"pending", "ready"}
    OBVIOUS
  <2> HIDE DEF asked
  <2> QED BY <2>1, <2>2
<1>3. \A d \in Devices : d \notin ds \cap c.connected => e.ui[d] = c.ui[d]
  BY <1>1
<1>4. Asking(c) => Asking(e)
  BY <1>2, <1>3 DEF Asking
<1> QED BY <1>2, <1>3, <1>4 DEF e

\* Telling a device what it is to show anyway.
LEMMA RepeatScreens ==
  ASSUME NEW c \in App, NEW d \in Devices, Screens(c), NEW state \in Tellable, state = Target(c, d)
  PROVE  Screens(SendUiStateTo(c, state, {d}))
<1> DEFINE e == SendUiStateTo(c, state, {d})
<1>1. /\ \A x \in Devices : x \in {d} \cap c.connected => e.ui[x].shows = state
      /\ \A x \in Devices : x \notin {d} \cap c.connected => e.ui[x] = c.ui[x]
      /\ Asking(e)
  BY TellFacts DEF Screens
<1>2. e.connected = c.connected /\ e.device = c.device /\ e.state = c.state /\ c.connected \subseteq Devices
  BY DEF SendUiStateTo, App
<1> HIDE DEF e
<1>3. Agrees(e)
  BY <1>1, <1>2 DEF Agrees, Target, Screens
<1> QED BY <1>1, <1>3 DEF Screens, e

\* The input enters a state and tells it.
LEMMA EnterScreens ==
  ASSUME NEW b \in App, NEW c \in App, NEW e, NEW state \in States, Screens(c),
         b.device = c.device, b.connected = c.connected, b.ui = c.ui,
         e.connected = c.connected, e.state = state,
         e.ui = SendUiState(b, Expected(state)).ui,
         e.device = c.device \/ (e.device = NoDevice /\ state = "ready")
  PROVE  Screens(e)
<1> DEFINE ds == IF b.device = NoDevice THEN Devices ELSE {b.device}
<1> DEFINE u == SendUiStateTo(b, Expected(state), ds)
<1>1. Expected(state) \in Tellable
  BY DEF Expected, States, Tellable
<1>2. u.ui = e.ui
  BY DEF SendUiState
<1>3. /\ \A x \in Devices : x \in ds \cap b.connected => u.ui[x].shows = Expected(state)
      /\ \A x \in Devices : x \notin ds \cap b.connected => u.ui[x] = b.ui[x]
      /\ Asking(b) => Asking(u)
  BY <1>1, TellFacts
<1>4. Asking(e)
  BY <1>2, <1>3 DEF Asking, Screens
<1> HIDE DEF u
<1>5. c.connected \subseteq Devices /\ NoDevice \notin Devices
  BY BoundsAssumption DEF App
<1>6. state = "ready" => Expected(state) = "ready"
  BY DEF Expected
<1>7. ASSUME NEW d \in e.connected
      PROVE  e.ui[d].shows = Target(e, d) \/ e.ui[d].greeted
  <2>1. CASE d \in ds
    BY <1>2, <1>3, <1>5, <1>6, <1>7, <2>1 DEF Target
  <2>2. CASE d \notin ds
    <3>1. c.device \notin {d, NoDevice}
      BY <1>5, <1>7, <2>2
    <3>2. e.ui[d] = c.ui[d] /\ (c.ui[d].shows = "ready" \/ c.ui[d].greeted)
      BY <1>2, <1>3, <1>5, <1>7, <2>2, <3>1 DEF Agrees, Target, Screens
    <3> QED BY <1>6, <3>1, <3>2 DEF Target
  <2> QED BY <2>1, <2>2
<1> QED BY <1>4, <1>7 DEF Screens, Agrees

\* While the input is ready, all devices show it, whichever is in hand.
LEMMA ReadyScreens ==
  ASSUME NEW c, NEW e, Screens(c), c.state = "ready", e.state = "ready",
         e.connected \subseteq c.connected, e.ui = c.ui
  PROVE  Screens(e)
<1>1. Expected("ready") = "ready"
  BY DEF Expected
<1> QED BY <1>1 DEF Screens, Agrees, Target, Asking

LEMMA SameScreens ==
  ASSUME NEW c, NEW e, Screens(c), e.state = c.state, e.device = c.device,
         e.connected \subseteq c.connected, e.ui = c.ui
  PROVE  Screens(e)
BY DEF Screens, Agrees, Target, Asking

-----------------------------------------------------------------------------
\* The helpers, as far as the screens and the results are concerned.

\* Whose recording, text and session it is does not change.
Held(c, e) ==
  /\ e.session = c.session /\ e.input = c.input /\ e.heard = c.heard
  /\ e.fate = c.fate /\ e.fed = c.fed /\ e.translating = c.translating
  /\ e.last = c.last /\ e.dropped = c.dropped /\ e.late = c.late
  /\ e.connected = c.connected

LEMMA HeldTwice ==
  ASSUME NEW c, NEW d, NEW e, Held(c, d), Held(d, e)
  PROVE  Held(c, e)
BY DEF Held

LEMMA FinishUi ==
  ASSUME NEW c \in App
  PROVE  LET e == FinishRecognitionCycle(c)
         IN  /\ Held(c, e) /\ e.overlay = c.overlay /\ e.posted = c.posted
             /\ ~e.started /\ ~e.sentFinal
             /\ e.state = c.state /\ e.device = c.device /\ e.pending = c.pending
             /\ e.errorShown = c.errorShown /\ e.ui = c.ui
BY DEF FinishRecognitionCycle, CancelAudioEndTimeout, App, Held

LEMMA SendUi ==
  ASSUME NEW c \in App, NEW state \in Tellable, NEW ds
  PROVE  LET e == SendUiStateTo(c, state, ds)
         IN  /\ Held(c, e) /\ e.overlay = c.overlay /\ e.posted = c.posted
             /\ e.started = c.started /\ e.sentFinal = c.sentFinal
             /\ e.state = c.state /\ e.device = c.device /\ e.pending = c.pending
             /\ e.errorShown = c.errorShown
BY DEF SendUiStateTo, App, Held

LEMMA KeepingUi ==
  ASSUME NEW c \in App
  PROVE  LET e == EnterReadyKeepingOverlay(c)
         IN  /\ e \in App
             /\ Held(c, e) /\ e.overlay = c.overlay /\ e.posted = c.posted
             /\ e.state = "ready" /\ e.device = NoDevice
             /\ e.pending = c.pending /\ e.errorShown = c.errorShown
             /\ e.sentFinal = c.sentFinal
             /\ Screens(c) => Screens(e)
<1> DEFINE ds == IF c.device = NoDevice THEN Devices ELSE {c.device}
<1> DEFINE u == SendUiState(c, "ready")
<1> DEFINE e == [u EXCEPT !.state = "ready", !.device = NoDevice]
<1>1. "ready" \in Tellable /\ "ready" \in States /\ Expected("ready") = "ready"
  BY DEF Tellable, States, Expected
<1>8. u = SendUiStateTo(c, "ready", ds)
  BY DEF SendUiState
<1> HIDE DEF ds, u
<1>2. /\ u \in App /\ Held(c, u) /\ u.overlay = c.overlay /\ u.posted = c.posted
      /\ u.sentFinal = c.sentFinal /\ u.pending = c.pending /\ u.errorShown = c.errorShown
  BY <1>1, <1>8, SendUi, SendToFacts
<1>3. EnterReadyKeepingOverlay(c) = e
  BY DEF EnterReadyKeepingOverlay, u
<1>4. u.ui = SendUiState(c, Expected("ready")).ui
  BY <1>1 DEF u
<1>5. /\ e \in App /\ Held(u, e) /\ e.overlay = u.overlay /\ e.posted = u.posted
      /\ e.state = "ready" /\ e.device = NoDevice /\ e.ui = u.ui
      /\ e.sentFinal = u.sentFinal /\ e.pending = u.pending /\ e.errorShown = u.errorShown
  BY <1>2 DEF App, States, Held
<1> HIDE DEF e
<1>6. Held(c, e)
  BY <1>2, <1>5, HeldTwice
<1>7. Screens(c) => Screens(e)
  BY <1>1, <1>4, <1>5, <1>6, EnterScreens DEF Held
<1> QED BY <1>2, <1>3, <1>5, <1>6, <1>7

\* A callback of the overlay ran, from c to e.
Ran(c, e) ==
  /\ e \in App /\ Held(c, e) /\ e.overlay = c.overlay /\ e.posted = c.posted
  /\ Screens(c) => Screens(e)
  /\ \/ e = c
     \/ /\ e.state = "ready" /\ e.device = NoDevice /\ e.pending \in {c.pending, Idle}
        /\ e.errorShown => c.errorShown
        /\ e.sentFinal => c.sentFinal /\ c.errorShown /\ ~e.errorShown

LEMMA CompleteUi ==
  ASSUME NEW c \in App
  PROVE  Ran(c, CompletePendingPaste(c))
<1> DEFINE typed == [c.typed EXCEPT ![c.pending.of] = @ + 1]
<1> DEFINE b == [c EXCEPT !.pending = Idle, !.typed[c.pending.of] = @ + 1]
<1> DEFINE f == FinishRecognitionCycle(b)
<1> DEFINE e == EnterReadyKeepingOverlay(f)
<1>0. c.pending.of \in Times /\ c.typed \in [Times -> Nat]
  BY DEF App, Confirmation
<1>1. typed \in [Times -> Nat]
  BY <1>0
<1>2. CompletePendingPaste(c) = e
  BY DEF CompletePendingPaste
<1>7. b = [c EXCEPT !.pending = Idle, !.typed = typed]
  BY DEF App
<1> HIDE DEF typed, b
<1>3. /\ b \in App /\ Held(c, b) /\ b.overlay = c.overlay /\ b.posted = c.posted
      /\ b.pending = Idle /\ b.state = c.state /\ b.device = c.device /\ b.ui = c.ui
      /\ b.errorShown = c.errorShown
  BY <1>1, <1>7, Empties DEF App, Held
<1>4. /\ f \in App /\ Held(b, f) /\ f.overlay = b.overlay /\ f.posted = b.posted
      /\ ~f.sentFinal /\ f.state = b.state /\ f.device = b.device /\ f.pending = b.pending
      /\ f.errorShown = b.errorShown /\ f.ui = b.ui
  BY <1>3, FinishUi, FinishFacts
<1> HIDE DEF f
<1>5. Screens(c) => Screens(f)
  BY <1>3, <1>4, SameScreens DEF Held
<1>6. /\ e \in App /\ Held(f, e) /\ e.overlay = f.overlay /\ e.posted = f.posted
      /\ e.state = "ready" /\ e.device = NoDevice /\ e.pending = f.pending
      /\ e.errorShown = f.errorShown /\ e.sentFinal = f.sentFinal
      /\ Screens(f) => Screens(e)
  BY <1>4, KeepingUi
<1> HIDE DEF e
<1> QED BY <1>2, <1>3, <1>4, <1>5, <1>6, HeldTwice DEF Ran

LEMMA RecoverUi ==
  ASSUME NEW c \in App
  PROVE  /\ Ran(c, RecoverFromAsrError(c))
         /\ ~RecoverFromAsrError(c).errorShown
         /\ RecoverFromAsrError(c).pending = c.pending
<1>1. CASE ~c.errorShown
  <2>1. RecoverFromAsrError(c) = c
    BY <1>1 DEF RecoverFromAsrError
  <2> QED BY <1>1, <2>1 DEF Ran, Held
<1>2. CASE c.errorShown
  <2> DEFINE b == [c EXCEPT !.errorShown = FALSE]
  <2> DEFINE e == EnterReadyKeepingOverlay(b)
  <2>1. RecoverFromAsrError(c) = e
    BY <1>2 DEF RecoverFromAsrError
  <2>2. /\ b \in App /\ Held(c, b) /\ b.overlay = c.overlay /\ b.posted = c.posted
        /\ b.pending = c.pending /\ b.state = c.state /\ b.device = c.device /\ b.ui = c.ui
        /\ ~b.errorShown /\ b.sentFinal = c.sentFinal
    BY DEF App, Held
  <2> HIDE DEF b
  <2>3. Screens(c) => Screens(b)
    BY <2>2, SameScreens DEF Held
  <2>4. /\ e \in App /\ Held(b, e) /\ e.overlay = b.overlay /\ e.posted = b.posted
        /\ e.state = "ready" /\ e.device = NoDevice /\ e.pending = b.pending
        /\ e.errorShown = b.errorShown /\ e.sentFinal = b.sentFinal
        /\ Screens(b) => Screens(e)
    BY <2>2, KeepingUi
  <2> HIDE DEF e
  <2> QED BY <1>2, <2>1, <2>2, <2>3, <2>4, HeldTwice DEF Ran
<1> QED BY <1>1, <1>2 DEF App

\* Only a callback that commits takes the text away, only one that recovers
\* takes the error away.
LEMMA RunUi ==
  ASSUME NEW c \in App, NEW callback
  PROVE  /\ Ran(c, Run(c, callback))
         /\ Run(c, callback) # c => Committing(callback) \/ c.errorShown
<1>1. Ran(c, c)
  BY DEF Ran, Held
<1>2. Run(c, callback) \in {c, CompletePendingPaste(c), RecoverFromAsrError(c)}
  BY DEF Run, CommitPendingPaste
<1>3. Run(c, callback) # c => Committing(callback) \/ c.errorShown
  BY DEF Run, Committing, RecoverFromAsrError
<1> QED BY <1>1, <1>2, <1>3, CompleteUi, RecoverUi

-----------------------------------------------------------------------------
\* What the invariant survives.

\* What it says of the coordinator itself does not change, but for the screens
\* and the overlay.
Stays(c, e) ==
  /\ Held(c, e)
  /\ e.started = c.started /\ e.sentFinal = c.sentFinal /\ e.state = c.state
  /\ e.device = c.device /\ e.pending = c.pending /\ e.errorShown = c.errorShown

LEMMA StaysSound ==
  ASSUME NEW c, NEW e, NEW w, Sound(c, w), Stays(c, e), Screens(e), OverlayInv(e)
  PROVE  Sound(e, w)
<1>1. \A i : Closed(e, i) = Closed(c, i)
  BY DEF Stays, Held, Closed
<1>2. Engaged(e) = Engaged(c)
  BY DEF Stays, Held, Engaged, Busy
<1>3. StateInv(e)
  BY DEF Sound, StateInv, Stays, Held, Busy
<1>4. ResultInv(e, w)
  BY <1>1, <1>2 DEF Sound, ResultInv, Stays, Held, Coming
<1>5. LastInv(e, w)
  BY <1>1 DEF Sound, LastInv, Stays, Held
<1> QED BY <1>3, <1>4, <1>5 DEF Sound

\* No recording goes on and no result is awaited.
Over(c, e) ==
  /\ e.session = NoSession /\ ~e.sentFinal
  /\ \A i \in Inputs : e.fate[i] # "active"
  /\ e.last = c.last /\ e.translating \subseteq c.translating
  /\ c.dropped \subseteq e.dropped
  /\ \A i \in Inputs : Closed(c, i) => Closed(e, i)

NothingComes(c, w, dropped) == \A i \in Inputs \ dropped : ~Coming(c, w, i)

LEMMA OverSound ==
  ASSUME NEW c, NEW e, NEW w, Sound(c, w), Over(c, e), NothingComes(c, w, e.dropped),
         Screens(e), StateInv(e), OverlayInv(e)
  PROVE  Sound(e, w)
<1>1. ResultInv(e, w)
  BY DEF Over, NothingComes, ResultInv, Coming
<1>2. LastInv(e, w)
  BY DEF Sound, LastInv, Over
<1> QED BY <1>1, <1>2 DEF Sound

\* Not busy, nothing is awaited.
LEMMA NotBusy ==
  ASSUME NEW c, NEW w, Sound(c, w), ~Busy(c) \/ c.pending.kind # "idle" \/ c.errorShown
  PROVE  /\ \A i \in Inputs : c.fate[i] # "active"
         /\ NothingComes(c, w, c.dropped)
         /\ ~c.errorShown => c.session = NoSession
<1>1. Idle.kind = "idle"
  BY DEF Idle
<1> QED BY <1>1 DEF Sound, StateInv, ResultInv, Engaged, NothingComes

LEMMA CommitFacts ==
  /\ ~Committing(NoCallback) /\ ~Committing(Recover) /\ ~Committing(UpgradePage)
  /\ ~Commits(Hide(NoCallback)) /\ ~Commits(Hide(UpgradePage)) /\ ~Commits(Listening)
  /\ ~Commits(Partial) /\ ~Commits(PausedFinal) /\ ~Commits(ErrorText(Recover))
  /\ Hidden.callback = NoCallback
BY DEF Committing, Commits, NoCallback, Recover, UpgradePage, Hide, Listening, Partial,
       PausedFinal, ErrorText, Hidden

\* The callback of the overlay after a call, and the one that runs.
LEMMA CallbackComes ==
  ASSUME NEW overlay \in Overlays(Callbacks), NEW call \in Call
  PROVE  /\ Committing(Applied(overlay, call).callback) => Committing(overlay.callback) \/ Commits(call)
         /\ Committing(Due(overlay, call)) => Committing(overlay.callback) \/ Commits(call)
         /\ call.call # "hide" => Due(overlay, call) = NoCallback
         /\ call.call = "hide" => Applied(overlay, call) = Hidden
<1>1. CASE call.call = "hide"
  <2>1. Applied(overlay, call) = Hidden
    BY <1>1 DEF Applied, Faded
  <2>2. Due(overlay, call) \in {call.callback, overlay.callback}
    BY <1>1 DEF Due
  <2> QED BY <1>1, <2>1, <2>2, CommitFacts DEF Commits
<1>2. CASE call.call \in {"countdown", "error"}
  <2>1. Applied(overlay, call) = ShowTimed(call.call, call.callback)
    BY <1>2 DEF Applied
  <2>2. Applied(overlay, call).callback = call.callback
    BY <2>1 DEF ShowTimed
  <2>3. Due(overlay, call) = NoCallback
    BY <1>2 DEF Due
  <2> QED BY <1>2, <2>2, <2>3, CommitFacts DEF Commits
<1>3. CASE call.call \in {"listening", "partial", "paused"}
  <2>1. Applied(overlay, call) \in {Show(overlay, "listening"), Show(overlay, "paused")}
    BY <1>3 DEF Applied
  <2>2. Applied(overlay, call).callback = overlay.callback
    BY <2>1 DEF Show, Overlays
  <2>3. Due(overlay, call) = NoCallback
    BY <1>3 DEF Due
  <2> QED BY <1>3, <2>2, <2>3, CommitFacts
<1>4. call.call \in {"listening", "partial", "paused", "countdown", "error", "hide"}
  BY DEF Call
<1> QED BY <1>1, <1>2, <1>3, <1>4

\* A callback of the overlay ran.
LEMMA RanSound ==
  ASSUME NEW c \in App, NEW e, NEW w, Sound(c, w), Ran(c, e), OverlayInv(e),
         c.errorShown => c.session = NoSession,
         e # c => c.pending.kind # "idle" \/ c.errorShown
  PROVE  Sound(e, w)
<1>1. CASE e = c
  BY <1>1
<1>2. CASE e # c
  <2>1. /\ e \in App /\ Held(c, e) /\ (Screens(c) => Screens(e))
        /\ e.state = "ready" /\ e.device = NoDevice
        /\ e.errorShown => c.errorShown
        /\ e.sentFinal => c.sentFinal /\ c.errorShown
    BY <1>2 DEF Ran
  <2>2. /\ \A i \in Inputs : c.fate[i] # "active"
        /\ NothingComes(c, w, c.dropped) /\ c.session = NoSession
    BY <1>2, NotBusy
  <2>3. ~e.sentFinal
    BY <2>1 DEF Sound, StateInv
  <2>4. Over(c, e)
    BY <2>1, <2>2, <2>3 DEF Over, Held, Closed
  <2>5. StateInv(e)
    BY <2>1, <2>3, <2>4 DEF StateInv, Busy, Over
  <2>6. NothingComes(c, w, e.dropped)
    BY <2>1, <2>2 DEF Held
  <2> QED BY <2>1, <2>4, <2>5, <2>6, OverSound DEF Sound
<1> QED BY <1>1, <1>2

LEMMA DisplayedSound ==
  ASSUME NEW c \in App, NEW w, NEW call \in Call, Sound(c, w),
         c.errorShown => c.session = NoSession,
         Commits(call) => c.pending.kind # "idle"
  PROVE  Displayed(c, call).late = c.late /\ Sound(Displayed(c, call), w)
<1> DEFINE overlay == Applied(c.overlay, call)
<1> DEFINE b == [c EXCEPT !.overlay = overlay]
<1> DEFINE e == Run(b, Due(c.overlay, call))
<1>1. Displayed(c, call) = e
  BY DEF Displayed
<1>2. c.overlay \in Overlays(Callbacks) /\ overlay \in Overlays(Callbacks)
  BY OverlayFacts DEF App
<1>3. /\ Committing(overlay.callback) => c.pending.kind # "idle"
      /\ Committing(Due(c.overlay, call)) => c.pending.kind # "idle"
      /\ call.call # "hide" => Due(c.overlay, call) = NoCallback
      /\ call.call = "hide" => overlay = Hidden
  BY <1>2, CallbackComes DEF Sound, OverlayInv
<1> HIDE DEF overlay
<1>4. /\ b \in App /\ Stays(c, b) /\ b.ui = c.ui /\ b.overlay = overlay /\ b.posted = c.posted
      /\ b.connected = c.connected /\ b.late = c.late
  BY <1>2 DEF App, Stays, Held
<1> HIDE DEF b
<1>5. Sound(b, w)
  <2>1. Screens(b)
    BY <1>4, SameScreens DEF Sound, Stays
  <2>2. OverlayInv(b)
    BY <1>3, <1>4 DEF Sound, OverlayInv, Stays
  <2> QED BY <1>4, <2>1, <2>2, StaysSound
<1>6. Ran(b, e) /\ (e # b => Committing(Due(c.overlay, call)) \/ b.errorShown)
  BY <1>4, RunUi
<1>7. call.call # "hide" => e = b
  BY <1>3, <1>4, RunFacts
<1> HIDE DEF e
<1>8. OverlayInv(e)
  <2>1. CASE e = b
    BY <2>1, <1>5 DEF Sound
  <2>2. CASE e # b
    <3>1. e.overlay = Hidden /\ e.posted = c.posted
      BY <1>3, <1>4, <1>6, <1>7, <2>2 DEF Ran
    <3> QED BY <3>1, CommitFacts DEF OverlayInv, Sound
  <2> QED BY <2>1, <2>2
<1>9. Sound(e, w)
  <2>1. /\ b.pending = c.pending /\ b.errorShown = c.errorShown /\ b.session = c.session
    BY <1>4 DEF Stays, Held
  <2>2. e # b => b.pending.kind # "idle" \/ b.errorShown
    BY <1>3, <1>6, <2>1
  <2> QED BY <1>4, <1>5, <1>6, <1>8, <2>1, <2>2, RanSound
<1>10. e.late = c.late
  BY <1>4, <1>6 DEF Ran, Held
<1> QED BY <1>1, <1>9, <1>10

LEMMA RecoverSound ==
  ASSUME NEW c \in App, NEW w, Sound(c, w), c.errorShown => c.session = NoSession
  PROVE  /\ RecoverFromAsrError(c).late = c.late
         /\ Sound(RecoverFromAsrError(c), w)
<1> DEFINE e == RecoverFromAsrError(c)
<1>1. Ran(c, e) /\ e.pending = c.pending /\ (e # c => c.errorShown)
  BY RecoverUi DEF RecoverFromAsrError
<1> HIDE DEF e
<1>2. OverlayInv(e)
  BY <1>1 DEF Ran, Sound, OverlayInv
<1>3. e.late = c.late
  BY <1>1 DEF Ran, Held
<1> QED BY <1>1, <1>2, <1>3, RanSound DEF e

\* A call that runs no callback now.
LEMMA DisplayUi ==
  ASSUME NEW c \in App, NEW t, NEW call \in Call, call.call # "hide" \/ t # "ui"
  PROVE  LET e == Display(c, t, call)
         IN  /\ e \in App /\ Stays(c, e) /\ e.ui = c.ui
             /\ t = "ui" => e.overlay = Applied(c.overlay, call) /\ e.posted = c.posted
             /\ t # "ui" => e.overlay = c.overlay
             /\ OverlayInv(c)
                  /\ (Commits(call) =>
                        call.call = "countdown" /\ c.state = "pending" /\ c.pending.kind # "idle")
                  => OverlayInv(e)
<1> DEFINE e == Display(c, t, call)
<1>1. e \in App /\ e = [c EXCEPT !.overlay = e.overlay, !.posted = e.posted]
  BY DisplayFacts
<1>2. c.overlay \in Overlays(Callbacks)
  BY DEF App
<1>3. t = "ui" => e.overlay = Applied(c.overlay, call) /\ e.posted = c.posted
  <2>1. SUFFICES ASSUME t = "ui" PROVE e.overlay = Applied(c.overlay, call) /\ e.posted = c.posted
    OBVIOUS
  <2>2. e = [c EXCEPT !.overlay = Applied(c.overlay, call)]
    BY <2>1, DisplayedFacts DEF Display
  <2> HIDE DEF e
  <2> QED BY <2>2 DEF App
<1>4. t # "ui" => /\ e.overlay = c.overlay
                  /\ e.posted = Append(c.posted, [call |-> call, during |-> Situation(c)])
  BY DEF Display, App
<1> HIDE DEF e
<1>5. Stays(c, e) /\ e.ui = c.ui
  BY <1>1 DEF App, Stays, Held
<1>6. ASSUME OverlayInv(c),
             Commits(call) =>
               call.call = "countdown" /\ c.state = "pending" /\ c.pending.kind # "idle"
      PROVE  OverlayInv(e)
  <2>1. e.pending = c.pending
    BY <1>5 DEF Stays
  <2>2. CASE t = "ui"
    BY <1>2, <1>3, <1>6, <2>1, <2>2, CallbackComes DEF OverlayInv
  <2>3. CASE t # "ui"
    <3> DEFINE post == [call |-> call, during |-> Situation(c)]
    <3>1. post.call = call /\ post.during[1] = c.state
      BY DEF Situation
    <3>2. c.posted \in Seq([call : Call, during : States \X BOOLEAN \X Times])
      BY DEF App, Posts
    <3>3. post \in [call : Call, during : States \X BOOLEAN \X Times]
      BY DEF Situation, App
    <3> HIDE DEF post
    <3>4. /\ DOMAIN e.posted = 1..(Len(c.posted) + 1) /\ DOMAIN c.posted = 1..Len(c.posted)
          /\ e.posted[Len(c.posted) + 1] = post
          /\ \A k \in 1..Len(c.posted) : e.posted[k] = c.posted[k]
          /\ Len(c.posted) \in Nat
      BY <1>4, <2>3, <3>2, <3>3 DEF post
    <3>5. ASSUME NEW k \in DOMAIN e.posted, Commits(e.posted[k].call)
          PROVE  e.posted[k].call.call = "countdown" /\ e.posted[k].during[1] = "pending"
      <4>1. CASE k = Len(c.posted) + 1
        BY <1>6, <3>1, <3>4, <3>5, <4>1
      <4>2. CASE k \in 1..Len(c.posted)
        BY <1>6, <3>4, <3>5, <4>2 DEF OverlayInv
      <4> QED BY <3>4, <4>1, <4>2
    <3> QED BY <1>4, <1>6, <2>1, <2>3, <3>5 DEF OverlayInv
  <2> QED BY <2>2, <2>3
<1> QED BY <1>1, <1>3, <1>4, <1>5, <1>6 DEF e

-----------------------------------------------------------------------------
\* The input becomes ready.

\* Nothing is up in the overlay, or a call that hides it is on its way.
HidesUi(c, e, t) ==
  IF t = "ui" THEN e.overlay = Hidden /\ e.posted = c.posted
  ELSE e.overlay = c.overlay /\ (OverlayInv(c) => OverlayInv(e))

LEMMA EnterReadyUi ==
  ASSUME NEW c \in App, NEW t
  PROVE  LET e == EnterReady(c, t)
         IN  /\ e \in App /\ Held(c, e) /\ HidesUi(c, e, t)
             /\ e.state = "ready" /\ e.device = NoDevice
             /\ e.pending \in {c.pending, Idle}
             /\ e.errorShown => c.errorShown
             /\ e.sentFinal => c.sentFinal
             /\ Screens(c) => Screens(e)
<1> DEFINE ds == IF c.device = NoDevice THEN Devices ELSE {c.device}
<1> DEFINE u == SendUiState(c, "ready")
<1> DEFINE b == [u EXCEPT !.state = "ready"]
<1> DEFINE d == Display(b, t, Hide(NoCallback))
<1> DEFINE e == [d EXCEPT !.device = NoDevice]
<1>1. "ready" \in Tellable /\ "ready" \in States /\ Expected("ready") = "ready"
  BY DEF Tellable, States, Expected
<1>2. u = SendUiStateTo(c, "ready", ds)
  BY DEF SendUiState
<1>3. u.ui = SendUiState(c, Expected("ready")).ui
  BY <1>1
<1>4. EnterReady(c, t) = e
  BY DEF EnterReady
<1> HIDE DEF u, ds
<1>5. /\ u \in App /\ Held(c, u) /\ u.overlay = c.overlay /\ u.posted = c.posted
      /\ u.sentFinal = c.sentFinal /\ u.device = c.device /\ u.pending = c.pending
      /\ u.errorShown = c.errorShown
  BY <1>1, <1>2, SendUi, SendToFacts
<1>6. /\ b \in App /\ Held(u, b) /\ b.overlay = u.overlay /\ b.posted = u.posted
      /\ b.sentFinal = u.sentFinal /\ b.device = u.device /\ b.pending = u.pending
      /\ b.errorShown = u.errorShown /\ b.ui = u.ui /\ b.state = "ready"
  BY <1>1, <1>5 DEF App, Held
<1> HIDE DEF b
<1>7. Held(c, b)
  BY <1>5, <1>6, HeldTwice
<1>8. Screens(c) => Screens(b)
  BY <1>1, <1>3, <1>5, <1>6, <1>7, EnterScreens DEF Held
<1>9. /\ d \in App /\ Held(b, d) /\ d.state = "ready" /\ d.pending \in {b.pending, Idle}
      /\ d.errorShown => b.errorShown
      /\ d.sentFinal => b.sentFinal
      /\ Screens(b) => Screens(d)
      /\ HidesUi(b, d, t)
  <2>1. CASE t = "ui"
    <3> DEFINE f == [b EXCEPT !.overlay = Hidden]
    <3>1. d = Run(f, Due(b.overlay, Hide(NoCallback)))
      BY <2>1 DEF Display, Displayed, Applied, Faded, Hide
    <3>2. Hidden \in Overlays(Callbacks)
      BY CallbackFacts DEF Hidden, Overlays
    <3>3. /\ f \in App /\ Stays(b, f) /\ f.ui = b.ui /\ f.overlay = Hidden /\ f.posted = b.posted
      BY <1>6, <3>2 DEF App, Stays, Held
    <3> HIDE DEF f, d
    <3>4. Ran(f, d)
      BY <3>1, <3>3, RunUi
    <3>5. Held(b, d)
      BY <3>3, <3>4, HeldTwice DEF Ran, Stays
    <3>6. Screens(b) => Screens(d)
      BY <3>3, <3>4, SameScreens DEF Ran, Stays, Held
    <3>7. HidesUi(b, d, t)
      BY <2>1, <3>3, <3>4 DEF Ran, HidesUi
    <3>8. /\ d \in App /\ d.state = "ready" /\ d.pending \in {b.pending, Idle}
          /\ d.errorShown => b.errorShown
          /\ d.sentFinal => b.sentFinal
      BY <1>6, <3>3, <3>4 DEF Ran, Stays
    <3> QED BY <3>5, <3>6, <3>7, <3>8
  <2>2. CASE t # "ui"
    <3>1. /\ d \in App /\ Stays(b, d) /\ d.ui = b.ui /\ d.overlay = b.overlay
          /\ OverlayInv(b) => OverlayInv(d)
      BY <1>6, <2>2, DisplayUi, HideCalls, CommitFacts
    <3> HIDE DEF d
    <3>2. Screens(b) => Screens(d)
      BY <3>1, SameScreens DEF Stays, Held
    <3> QED BY <1>6, <2>2, <3>1, <3>2 DEF Stays, HidesUi
  <2> QED BY <2>1, <2>2
<1> HIDE DEF d
<1>10. /\ e \in App /\ Held(d, e) /\ e.overlay = d.overlay /\ e.posted = d.posted
       /\ e.state = d.state /\ e.device = NoDevice /\ e.pending = d.pending
       /\ e.errorShown = d.errorShown /\ e.sentFinal = d.sentFinal /\ e.ui = d.ui
  BY <1>9 DEF App, Held
<1> HIDE DEF e
<1>11. Held(c, e)
  BY <1>7, <1>9, <1>10, HeldTwice
<1>12. Screens(c) => Screens(e)
  BY <1>8, <1>9, <1>10, ReadyScreens DEF Held
<1>13. HidesUi(c, e, t)
  BY <1>5, <1>6, <1>9, <1>10 DEF HidesUi, OverlayInv
<1> QED BY <1>4, <1>5, <1>6, <1>9, <1>10, <1>11, <1>12, <1>13

\* The recording and the text in hand were given up.
Rests(c, e) ==
  /\ Over(c, e) /\ e.late = c.late
  /\ e.state = "ready" /\ e.device = NoDevice
  /\ InHand(c) \subseteq e.dropped
  /\ Screens(c) => Screens(e)

LEMMA CancelUi ==
  ASSUME NEW c \in App, NEW t
  PROVE  LET e == CancelCycle(c, t)
         IN  /\ e \in App /\ Rests(c, e) /\ e.connected = c.connected
             /\ OverlayInv(c) /\ (t = "ui" \/ c.pending.kind = "idle") => OverlayInv(e)
<1> DEFINE a == Drop(c)
<1> DEFINE b == AsrCancel(a)
<1> DEFINE d == [b EXCEPT !.pending = Idle, !.session = NoSession]
<1> DEFINE f == FinishRecognitionCycle(d)
<1> DEFINE e == EnterReady(f, t)
<1>1. a \in App /\ a = [c EXCEPT !.dropped = a.dropped]
  BY DropFacts
<1>2. a.dropped = c.dropped \cup InHand(c)
  BY DEF Drop, App
<1>3. CancelCycle(c, t) = e
  BY DEF CancelCycle
<1> HIDE DEF a
<1>4. b \in App /\ b = [a EXCEPT !.fate = b.fate] /\ AsrActive(b) = {}
  BY <1>1, AsrEndFacts DEF AsrCancel, Fates
<1>5. \A i \in Inputs : b.fate[i] # "active"
  BY <1>4 DEF AsrActive
<1> HIDE DEF b
<1>6. /\ d \in App /\ d.session = NoSession /\ d.pending = Idle
      /\ d.fate = b.fate /\ d.fed = b.fed /\ d.last = b.last /\ d.translating = b.translating
      /\ d.dropped = b.dropped /\ d.late = b.late /\ d.ui = b.ui /\ d.connected = b.connected
      /\ d.state = b.state /\ d.device = b.device /\ d.overlay = b.overlay /\ d.posted = b.posted
  BY <1>4, EndRecording DEF App
<1>7. /\ b.fed = c.fed /\ b.last = c.last /\ b.translating = c.translating
      /\ b.dropped = c.dropped \cup InHand(c) /\ b.late = c.late /\ b.ui = c.ui
      /\ b.connected = c.connected /\ b.state = c.state /\ b.device = c.device
      /\ b.overlay = c.overlay /\ b.posted = c.posted
  <2>1. /\ a.fed = c.fed /\ a.last = c.last /\ a.translating = c.translating
        /\ a.late = c.late /\ a.ui = c.ui
        /\ a.connected = c.connected /\ a.state = c.state /\ a.device = c.device
        /\ a.overlay = c.overlay /\ a.posted = c.posted
    BY <1>1 DEF App
  <2>2. /\ b.fed = a.fed /\ b.last = a.last /\ b.translating = a.translating
        /\ b.dropped = a.dropped /\ b.late = a.late /\ b.ui = a.ui
        /\ b.connected = a.connected /\ b.state = a.state /\ b.device = a.device
        /\ b.overlay = a.overlay /\ b.posted = a.posted
    BY <1>1, <1>4 DEF App
  <2> QED BY <1>2, <2>1, <2>2
<1> HIDE DEF d
<1>8. /\ f \in App /\ Held(d, f) /\ f.overlay = d.overlay /\ f.posted = d.posted
      /\ ~f.sentFinal /\ f.state = d.state /\ f.device = d.device /\ f.pending = d.pending
      /\ f.ui = d.ui
  BY <1>6, FinishUi, FinishFacts
<1> HIDE DEF f
<1>9. /\ e \in App /\ Held(f, e) /\ HidesUi(f, e, t)
      /\ e.state = "ready" /\ e.device = NoDevice /\ e.pending = Idle
      /\ e.sentFinal => f.sentFinal
      /\ Screens(f) => Screens(e)
  BY <1>6, <1>8, EnterReadyUi
<1> HIDE DEF e
<1>10. Held(d, e)
  BY <1>8, <1>9, HeldTwice
<1>11. Over(c, e)
  BY <1>5, <1>6, <1>7, <1>8, <1>9, <1>10 DEF Over, Held, Closed
<1>12. Screens(c) => Screens(f)
  BY <1>6, <1>7, <1>8, SameScreens DEF Held
<1>13. Rests(c, e) /\ e.connected = c.connected
  BY <1>6, <1>7, <1>9, <1>10, <1>11, <1>12 DEF Rests, Held
<1>14. OverlayInv(c) /\ (t = "ui" \/ c.pending.kind = "idle") => OverlayInv(e)
  <2>1. CASE t = "ui"
    <3>1. e.overlay = Hidden /\ e.posted = c.posted
      BY <1>6, <1>7, <1>8, <1>9, <2>1 DEF HidesUi
    <3> QED BY <3>1, CommitFacts DEF OverlayInv
  <2>2. CASE t # "ui" /\ c.pending.kind = "idle" /\ OverlayInv(c)
    <3>1. OverlayInv(f)
      BY <1>6, <1>7, <1>8, <2>2 DEF OverlayInv
    <3> QED BY <1>9, <2>2, <3>1 DEF HidesUi
  <2> QED BY <2>1, <2>2
<1> QED BY <1>3, <1>9, <1>13, <1>14

\* A recording that was too short is cancelled like any other while no text is up.
LEMMA ShortIsCancel ==
  ASSUME NEW c \in App, NEW t, c.pending = Idle
  PROVE  CancelShortRecording(c, t) = CancelCycle(c, t)
<1> DEFINE a == Drop(c)
<1> DEFINE b == AsrCancel(a)
<1>1. c.pending.kind = "idle"
  BY DEF Idle
<1>2. Recorded(c) \ Offered(c) = InHand(c)
  BY <1>1 DEF Offered, InHand
<1>3. a = [c EXCEPT !.dropped = @ \cup (Recorded(c) \ Offered(c))]
  BY <1>2 DEF Drop
<1>4. a \in App /\ a = [c EXCEPT !.dropped = a.dropped]
  BY DropFacts
<1>5. a.pending = Idle
  BY <1>4 DEF App
<1> HIDE DEF a
<1>6. b \in App /\ b = [a EXCEPT !.fate = b.fate]
  BY <1>4, AsrEndFacts DEF AsrCancel, Fates
<1>7. b.pending = Idle
  BY <1>4, <1>5, <1>6 DEF App
<1> HIDE DEF b
<1>8. [b EXCEPT !.pending = Idle, !.session = NoSession] = [b EXCEPT !.session = NoSession]
  BY <1>6, <1>7 DEF App
<1> QED BY <1>3, <1>8 DEF CancelShortRecording, CancelCycle, a, b

LEMMA RestsSound ==
  ASSUME NEW c, NEW e, NEW w, Sound(c, w), Rests(c, e), OverlayInv(e)
  PROVE  Sound(e, w)
<1>1. NothingComes(c, w, e.dropped)
  <2>1. \A i \in Inputs \ c.dropped : Coming(c, w, i) => i \in InHand(c)
    BY DEF Sound, ResultInv, Engaged, Busy, InHand, Recorded
  <2> QED BY <2>1 DEF Rests, Over, NothingComes
<1>2. StateInv(e)
  BY DEF Rests, Over, StateInv, Busy
<1> QED BY <1>1, <1>2, OverSound DEF Rests, Sound

LEMMA CancelSound ==
  ASSUME NEW c \in App, NEW t, NEW w, Sound(c, w), t = "ui" \/ c.pending.kind = "idle"
  PROVE  CancelCycle(c, t).late = c.late /\ Sound(CancelCycle(c, t), w)
BY CancelUi, RestsSound DEF Rests, Sound

-----------------------------------------------------------------------------
\* The other states the input enters.

\* Everything is given up for an error.
Fails(c, e) ==
  /\ Over(c, e) /\ e.late = c.late
  /\ e.state = "error" /\ e.device = c.device /\ e.connected = c.connected
  /\ e.pending = Idle /\ e.dropped = c.dropped
  /\ Screens(c) => Screens(e)
  /\ OverlayInv(c) /\ c.pending.kind = "idle" => OverlayInv(e)

LEMMA FailUi ==
  ASSUME NEW c \in App, NEW t
  PROVE  FinishWithAsrError(c, t) \in App /\ Fails(c, FinishWithAsrError(c, t))
<1> DEFINE a == CancelAudioEndTimeout(c)
<1> DEFINE b == AsrCancel(a)
<1> DEFINE d == [b EXCEPT !.pending = Idle, !.session = NoSession]
<1> DEFINE f == FinishRecognitionCycle(d)
<1> DEFINE g == [f EXCEPT !.errorShown = TRUE, !.state = "error"]
<1> DEFINE ds == IF g.device = NoDevice THEN Devices ELSE {g.device}
<1> DEFINE u == SendUiState(g, "error")
<1> DEFINE e == Display(u, t, ErrorText(Recover))
<1>1. FinishWithAsrError(c, t) = e
  BY DEF FinishWithAsrError, EnterError
<1>2. "error" \in Tellable /\ "error" \in States /\ Expected("error") = "error"
  BY DEF Tellable, States, Expected
<1>3. a \in App /\ Stays(c, a) /\ a.ui = c.ui /\ a.overlay = c.overlay /\ a.posted = c.posted
  <2>1. a \in App
    BY CancelTimeoutFacts
  <2> QED BY <2>1 DEF CancelAudioEndTimeout, App, Stays, Held
<1> HIDE DEF a
<1>4. b \in App /\ b = [a EXCEPT !.fate = b.fate] /\ AsrActive(b) = {}
  BY <1>3, AsrEndFacts DEF AsrCancel, Fates
<1>5. \A i \in Inputs : b.fate[i] # "active"
  BY <1>4 DEF AsrActive
<1> HIDE DEF b
<1>6. /\ b.fed = c.fed /\ b.last = c.last /\ b.translating = c.translating
      /\ b.dropped = c.dropped /\ b.late = c.late /\ b.ui = c.ui
      /\ b.connected = c.connected /\ b.state = c.state /\ b.device = c.device
      /\ b.overlay = c.overlay /\ b.posted = c.posted
  <2>1. /\ b.fed = a.fed /\ b.last = a.last /\ b.translating = a.translating
        /\ b.dropped = a.dropped /\ b.late = a.late /\ b.ui = a.ui
        /\ b.connected = a.connected /\ b.state = a.state /\ b.device = a.device
        /\ b.overlay = a.overlay /\ b.posted = a.posted
    BY <1>3, <1>4 DEF App
  <2> QED BY <1>3, <2>1 DEF Stays, Held
<1>7. /\ d \in App /\ d.session = NoSession /\ d.pending = Idle
      /\ d.fate = b.fate /\ d.fed = b.fed /\ d.last = b.last /\ d.translating = b.translating
      /\ d.dropped = b.dropped /\ d.late = b.late /\ d.ui = b.ui /\ d.connected = b.connected
      /\ d.state = b.state /\ d.device = b.device /\ d.overlay = b.overlay /\ d.posted = b.posted
  BY <1>4, EndRecording DEF App
<1> HIDE DEF d
<1>8. /\ f \in App /\ Held(d, f) /\ f.overlay = d.overlay /\ f.posted = d.posted
      /\ ~f.sentFinal /\ f.state = d.state /\ f.device = d.device /\ f.pending = d.pending
      /\ f.ui = d.ui
  BY <1>7, FinishUi, FinishFacts
<1> HIDE DEF f
<1>9. /\ g \in App /\ Held(f, g) /\ g.overlay = f.overlay /\ g.posted = f.posted
      /\ g.sentFinal = f.sentFinal /\ g.state = "error" /\ g.device = f.device
      /\ g.pending = f.pending /\ g.ui = f.ui
  BY <1>2, <1>8 DEF App, Held
<1> HIDE DEF g
<1>10. u = SendUiStateTo(g, "error", ds) /\ u.ui = SendUiState(g, Expected("error")).ui
  BY <1>2 DEF SendUiState
<1> HIDE DEF u, ds
<1>11. /\ u \in App /\ Held(g, u) /\ u.overlay = g.overlay /\ u.posted = g.posted
       /\ u.sentFinal = g.sentFinal /\ u.state = g.state /\ u.device = g.device
       /\ u.pending = g.pending
  BY <1>2, <1>9, <1>10, SendUi, SendToFacts
<1>12. /\ e \in App /\ Stays(u, e) /\ e.ui = u.ui
       /\ OverlayInv(u) => OverlayInv(e)
  BY <1>11, DisplayUi, HideCalls, CommitFacts
<1> HIDE DEF e
<1>13. Held(d, e)
  BY <1>8, <1>9, <1>11, <1>12, HeldTwice DEF Stays
<1>14. Over(c, e)
  BY <1>5, <1>6, <1>7, <1>8, <1>9, <1>11, <1>12, <1>13 DEF Over, Held, Stays, Closed
<1>15. Screens(c) => Screens(u)
  <2>1. g.device = c.device /\ g.connected = c.connected /\ g.ui = c.ui /\ u.connected = c.connected
        /\ u.state = "error" /\ u.device = c.device
    BY <1>6, <1>7, <1>8, <1>9, <1>11 DEF Held
  <2> QED BY <1>2, <1>9, <1>10, <2>1, EnterScreens
<1>16. Screens(c) => Screens(e)
  BY <1>12, <1>15, SameScreens DEF Stays, Held
<1>17. OverlayInv(c) /\ c.pending.kind = "idle" => OverlayInv(u)
  BY <1>6, <1>7, <1>8, <1>9, <1>11 DEF OverlayInv
<1>18. Fails(c, e)
  BY <1>6, <1>7, <1>8, <1>9, <1>11, <1>12, <1>13, <1>14, <1>16, <1>17 DEF Fails, Stays, Held
<1> QED BY <1>1, <1>12, <1>18

LEMMA FailSound ==
  ASSUME NEW c, NEW e, NEW w, Sound(c, w), Fails(c, e), c.device # NoDevice,
         c.pending.kind = "idle", NothingComes(c, w, c.dropped)
  PROVE  Sound(e, w)
<1>1. StateInv(e)
  BY DEF Fails, Over, StateInv, Busy
<1> QED BY <1>1, OverSound DEF Fails, Sound

\* The end of the recording is told.
Finalizes(c, e) ==
  /\ Held(c, e) /\ e.overlay = c.overlay /\ e.posted = c.posted
  /\ e.started = c.started /\ e.sentFinal = c.sentFinal
  /\ e.device = c.device /\ e.pending = c.pending /\ e.errorShown = c.errorShown
  /\ e.state = "finalizing"
  /\ Screens(c) => Screens(e)

LEMMA FinalizeUi ==
  ASSUME NEW c \in App
  PROVE  EnterFinalizing(c) \in App /\ Finalizes(c, EnterFinalizing(c))
<1> DEFINE b == [c EXCEPT !.state = "finalizing"]
<1> DEFINE e == EnterFinalizing(c)
<1>1. e \in App /\ e = [c EXCEPT !.state = "finalizing", !.ui = e.ui]
  BY EnterFinalizingFacts
<1>2. "finalizing" \in States /\ Expected("finalizing") = "thinking"
  BY DEF States, Expected
<1>3. e.ui = SendUiState(b, Expected("finalizing")).ui
  BY <1>2 DEF EnterFinalizing
<1>4. b \in App /\ b.device = c.device /\ b.connected = c.connected /\ b.ui = c.ui
  BY <1>2 DEF App
<1> HIDE DEF b, e
<1>5. /\ Held(c, e) /\ e.overlay = c.overlay /\ e.posted = c.posted
      /\ e.started = c.started /\ e.sentFinal = c.sentFinal
      /\ e.device = c.device /\ e.pending = c.pending /\ e.errorShown = c.errorShown
      /\ e.state = "finalizing" /\ e.connected = c.connected
  BY <1>1 DEF App, Held
<1>6. Screens(c) => Screens(e)
  BY <1>2, <1>3, <1>4, <1>5, EnterScreens
<1> QED BY <1>1, <1>5, <1>6 DEF Finalizes, e

LEMMA FinalizeSound ==
  ASSUME NEW c, NEW e, NEW w, Sound(c, w), Finalizes(c, e), Busy(c)
  PROVE  Sound(e, w)
<1>1. \A i : Closed(e, i) = Closed(c, i)
  BY DEF Finalizes, Held, Closed
<1>2. Engaged(c) => Engaged(e)
  BY DEF Finalizes, Held, Engaged, Busy
<1>3. StateInv(e)
  BY DEF Sound, StateInv, Finalizes, Held, Busy, Idle
<1>4. ResultInv(e, w)
  BY <1>1, <1>2 DEF Sound, ResultInv, Finalizes, Held, Coming
<1>5. LastInv(e, w)
  BY <1>1 DEF Sound, LastInv, Finalizes, Held
<1>6. OverlayInv(e)
  BY DEF Sound, OverlayInv, Finalizes
<1> QED BY <1>3, <1>4, <1>5, <1>6 DEF Sound, Finalizes

\* A text is up, paused.
LEMMA PausedSound ==
  ASSUME NEW c \in App, NEW w, Sound(c, w), c.pending.kind # "idle"
  PROVE  EnterPausedConfirmation(c, "ui").late = c.late /\ Sound(EnterPausedConfirmation(c, "ui"), w)
<1> DEFINE up == [c.pending EXCEPT !.kind = "paused"]
<1> DEFINE b == [c EXCEPT !.pending.kind = "paused", !.state = "paused"]
<1> DEFINE d == Display(b, "ui", PausedFinal)
<1> DEFINE ds == IF d.device = NoDevice THEN Devices ELSE {d.device}
<1> DEFINE e == SendUiState(d, "pending")
<1>1. EnterPausedConfirmation(c, "ui") = e
  BY DEF EnterPausedConfirmation
<1>2. "paused" \in States /\ Expected("paused") = "pending" /\ "pending" \in Tellable
  BY DEF States, Expected, Tellable
<1>3. up \in Confirmation /\ up.kind = "paused"
  <2>1. c.pending \in Confirmation
    BY DEF App
  <2> QED BY <2>1 DEF Confirmation
<1>4. b = [c EXCEPT !.pending = up, !.state = "paused"]
  BY DEF App
<1> HIDE DEF up, b
<1>5. /\ b \in App /\ Held(c, b) /\ b.overlay = c.overlay /\ b.posted = c.posted
      /\ b.sentFinal = c.sentFinal /\ b.state = "paused" /\ b.device = c.device
      /\ b.pending = up /\ b.errorShown = c.errorShown /\ b.ui = c.ui
  BY <1>2, <1>3, <1>4 DEF App, Held
<1>6. d \in App /\ Stays(b, d) /\ d.ui = b.ui /\ (OverlayInv(b) => OverlayInv(d))
  BY <1>5, DisplayUi, HideCalls, CommitFacts
<1> HIDE DEF d
<1>7. e = SendUiStateTo(d, "pending", ds) /\ e.ui = SendUiState(d, Expected("paused")).ui
  BY <1>2 DEF SendUiState
<1> HIDE DEF e, ds
<1>8. /\ e \in App /\ Held(d, e) /\ e.overlay = d.overlay /\ e.posted = d.posted
      /\ e.sentFinal = d.sentFinal /\ e.state = d.state /\ e.device = d.device
      /\ e.pending = d.pending /\ e.errorShown = d.errorShown
  BY <1>2, <1>6, <1>7, SendUi, SendToFacts
<1>9. Held(c, e)
  BY <1>5, <1>6, <1>8, HeldTwice DEF Stays
<1>10. /\ e.sentFinal = c.sentFinal /\ e.state = "paused" /\ e.device = c.device
       /\ e.pending.kind = "paused" /\ e.errorShown = c.errorShown /\ e.late = c.late
       /\ e.connected = c.connected
  BY <1>3, <1>5, <1>6, <1>8, <1>9 DEF Stays, Held
<1>11. Screens(e)
  <2>1. d.device = c.device /\ d.connected = c.connected /\ d.ui = c.ui
    BY <1>5, <1>6 DEF Stays, Held
  <2> QED BY <1>2, <1>6, <1>7, <1>10, <2>1, EnterScreens DEF Sound
<1>12. OverlayInv(e)
  <2>1. OverlayInv(b)
    BY <1>3, <1>5 DEF Sound, OverlayInv
  <2> QED BY <1>6, <1>8, <2>1 DEF OverlayInv
<1>13. ~Busy(c) /\ (\A i \in Inputs : c.fate[i] # "active") /\ NothingComes(c, w, c.dropped)
  BY NotBusy DEF Sound, StateInv, Idle
<1>14. StateInv(e) /\ c.session = NoSession
  BY <1>9, <1>10, <1>13 DEF Sound, StateInv, Held, Busy
<1>15. ResultInv(e, w)
  <2>1. Tells(w, c.input) /\ w.tells = "partial" /\ c.input \notin c.dropped => ~c.sentFinal
    BY <1>13 DEF Sound, ResultInv, Busy
  <2> QED BY <1>9, <1>10, <1>13, <2>1 DEF ResultInv, NothingComes, Held, Coming
<1>16. LastInv(e, w)
  BY <1>9 DEF Sound, LastInv, Held, Closed
<1> QED BY <1>1, <1>10, <1>11, <1>12, <1>14, <1>15, <1>16 DEF Sound

\* A text is put up for confirmation.
Confirms(c, e, i) ==
  /\ e.session = c.session /\ e.input = c.input /\ e.fate = c.fate /\ e.fed = c.fed
  /\ e.translating = c.translating /\ e.dropped = c.dropped /\ e.late = c.late
  /\ e.sentFinal = c.sentFinal /\ e.errorShown = c.errorShown
  /\ e.state = "pending" /\ e.pending.kind = "waiting" /\ e.last.of = i
  /\ Screens(c) => Screens(e)
  /\ OverlayInv(c) => OverlayInv(e)

LEMMA ConfirmUi ==
  ASSUME NEW c \in App, NEW t, NEW text \in Texts \cup {Empty}, NEW i \in Inputs
  PROVE  Confirms(c, EnterPendingConfirmation(Remember(c, text, i), t, text, i), i)
<1> DEFINE last == [kind |-> "paused", text |-> text, of |-> i]
<1> DEFINE up == [kind |-> "waiting", text |-> text, of |-> i]
<1> DEFINE a == Remember(c, text, i)
<1> DEFINE shown == [a.shown EXCEPT ![i] = @ + 1]
<1> DEFINE b == [a EXCEPT !.pending = up, !.state = "pending", !.shown[i] = @ + 1]
<1> DEFINE d == Display(b, t, Countdown(Commit(text)))
<1> DEFINE ds == IF d.device = NoDevice THEN Devices ELSE {d.device}
<1> DEFINE e == SendUiState(d, "pending")
<1>1. "pending" \in States /\ Expected("pending") = "pending" /\ "pending" \in Tellable
  BY DEF States, Expected, Tellable
<1>2. i \in Times
  BY BoundsAssumption DEF Inputs, Times
<1>3. last \in Confirmation /\ last.of = i /\ up \in Confirmation /\ up.kind = "waiting"
  BY <1>2 DEF Confirmation
<1>4. a = [c EXCEPT !.last = last, !.lastDevice = c.device]
  BY DEF Remember
<1> HIDE DEF last, up, a
<1>5. /\ a \in App /\ a.last = last
      /\ a.session = c.session /\ a.input = c.input /\ a.fate = c.fate /\ a.fed = c.fed
      /\ a.translating = c.translating /\ a.dropped = c.dropped /\ a.late = c.late
      /\ a.sentFinal = c.sentFinal /\ a.errorShown = c.errorShown
      /\ a.device = c.device /\ a.connected = c.connected /\ a.ui = c.ui
      /\ a.overlay = c.overlay /\ a.posted = c.posted
  BY <1>3, <1>4 DEF App
<1>6. shown \in [Inputs -> Nat]
  BY <1>5 DEF App
<1>7. b = [a EXCEPT !.pending = up, !.state = "pending", !.shown = shown]
  BY <1>5 DEF App
<1> HIDE DEF shown, b
<1>8. /\ b \in App /\ Held(a, b) /\ b.overlay = a.overlay /\ b.posted = a.posted
      /\ b.sentFinal = a.sentFinal /\ b.state = "pending" /\ b.device = a.device
      /\ b.pending = up /\ b.errorShown = a.errorShown /\ b.ui = a.ui
  BY <1>1, <1>3, <1>5, <1>6, <1>7 DEF App, Held
<1>9. Countdown(Commit(text)) \in Call /\ Countdown(Commit(text)).call = "countdown"
  BY HideCalls DEF Countdown
<1>10. d \in App /\ Stays(b, d) /\ d.ui = b.ui /\ (OverlayInv(b) => OverlayInv(d))
  BY <1>3, <1>8, <1>9, DisplayUi
<1> HIDE DEF d
<1>11. e = SendUiStateTo(d, "pending", ds) /\ e.ui = SendUiState(d, Expected("pending")).ui
  BY <1>1 DEF SendUiState
<1>12. EnterPendingConfirmation(a, t, text, i) = e
  BY DEF EnterPendingConfirmation, d, b, up
<1> HIDE DEF e, ds
<1>13. /\ e \in App /\ Held(d, e) /\ e.overlay = d.overlay /\ e.posted = d.posted
       /\ e.sentFinal = d.sentFinal /\ e.state = d.state /\ e.device = d.device
       /\ e.pending = d.pending /\ e.errorShown = d.errorShown
  BY <1>1, <1>10, <1>11, SendUi, SendToFacts
<1>14. Held(a, e)
  BY <1>8, <1>10, <1>13, HeldTwice DEF Stays
<1>15. /\ e.state = "pending" /\ e.pending.kind = "waiting" /\ e.last.of = i
       /\ e.sentFinal = c.sentFinal /\ e.errorShown = c.errorShown /\ e.device = c.device
       /\ e.connected = c.connected
  BY <1>3, <1>5, <1>8, <1>10, <1>13, <1>14 DEF Stays, Held
<1>16. Screens(c) => Screens(e)
  <2>1. d.device = c.device /\ d.connected = c.connected /\ d.ui = c.ui
    BY <1>5, <1>8, <1>10 DEF Stays, Held
  <2> QED BY <1>1, <1>10, <1>11, <1>15, <2>1, EnterScreens
<1>17. OverlayInv(c) => OverlayInv(e)
  <2>1. OverlayInv(c) => OverlayInv(b)
    BY <1>3, <1>5, <1>8 DEF OverlayInv
  <2> QED BY <1>10, <1>13, <2>1 DEF OverlayInv
<1>18. Confirms(c, e, i)
  BY <1>5, <1>14, <1>15, <1>16, <1>17 DEF Confirms, Held
<1> QED BY <1>12, <1>18 DEF a

LEMMA ConfirmSound ==
  ASSUME NEW c, NEW e, NEW w, NEW i \in Inputs, Sound(c, w), Confirms(c, e, i),
         i = c.input, ~c.errorShown, c.session = NoSession, Closed(c, i),
         \A j \in Inputs : c.fate[j] # "active",
         NothingComes(c, w, c.dropped), i \notin c.translating, ~Tells(w, i)
  PROVE  Sound(e, w)
<1>1. StateInv(e)
  BY DEF Confirms, StateInv, Busy
<1>2. ResultInv(e, w)
  BY DEF Confirms, ResultInv, NothingComes, Coming
<1>3. LastInv(e, w)
  BY DEF Confirms, LastInv, Closed
<1> QED BY <1>1, <1>2, <1>3 DEF Confirms, Sound

-----------------------------------------------------------------------------
\* Audio, as far as the results are concerned.

\* A chunk was taken, or the ASR client failed without a word.
Fills(c, e) ==
  /\ e.session = c.session /\ e.input = c.input /\ e.heard = c.heard
  /\ e.translating = c.translating /\ e.last = c.last /\ e.dropped = c.dropped
  /\ e.late = c.late /\ e.connected = c.connected
  /\ e.sentFinal = c.sentFinal /\ e.state = c.state /\ e.device = c.device
  /\ e.pending = c.pending /\ e.errorShown = c.errorShown
  /\ e.ui = c.ui /\ e.overlay = c.overlay /\ e.posted = c.posted
  /\ c.started => e.started
  /\ \A i \in Inputs : e.fate[i] = "active" =>
       c.fate[i] = "active" \/ (i = c.input /\ ~c.started /\ e.started)
  /\ \A i \in Inputs : Closed(c, i) => Closed(e, i)

LEMMA FillsTwice ==
  ASSUME NEW c, NEW d, NEW e, Fills(c, d), Fills(d, e)
  PROVE  Fills(c, e)
BY DEF Fills

Breaks(c) == ~c.started \/ \E i \in Inputs : c.fate[i] = "active"

Feeds(c, e) == Fills(c, e) \/ (Breaks(c) /\ Fails(c, e))

LEMMA AppendClosed ==
  ASSUME NEW s \in Chunks, NEW x \in Chunks, NEW k \in DOMAIN s, s[k].last
  PROVE  \E l \in DOMAIN (s \o x) : (s \o x)[l].last
<1>1. s \in Seq(Chunk) /\ x \in Seq(Chunk)
  BY DEF Chunks
<1>2. /\ DOMAIN (s \o x) = 1..(Len(s) + Len(x)) /\ DOMAIN s = 1..Len(s)
      /\ Len(s) \in Nat /\ Len(x) \in Nat
      /\ \A l \in 1..Len(s) : (s \o x)[l] = s[l]
  BY <1>1
<1> QED BY <1>2

LEMMA AppendOneClosed ==
  ASSUME NEW s \in Chunks, NEW x \in Chunk, NEW k \in DOMAIN s, s[k].last
  PROVE  \E l \in DOMAIN Append(s, x) : Append(s, x)[l].last
<1>1. s \in Seq(Chunk)
  BY DEF Chunks
<1>2. /\ DOMAIN Append(s, x) = 1..(Len(s) + 1) /\ DOMAIN s = 1..Len(s)
      /\ Len(s) \in Nat
      /\ \A l \in 1..Len(s) : Append(s, x)[l] = s[l]
  BY <1>1
<1> QED BY <1>2

LEMMA AsrEndFills ==
  ASSUME NEW c \in App, NEW end \in Fates \ {"active"}
  PROVE  /\ AsrEnd(c, end) \in App /\ Fills(c, AsrEnd(c, end))
         /\ \A i \in Inputs : AsrEnd(c, end).fate[i] # "active"
         /\ AsrEnd(c, end).started = c.started /\ AsrEnd(c, end).fed = c.fed
<1> DEFINE e == AsrEnd(c, end)
<1>1. e \in App /\ e = [c EXCEPT !.fate = e.fate] /\ AsrActive(e) = {}
  BY AsrEndFacts
<1> HIDE DEF e
<1>2. e.started = c.started /\ e.fed = c.fed
  BY <1>1 DEF App
<1>3. \A i \in Inputs : e.fate[i] # "active"
  BY <1>1 DEF AsrActive
<1>4. Fills(c, e)
  BY <1>1, <1>2, <1>3 DEF App, Fills, Closed
<1> QED BY <1>1, <1>2, <1>3, <1>4 DEF e

LEMMA FillsFails ==
  ASSUME NEW c, NEW d, NEW e, Fills(c, d), Fails(d, e)
  PROVE  Fails(c, e)
<1>1. Screens(c) => Screens(d)
  BY DEF Fills, Screens, Agrees, Target, Asking
<1>2. OverlayInv(c) => OverlayInv(d)
  BY DEF Fills, OverlayInv
<1>3. Over(c, e)
  BY DEF Fills, Fails, Over
<1> QED BY <1>1, <1>2, <1>3 DEF Fails, Fills

LEMMA SendFeeds ==
  ASSUME NEW c \in App, NEW t, NEW chunk \in Chunk, NEW luck \in Lucks
  PROVE  LET e == SendOggOpusChunk(c, t, chunk, luck)
         IN  e \in App /\ Feeds(c, e)
<1> DEFINE e == SendOggOpusChunk(c, t, chunk, luck)
<1>1. CASE AsrActive(c) = {}
  <2>1. e = c
    BY <1>1 DEF SendOggOpusChunk
  <2> QED BY <2>1 DEF Feeds, Fills
<1>2. CASE AsrActive(c) # {} /\ luck \in {"ok", "refused"}
  <2> DEFINE fed == [i \in Inputs |-> IF i \in AsrActive(c) THEN Append(c.fed[i], chunk) ELSE c.fed[i]]
  <2>1. e = [c EXCEPT !.fed = fed]
    BY <1>2 DEF SendOggOpusChunk, App
  <2>2. c.fed \in [Inputs -> Chunks]
    BY DEF App
  <2>3. fed \in [Inputs -> Chunks]
    <3>1. \A i \in Inputs : Append(c.fed[i], chunk) \in Chunks
      BY <2>2 DEF Chunks
    <3> QED BY <2>2, <3>1
  <2>4. \A i \in Inputs : Closed(c, i) => \E l \in DOMAIN fed[i] : fed[i][l].last
    BY <2>2, AppendOneClosed DEF Closed
  <2> HIDE DEF fed, e
  <2>5. e \in App
    BY <2>1, <2>3 DEF App
  <2>6. e.fed = fed
    BY <2>1 DEF App
  <2>7. \A i \in Inputs : Closed(c, i) => Closed(e, i)
    BY <2>4, <2>6 DEF Closed
  <2>8. Fills(c, e)
    BY <2>1, <2>7 DEF App, Fills
  <2> QED BY <2>5, <2>8 DEF Feeds, e
<1>3. CASE AsrActive(c) # {} /\ luck = "breaks"
  <2> DEFINE d == AsrEnd(c, "error")
  <2>1. e = FinishWithAsrError(d, t)
    BY <1>3 DEF SendOggOpusChunk
  <2>2. d \in App /\ Fills(c, d)
    BY AsrEndFills DEF Fates
  <2> HIDE DEF d
  <2>3. e \in App /\ Fails(d, e)
    BY <2>1, <2>2, FailUi
  <2>4. Breaks(c)
    BY <1>3 DEF Breaks, AsrActive
  <2> QED BY <2>2, <2>3, <2>4, FillsFails DEF Feeds
<1>4. CASE AsrActive(c) # {} /\ luck = "silent"
  <2>1. e = AsrEnd(c, "silent")
    BY <1>4 DEF SendOggOpusChunk
  <2> QED BY <2>1, AsrEndFills DEF Fates, Feeds
<1> QED BY <1>1, <1>2, <1>3, <1>4 DEF Lucks

LEMMA EmptiedFills ==
  ASSUME NEW c \in App, NEW buffered \in Chunks
  PROVE  LET e == [c EXCEPT !.buffered = buffered]
         IN  /\ e \in App /\ Fills(c, e) /\ e.started = c.started /\ e.fate = c.fate
             /\ e.input = c.input /\ e.buffered = buffered
<1> DEFINE e == [c EXCEPT !.buffered = buffered]
<1>1. /\ e.fed = c.fed /\ e.fate = c.fate /\ e.started = c.started /\ e.input = c.input
      /\ e.buffered = buffered
  BY DEF App
<1>2. e \in App
  BY DEF App
<1>3. Fills(c, e)
  BY DEF App, Fills, Closed
<1> QED BY <1>1, <1>2, <1>3

LEMMA FailsThen ==
  ASSUME NEW c, NEW d, NEW e, Fails(c, d), Fills(d, e), d.pending.kind = "idle",
         \A i \in Inputs : e.fate[i] # "active"
  PROVE  Fails(c, e)
<1>1. Screens(d) => Screens(e)
  BY DEF Fills, Screens, Agrees, Target, Asking
<1>2. OverlayInv(d) => OverlayInv(e)
  BY DEF Fills, OverlayInv
<1>3. Over(c, e)
  BY DEF Fills, Fails, Over
<1> QED BY <1>1, <1>2, <1>3 DEF Fails, Fills

LEMMA FlushFeeds ==
  ASSUME NEW c \in App, NEW t, NEW luck \in Lucks, c.input \in Inputs, ~c.started,
         c.buffered # <<>>
  PROVE  LET e == StartAsrAndFlush(c, t, luck)
         IN  e \in App /\ Feeds(c, e)
<1> DEFINE e == StartAsrAndFlush(c, t, luck)
<1>1. CASE AsrActive(c) # {} \/ luck = "refused"
  <2> DEFINE failed == [c EXCEPT !.buffered = <<>>]
  <2>1. failed \in App /\ Fills(c, failed)
    BY Empties, EmptiedFills
  <2>2. e \in {failed, FinishWithAsrError(failed, t)}
    BY <1>1 DEF StartAsrAndFlush
  <2> HIDE DEF failed, e
  <2>3. FinishWithAsrError(failed, t) \in App /\ Fails(c, FinishWithAsrError(failed, t))
    BY <2>1, FailUi, FillsFails
  <2> QED BY <2>1, <2>2, <2>3 DEF Feeds, Breaks, e
<1>2. CASE AsrActive(c) = {} /\ luck # "refused"
  <2> DEFINE fate == [c.fate EXCEPT ![c.input] = "active"]
  <2> DEFINE begun == [c EXCEPT !.started = TRUE, !.fate[c.input] = "active"]
  <2>1. fate \in [Inputs -> Fates] /\ \A i \in Inputs : fate[i] = "active" => i = c.input
    BY <1>2 DEF App, Fates, AsrActive
  <2>2. begun = [c EXCEPT !.started = TRUE, !.fate = fate]
    BY DEF App
  <2>3. e = IF luck = "ok"
            THEN [begun EXCEPT !.fed[c.input] = @ \o c.buffered, !.buffered = <<>>]
            ELSE [SendOggOpusChunk(begun, t, Head(c.buffered), luck) EXCEPT !.buffered = <<>>]
    BY <1>2 DEF StartAsrAndFlush
  <2> HIDE DEF fate, begun
  <2>4. /\ begun \in App /\ begun.started /\ begun.fate = fate /\ begun.fed = c.fed
    BY <2>1, <2>2 DEF App
  <2>5. Fills(c, begun)
    <3>1. \A i \in Inputs : Closed(c, i) => Closed(begun, i)
      BY <2>4 DEF Closed
    <3> QED BY <2>1, <2>2, <2>4, <3>1 DEF App, Fills
  <2>6. c.buffered \in Chunks
    BY DEF App
  <2>7. CASE luck = "ok"
    <3> DEFINE all == begun.fed[c.input] \o c.buffered
    <3> DEFINE fed == [begun.fed EXCEPT ![c.input] = all]
    <3>1. begun.fed \in [Inputs -> Chunks]
      BY <2>4 DEF App
    <3>2. all \in Chunks
      BY <2>6, <3>1 DEF Chunks
    <3>3. e = [begun EXCEPT !.fed = fed, !.buffered = <<>>]
      BY <2>3, <2>4, <2>7 DEF App
    <3>4. \A i \in Inputs : Closed(begun, i) => \E l \in DOMAIN fed[i] : fed[i][l].last
      BY <2>6, <3>1, AppendClosed DEF Closed
    <3>5. fed \in [Inputs -> Chunks]
      BY <3>1, <3>2
    <3> HIDE DEF fed, e, all
    <3>6. e \in App /\ e.fed = fed
      BY <2>4, <3>3, <3>5, Empties DEF App
    <3>7. \A i \in Inputs : Closed(begun, i) => Closed(e, i)
      BY <3>4, <3>6 DEF Closed
    <3>8. Fills(begun, e)
      BY <2>4, <3>3, <3>7 DEF App, Fills
    <3> QED BY <2>5, <3>6, <3>8, FillsTwice DEF Feeds, e
  <2>8. CASE luck # "ok"
    <3> DEFINE sent == SendOggOpusChunk(begun, t, Head(c.buffered), luck)
    <3>1. Head(c.buffered) \in Chunk
      BY <2>6, FirstFacts DEF Chunks
    <3>2. sent \in App /\ Feeds(begun, sent)
      BY <2>4, <3>1, SendFeeds
    <3>3. e = [sent EXCEPT !.buffered = <<>>]
      BY <2>3, <2>8
    <3> HIDE DEF sent, e
    <3>4. e \in App /\ Fills(sent, e) /\ e.fate = sent.fate
      BY <3>2, <3>3, Empties, EmptiedFills
    <3>5. CASE Fills(begun, sent)
      BY <2>5, <3>4, <3>5, FillsTwice DEF Feeds, e
    <3>6. CASE Fails(begun, sent)
      <4>1. Fails(c, sent)
        BY <2>5, <3>6, FillsFails
      <4>2. Fails(c, e)
        BY <3>4, <4>1, FailsThen DEF Fails, Over, Idle
      <4> QED BY <3>4, <4>2 DEF Feeds, Breaks, e
    <3> QED BY <3>2, <3>5, <3>6 DEF Feeds
  <2> QED BY <2>7, <2>8
<1> QED BY <1>1, <1>2

LEMMA SendOrBufferFeeds ==
  ASSUME NEW c \in App, NEW t, NEW chunk \in Chunk, NEW luck \in Lucks,
         NEW canStart \in BOOLEAN, c.input \in Inputs
  PROVE  LET e == SendOrBufferOggChunk(c, t, chunk, canStart, luck)
         IN  e \in App /\ Feeds(c, e)
<1> DEFINE e == SendOrBufferOggChunk(c, t, chunk, canStart, luck)
<1>1. CASE c.started
  BY <1>1, SendFeeds DEF SendOrBufferOggChunk
<1>2. CASE ~c.started
  <2> DEFINE more == Append(c.buffered, chunk)
  <2> DEFINE kept == [c EXCEPT !.buffered = more]
  <2>1. e = IF canStart THEN StartAsrAndFlush(kept, t, luck) ELSE kept
    BY <1>2 DEF SendOrBufferOggChunk, App
  <2>2. c.buffered \in Chunks
    BY DEF App
  <2>3. more \in Chunks /\ more # <<>>
    BY <2>2 DEF Chunks
  <2> HIDE DEF more, e
  <2>4. /\ kept \in App /\ Fills(c, kept) /\ kept.started = c.started
        /\ kept.input = c.input /\ kept.buffered = more
    BY <2>3, EmptiedFills
  <2> HIDE DEF kept
  <2>5. StartAsrAndFlush(kept, t, luck) \in App /\ Feeds(kept, StartAsrAndFlush(kept, t, luck))
    BY <1>2, <2>3, <2>4, FlushFeeds
  <2>6. Feeds(c, StartAsrAndFlush(kept, t, luck))
    BY <1>2, <2>4, <2>5, FillsTwice, FillsFails DEF Feeds, Breaks
  <2> QED BY <2>1, <2>4, <2>5, <2>6 DEF Feeds, e
<1> QED BY <1>1, <1>2 DEF App

\* Where the ASR client may still fail aloud, no result is on its way.
LEMMA BreaksAlone ==
  ASSUME NEW c, NEW w, Sound(c, w), Breaks(c)
  PROVE  NothingComes(c, w, c.dropped)
BY DEF Sound, ResultInv, Engaged, Breaks, NothingComes

LEMMA InSession ==
  ASSUME NEW c \in App, NEW w, NEW n, Sound(c, w), RecordingInv(c, n), c.session # NoSession
  PROVE  /\ Busy(c) /\ c.device # NoDevice /\ c.pending = Idle /\ c.pending.kind = "idle"
         /\ ~c.errorShown /\ ~c.sentFinal /\ c.input \in Inputs
         /\ c.heard => ~Closed(c, c.input)
BY DEF Sound, StateInv, RecordingInv, Idle

\* A frame of the recording in hand.
LEMMA FrameSound ==
  ASSUME NEW c \in App, NEW w, NEW n, Sound(c, w), RecordingInv(c, n), c.session # NoSession,
         NEW chunk \in Chunk, NEW canStart \in BOOLEAN, NEW luck \in Lucks, NEW e,
         e = SendOrBufferOggChunk([c EXCEPT !.heard = TRUE], "ui", chunk, canStart, luck),
         RecordingInv(e, n)
  PROVE  e.late = c.late /\ Sound(e, w)
<1> DEFINE b == [c EXCEPT !.heard = TRUE]
<1>1. /\ Busy(c) /\ c.device # NoDevice /\ c.pending = Idle /\ c.pending.kind = "idle"
      /\ ~c.errorShown /\ ~c.sentFinal /\ c.input \in Inputs
  BY InSession
<1>2. /\ b \in App /\ b.heard /\ b.started = c.started /\ b.session = c.session
      /\ b.input = c.input /\ b.translating = c.translating /\ b.last = c.last
      /\ b.dropped = c.dropped /\ b.late = c.late /\ b.connected = c.connected
      /\ b.sentFinal = c.sentFinal /\ b.state = c.state /\ b.device = c.device
      /\ b.pending = c.pending /\ b.errorShown = c.errorShown /\ b.fate = c.fate
      /\ b.ui = c.ui /\ b.overlay = c.overlay /\ b.posted = c.posted /\ b.fed = c.fed
  BY DEF App
<1>3. e \in App /\ Feeds(b, e)
  BY <1>1, <1>2, SendOrBufferFeeds
<1> HIDE DEF b
<1>4. \A i : Closed(b, i) = Closed(c, i)
  BY <1>2 DEF Closed
<1>5. CASE Fills(b, e)
  <2>1. StateInv(e) /\ Screens(e) /\ OverlayInv(e)
    <3>1. /\ e.session = c.session /\ e.state = c.state /\ e.device = c.device
          /\ e.pending = c.pending /\ ~e.errorShown
      BY <1>1, <1>2, <1>5 DEF Fills
    <3>2. StateInv(e)
      BY <3>1 DEF Sound, StateInv, Busy
    <3>3. e.connected = c.connected /\ e.ui = c.ui /\ e.overlay = c.overlay /\ e.posted = c.posted
      BY <1>2, <1>5 DEF Fills
    <3> QED BY <3>1, <3>2, <3>3, SameScreens DEF Sound, OverlayInv
  <2>2. Engaged(c) => Engaged(e)
    BY <1>2, <1>5 DEF Engaged, Busy, Fills
  <2>3. e.started => Engaged(e)
    BY <1>1, <1>2, <1>5 DEF Engaged, Busy, Fills
  <2>4. ResultInv(e, w)
    <3>1. ASSUME NEW i \in Inputs, e.fate[i] = "active"
          PROVE  i = e.input /\ Engaged(e)
      BY <1>2, <1>5, <2>2, <2>3, <3>1 DEF Sound, ResultInv, Fills
    <3>2. ASSUME NEW i \in Inputs \ e.dropped, Coming(e, w, i)
          PROVE  /\ i = e.input /\ Engaged(e) /\ e.fate[i] # "active"
                 /\ w.tells = "final" \/ i \in e.translating => Closed(e, i)
      <4>1. i \in Inputs \ c.dropped /\ Coming(c, w, i)
        BY <1>2, <1>5, <3>2 DEF Fills, Coming
      <4>2. /\ i = c.input /\ Engaged(c) /\ c.fate[i] # "active"
            /\ w.tells = "final" \/ i \in c.translating => Closed(c, i)
        BY <4>1 DEF Sound, ResultInv
      <4>3. i = e.input /\ e.translating = c.translating /\ c.started
        BY <1>2, <1>5, <4>2 DEF Fills, Engaged
      <4>4. e.fate[i] # "active"
        BY <1>2, <1>5, <4>2, <4>3 DEF Fills
      <4>5. Closed(c, i) => Closed(e, i)
        BY <1>4, <1>5 DEF Fills
      <4> QED BY <2>2, <4>2, <4>3, <4>4, <4>5
    <3>3. \A i \in Inputs \ e.dropped : i \in e.translating => ~Tells(w, i)
      BY <1>2, <1>5 DEF Sound, ResultInv, Fills
    <3>4. ~e.sentFinal
      BY <1>1, <1>2, <1>5 DEF Fills
    <3> QED BY <3>1, <3>2, <3>3, <3>4 DEF ResultInv
  <2>5. e.session # NoSession /\ e.heard
    BY <1>2, <1>5 DEF Fills
  <2>6. ~Closed(e, e.input)
    BY <2>5 DEF RecordingInv
  <2>7. LastInv(e, w)
    <3>1. ASSUME NEW i \in Inputs, e.last.of = i
          PROVE  ~Tells(w, i) /\ i \notin e.translating /\ e.fate[i] # "active" /\ Closed(e, i)
      <4>1. ~Tells(w, i) /\ i \notin c.translating /\ c.fate[i] # "active" /\ Closed(c, i)
        BY <1>2, <1>5, <3>1 DEF Sound, LastInv, Fills
      <4>2. Closed(e, i)
        BY <1>4, <1>5, <4>1 DEF Fills
      <4>3. i # e.input
        BY <2>6, <4>2
      <4> QED BY <1>2, <1>5, <4>1, <4>2, <4>3 DEF Fills
    <3> QED BY <3>1 DEF LastInv
  <2>8. e.late = c.late
    BY <1>2, <1>5 DEF Fills
  <2> QED BY <2>1, <2>4, <2>7, <2>8 DEF Sound
<1>6. CASE Breaks(b) /\ Fails(b, e)
  <2>1. Breaks(c)
    BY <1>2, <1>6 DEF Breaks
  <2>2. Screens(c) => Screens(b)
    BY <1>2, SameScreens
  <2>3. OverlayInv(c) => OverlayInv(b)
    BY <1>2 DEF OverlayInv
  <2>4. Over(c, e)
    BY <1>2, <1>4, <1>6 DEF Fails, Over
  <2>5. Fails(c, e)
    BY <1>2, <1>6, <2>2, <2>3, <2>4 DEF Fails
  <2> QED BY <1>1, <2>1, <2>5, BreaksAlone, FailSound DEF Fails
<1> QED BY <1>3, <1>5, <1>6 DEF Feeds

\* The end of the recording in hand: by its marker, the timeout, or the loss of
\* the link.
LEMMA SendFinalSound ==
  ASSUME NEW c \in App, NEW w, NEW n, Sound(c, w), RecordingInv(c, n), c.session # NoSession,
         NEW t, NEW luck \in Lucks
  PROVE  LET e == SendFinalOggChunkIfNeeded(c, t, luck)
         IN  e.late = c.late /\ Sound(e, w)
<1> DEFINE a == [c EXCEPT !.sentFinal = TRUE]
<1> DEFINE ending == CancelAudioEndTimeout(a)
<1> DEFINE final == [of |-> c.input, last |-> TRUE]
<1> DEFINE b == [ending EXCEPT !.session = NoSession]
<1> DEFINE f == SendOrBufferOggChunk(b, t, final, TRUE, luck)
<1> DEFINE e == SendFinalOggChunkIfNeeded(c, t, luck)
<1>1. /\ Busy(c) /\ c.device # NoDevice /\ c.pending = Idle /\ c.pending.kind = "idle"
      /\ ~c.errorShown /\ ~c.sentFinal /\ c.input \in Inputs
      /\ c.heard => ~Closed(c, c.input)
  BY InSession
<1>2. e = IF ~c.started /\ ~c.half THEN CancelShortRecording(ending, t)
          ELSE IF ~c.heard THEN FinishWithAsrError(ending, t)
          ELSE EnterFinalizing(f)
  BY <1>1 DEF SendFinalOggChunkIfNeeded, FinalUnsent
<1>3. ending = [c EXCEPT !.sentFinal = TRUE, !.waiting = FALSE, !.timeout = <<>>]
  BY DEF CancelAudioEndTimeout, App
<1>4. final \in Chunk
  BY DEF Chunk, App
<1> HIDE DEF e, f, final, ending
<1>5. /\ ending \in App /\ ending.heard = c.heard /\ ending.started = c.started
      /\ ending.input = c.input /\ ending.translating = c.translating /\ ending.last = c.last
      /\ ending.dropped = c.dropped /\ ending.late = c.late /\ ending.connected = c.connected
      /\ ending.state = c.state /\ ending.device = c.device
      /\ ending.pending = c.pending /\ ending.errorShown = c.errorShown /\ ending.fate = c.fate
      /\ ending.ui = c.ui /\ ending.overlay = c.overlay /\ ending.posted = c.posted
      /\ ending.fed = c.fed
  BY <1>3, Empties DEF App
<1>6. \A i : Closed(ending, i) = Closed(c, i)
  BY <1>5 DEF Closed
<1>7. Screens(ending) /\ OverlayInv(ending) /\ InHand(ending) = InHand(c)
  BY <1>5, SameScreens DEF OverlayInv, Sound, InHand, Recorded, Offered
<1>8. CASE ~c.started /\ ~c.half
  <2>1. e = CancelCycle(ending, t)
    BY <1>1, <1>2, <1>5, <1>8, ShortIsCancel
  <2>2. Rests(ending, e) /\ OverlayInv(e)
    BY <1>1, <1>5, <1>7, <2>1, CancelUi
  <2>3. Over(c, e)
    BY <1>5, <1>6, <2>2 DEF Rests, Over
  <2>4. Rests(c, e)
    BY <1>5, <1>7, <2>2, <2>3 DEF Rests
  <2> QED BY <2>2, <2>4, RestsSound DEF Rests, e
<1>9. CASE ~(~c.started /\ ~c.half) /\ ~c.heard
  <2>1. e = FinishWithAsrError(ending, t)
    BY <1>2, <1>9
  <2>2. Fails(ending, e)
    BY <1>5, <2>1, FailUi
  <2>3. Over(c, e)
    BY <1>5, <1>6, <2>2 DEF Fails, Over
  <2>4. Fails(c, e)
    BY <1>5, <1>7, <2>2, <2>3 DEF Fails
  <2>5. NothingComes(c, w, c.dropped)
    BY <1>9 DEF Sound, ResultInv, Engaged, NothingComes
  <2> QED BY <1>1, <2>4, <2>5, FailSound DEF Fails, e
<1>10. CASE ~(~c.started /\ ~c.half) /\ c.heard
  <2>1. e = EnterFinalizing(f)
    BY <1>2, <1>10
  <2>2. /\ b \in App /\ b.session = NoSession /\ b.heard = c.heard /\ b.started = c.started
        /\ b.input = c.input /\ b.translating = c.translating /\ b.last = c.last
        /\ b.dropped = c.dropped /\ b.late = c.late /\ b.connected = c.connected
        /\ b.state = c.state /\ b.device = c.device
        /\ b.pending = c.pending /\ b.errorShown = c.errorShown /\ b.fate = c.fate
        /\ b.ui = c.ui /\ b.overlay = c.overlay /\ b.posted = c.posted /\ b.fed = c.fed
    <3>1. NoSession \in Nat
      BY DEF NoSession
    <3> QED BY <1>5, <3>1 DEF App
  <2> HIDE DEF b
  <2>3. \A i : Closed(b, i) = Closed(c, i)
    BY <2>2 DEF Closed
  <2>4. f \in App /\ Feeds(b, f)
    BY <1>1, <1>4, <2>2, SendOrBufferFeeds DEF f
  <2>5. e \in App /\ Finalizes(f, e)
    BY <2>1, <2>4, FinalizeUi
  <2>6. \A i : Closed(e, i) = Closed(f, i)
    BY <2>5 DEF Finalizes, Held, Closed
  <2>7. Screens(b) /\ OverlayInv(b)
    BY <2>2, SameScreens DEF OverlayInv, Sound
  <2>8. CASE Fills(b, f)
    <3>1. Screens(f) /\ OverlayInv(f)
      BY <2>7, <2>8 DEF Fills, Screens, Agrees, Target, Asking, OverlayInv
    <3>2. Screens(e) /\ OverlayInv(e)
      BY <2>5, <3>1 DEF Finalizes, OverlayInv
    <3>3. /\ e.session = NoSession /\ e.device = c.device /\ e.state = "finalizing"
          /\ e.pending = Idle /\ ~e.errorShown /\ e.heard /\ e.input = c.input
          /\ e.translating = c.translating /\ e.last = c.last /\ e.dropped = c.dropped
          /\ e.late = c.late /\ (c.started => e.started)
      BY <1>1, <1>10, <2>2, <2>5, <2>8 DEF Fills, Finalizes, Held
    <3>4. StateInv(e)
      BY <1>1, <3>3 DEF StateInv, Busy, Idle
    <3>5. e.started => Engaged(e)
      BY <1>1, <3>3 DEF Engaged, Busy
    <3>6. \A i \in Inputs : e.fate[i] = "active" =>
            c.fate[i] = "active" \/ (i = c.input /\ ~c.started /\ e.started)
      BY <2>2, <2>5, <2>8 DEF Fills, Finalizes, Held
    <3>7. \A i \in Inputs : Closed(c, i) => Closed(e, i)
      BY <2>3, <2>6, <2>8 DEF Fills
    <3>8. ResultInv(e, w)
      <4>1. ASSUME NEW i \in Inputs, e.fate[i] = "active"
            PROVE  i = e.input /\ Engaged(e)
        BY <3>3, <3>5, <3>6, <4>1 DEF Sound, ResultInv, Engaged
      <4>2. ASSUME NEW i \in Inputs \ e.dropped, Coming(e, w, i)
            PROVE  /\ i = e.input /\ Engaged(e) /\ e.fate[i] # "active"
                   /\ w.tells = "final" \/ i \in e.translating => Closed(e, i)
        <5>1. i \in Inputs \ c.dropped /\ Coming(c, w, i)
          BY <3>3, <4>2 DEF Coming
        <5>2. /\ i = c.input /\ Engaged(c) /\ c.fate[i] # "active"
              /\ w.tells = "final" \/ i \in c.translating => Closed(c, i)
          BY <5>1 DEF Sound, ResultInv
        <5> QED BY <3>3, <3>5, <3>6, <3>7, <5>1, <5>2 DEF Engaged
      <4>3. \A i \in Inputs \ e.dropped : i \in e.translating => ~Tells(w, i)
        BY <3>3 DEF Sound, ResultInv
      <4> QED BY <3>3, <4>1, <4>2, <4>3 DEF ResultInv
    <3>9. LastInv(e, w)
      BY <1>1, <1>10, <3>3, <3>6, <3>7 DEF Sound, LastInv
    <3> QED BY <3>2, <3>3, <3>4, <3>8, <3>9 DEF Sound, e
  <2>9. CASE Breaks(b) /\ Fails(b, f)
    <3>1. Breaks(c)
      BY <2>2, <2>9 DEF Breaks
    <3>2. NothingComes(c, w, c.dropped)
      BY <3>1, BreaksAlone
    <3>3. Screens(e)
      BY <2>5, <2>7, <2>9 DEF Fails, Finalizes
    <3>4. OverlayInv(e)
      <4>1. OverlayInv(f)
        BY <1>1, <2>2, <2>7, <2>9 DEF Fails
      <4> QED BY <2>5, <4>1 DEF Finalizes, OverlayInv
    <3>5. /\ e.session = NoSession /\ e.device = c.device /\ e.state = "finalizing"
          /\ e.pending = Idle /\ ~e.sentFinal /\ e.dropped = c.dropped /\ e.late = c.late
      BY <2>2, <2>5, <2>9 DEF Fails, Over, Finalizes, Held
    <3>6. StateInv(e)
      BY <1>1, <3>5 DEF StateInv, Busy, Idle
    <3>7. Over(c, e)
      BY <2>2, <2>3, <2>5, <2>6, <2>9, <3>5 DEF Fails, Over, Finalizes, Held
    <3> QED BY <3>2, <3>3, <3>4, <3>5, <3>6, <3>7, OverSound DEF e
  <2> QED BY <2>4, <2>8, <2>9 DEF Feeds
<1> QED BY <1>8, <1>9, <1>10 DEF e

-----------------------------------------------------------------------------
\* The results.

Silence(v) == v.tells \notin {"partial", "final", "error"}

\* The worker has reported.
LEMMA SilenceSound ==
  ASSUME NEW c, NEW w, NEW v, Sound(c, w), Silence(v)
  PROVE  Sound(c, v)
<1>1. \A i : ~Tells(v, i) /\ ~Ends(v, i)
  BY DEF Silence, Tells, Ends
<1>2. ResultInv(c, v)
  BY <1>1 DEF Sound, ResultInv, Coming
<1>3. LastInv(c, v)
  BY <1>1 DEF Sound, LastInv
<1> QED BY <1>2, <1>3 DEF Sound

\* A callback that is not late is about the recording in hand.
LEMMA NotLate ==
  ASSUME NEW c \in App, NEW i, ~Late(c, i).late
  PROVE  Late(c, i) = c /\ ~c.late /\ i \notin c.dropped /\ i = c.input /\ ~c.errorShown
<1> DEFINE late == c.late \/ i \in c.dropped \/ i # c.input \/ c.errorShown
<1>1. Late(c, i) = [c EXCEPT !.late = late]
  BY DEF Late, App
<1>2. Late(c, i).late = late
  BY <1>1 DEF App
<1>3. ~late
  BY <1>2
<1>4. ~c.late /\ i \notin c.dropped /\ i = c.input /\ ~c.errorShown
  BY <1>3
<1>5. late = c.late
  <2>1. c.late = FALSE /\ late = FALSE
    BY <1>3, <1>4 DEF App
  <2> QED BY <2>1
<1> HIDE DEF late
<1>6. [c EXCEPT !.late = late] = c
  BY <1>5 DEF App
<1> QED BY <1>1, <1>4, <1>6

LEMMA ResultFacts ==
  ASSUME NEW c \in App, NEW w, NEW v, NEW n, Sound(c, w), RecordingInv(c, n),
         NEW i \in Inputs \ c.dropped, Ends(w, i), Silence(v)
  PROVE  /\ i = c.input /\ Engaged(c) /\ c.device # NoDevice /\ ~c.errorShown
         /\ c.pending = Idle /\ c.pending.kind = "idle"
         /\ \A j \in Inputs : c.fate[j] # "active"
         /\ NothingComes(c, v, c.dropped) /\ i \notin c.translating
         /\ Sound(c, v) /\ c.last.of # i
         /\ w.tells = "final" => Closed(c, i) /\ c.session = NoSession
<1>1. /\ i = c.input /\ Engaged(c) /\ c.fate[i] # "active"
      /\ w.tells = "final" => Closed(c, i)
  BY DEF Sound, ResultInv, Coming
<1>2. c.pending = Idle /\ c.pending.kind = "idle" /\ c.device # NoDevice /\ ~c.errorShown
  BY <1>1 DEF Engaged, Sound, StateInv, Idle
<1>3. \A j \in Inputs : c.fate[j] # "active"
  BY <1>1 DEF Sound, ResultInv
<1>4. Tells(w, i)
  BY DEF Ends, Tells
<1>5. i \notin c.translating /\ c.last.of # i
  BY <1>4 DEF Sound, ResultInv, LastInv
<1>6. \A j : ~Ends(v, j)
  BY DEF Silence, Ends
<1>7. NothingComes(c, v, c.dropped)
  BY <1>1, <1>5, <1>6 DEF Sound, ResultInv, NothingComes, Coming
<1>8. w.tells = "final" => c.session = NoSession
  BY <1>1 DEF Engaged, RecordingInv
<1> QED BY <1>1, <1>2, <1>3, <1>5, <1>7, <1>8, SilenceSound

LEMMA FinalTextSound ==
  ASSUME NEW c \in App, NEW w, NEW v, NEW n, Sound(c, w), RecordingInv(c, n),
         NEW i \in Inputs \ c.dropped, w.tells = "final", w.of = i, Silence(v),
         NEW text \in Texts \cup {Empty}
  PROVE  LET e == FinishWithFinalText(c, "worker", text, i)
         IN  e.late = c.late /\ Sound(e, v)
<1> DEFINE p == [c EXCEPT !.pastedFinal = TRUE]
<1> DEFINE e == FinishWithFinalText(c, "worker", text, i)
<1>1. /\ i = c.input /\ Engaged(c) /\ c.device # NoDevice /\ ~c.errorShown
      /\ c.pending = Idle /\ c.pending.kind = "idle"
      /\ \A j \in Inputs : c.fate[j] # "active"
      /\ NothingComes(c, v, c.dropped) /\ i \notin c.translating
      /\ Sound(c, v) /\ c.last.of # i
      /\ Closed(c, i) /\ c.session = NoSession
  BY ResultFacts DEF Ends
<1>2. p \in App /\ Stays(c, p) /\ p.ui = c.ui /\ p.overlay = c.overlay /\ p.posted = c.posted
  BY DEF App, Stays, Held
<1>3. Screens(p) /\ OverlayInv(p)
  BY <1>1, <1>2, SameScreens DEF Sound, OverlayInv, Stays, Held
<1>4. Sound(p, v)
  BY <1>1, <1>2, <1>3, StaysSound
<1>5. /\ p.input = c.input /\ p.session = c.session /\ p.fate = c.fate /\ p.fed = c.fed
      /\ p.translating = c.translating /\ p.dropped = c.dropped /\ p.late = c.late
      /\ p.last = c.last /\ p.errorShown = c.errorShown /\ p.device = c.device
      /\ p.connected = c.connected /\ p.started = c.started /\ p.heard = c.heard
      /\ p.state = c.state /\ p.pending = c.pending /\ p.sentFinal = c.sentFinal
  BY <1>2 DEF Stays, Held
<1>6. \A j : Closed(p, j) = Closed(c, j)
  BY <1>5 DEF Closed
<1>7. CASE c.pastedFinal
  <2>1. e = c
    BY <1>7 DEF FinishWithFinalText
  <2> QED BY <1>1, <2>1
<1>8. CASE ~c.pastedFinal /\ text = Empty
  <2> DEFINE a == [p EXCEPT !.pending = Idle, !.state = "ready"]
  <2> DEFINE f == FinishRecognitionCycle(a)
  <2> DEFINE h == Display(f, "worker", Hide(NoCallback))
  <2>1. e = EnterReadyKeepingOverlay(h)
    BY <1>8 DEF FinishWithFinalText
  <2> HIDE DEF p
  <2>2. /\ a \in App /\ Held(p, a) /\ a.overlay = p.overlay /\ a.posted = p.posted
        /\ a.pending = Idle /\ a.device = p.device /\ a.ui = p.ui /\ a.state = "ready"
    BY <1>2, Empties DEF App, States, Held
  <2> HIDE DEF a
  <2>3. /\ f \in App /\ Held(a, f) /\ f.overlay = a.overlay /\ f.posted = a.posted
        /\ ~f.sentFinal /\ f.state = a.state /\ f.device = a.device /\ f.pending = a.pending
        /\ f.ui = a.ui
    BY <2>2, FinishUi, FinishFacts
  <2> HIDE DEF f
  <2>4. h \in App /\ Stays(f, h) /\ h.ui = f.ui /\ (OverlayInv(f) => OverlayInv(h))
    BY <2>3, DisplayUi, HideCalls, CommitFacts
  <2> HIDE DEF h
  <2>5. /\ Held(h, e) /\ e.overlay = h.overlay /\ e.posted = h.posted
        /\ e.state = "ready" /\ e.device = NoDevice /\ e.pending = h.pending
        /\ e.sentFinal = h.sentFinal
    BY <2>1, <2>4, KeepingUi
  <2>6. e.ui = SendUiState(h, Expected("ready")).ui
    <3>1. Expected("ready") = "ready"
      BY DEF Expected
    <3>2. SendUiState(h, "ready") \in App
      BY <2>4, SendFacts DEF Tellable
    <3> QED BY <2>1, <3>1, <3>2 DEF EnterReadyKeepingOverlay, App
  <2> HIDE DEF e
  <2>7. Held(p, e)
    BY <2>2, <2>3, <2>4, <2>5, HeldTwice DEF Stays
  <2>8. Screens(e)
    <3>1. h.device = p.device /\ h.connected = p.connected /\ h.ui = p.ui /\ e.connected = p.connected
      BY <2>2, <2>3, <2>4, <2>7 DEF Stays, Held
    <3> QED BY <1>2, <1>3, <2>4, <2>5, <2>6, <3>1, EnterScreens DEF States
  <2>9. OverlayInv(e)
    <3>1. OverlayInv(f)
      BY <1>1, <1>3, <1>5, <2>2, <2>3 DEF OverlayInv
    <3> QED BY <2>4, <2>5, <3>1 DEF OverlayInv
  <2>10. ~e.sentFinal
    BY <2>3, <2>4, <2>5 DEF Stays
  <2>11. Over(c, e)
    BY <1>1, <1>5, <1>6, <2>7, <2>10 DEF Over, Held, Closed
  <2>12. StateInv(e)
    BY <2>5, <2>10, <2>11 DEF StateInv, Busy, Over
  <2>13. e.dropped = c.dropped /\ e.late = c.late
    BY <1>5, <2>7 DEF Held
  <2> QED BY <1>1, <2>8, <2>9, <2>11, <2>12, <2>13, OverSound DEF e
<1>9. CASE ~c.pastedFinal /\ text # Empty /\ c.device \in Translating
  <2>1. e = [p EXCEPT !.translating = @ \cup {i}]
    BY <1>9 DEF FinishWithFinalText
  <2> HIDE DEF p, e
  <2>2. /\ e.translating = c.translating \cup {i}
        /\ e.input = c.input /\ e.session = c.session /\ e.fate = c.fate /\ e.fed = c.fed
        /\ e.dropped = c.dropped /\ e.late = c.late
        /\ e.last = c.last /\ e.errorShown = c.errorShown /\ e.device = c.device
        /\ e.connected = c.connected /\ e.started = c.started /\ e.heard = c.heard
        /\ e.state = c.state /\ e.pending = c.pending /\ e.sentFinal = c.sentFinal
        /\ e.ui = c.ui /\ e.overlay = c.overlay /\ e.posted = c.posted
    BY <1>2, <1>5, <2>1 DEF App
  <2>3. \A j : Closed(e, j) = Closed(c, j)
    BY <2>2 DEF Closed
  <2>4. Screens(e) /\ OverlayInv(e) /\ StateInv(e)
    BY <1>1, <2>2, SameScreens DEF Sound, OverlayInv, StateInv, Busy
  <2>5. Engaged(e)
    BY <1>1, <2>2 DEF Engaged, Busy
  <2>6. \A j : ~Ends(v, j) /\ ~Tells(v, j)
    BY DEF Silence, Ends, Tells
  <2>7. ResultInv(e, v)
    BY <1>1, <2>2, <2>3, <2>5, <2>6 DEF ResultInv, Coming, NothingComes
  <2>8. LastInv(e, v)
    BY <1>1, <2>2, <2>3, <2>6 DEF Sound, LastInv
  <2> QED BY <2>2, <2>4, <2>7, <2>8 DEF Sound, e
<1>10. CASE ~c.pastedFinal /\ text # Empty /\ c.device \notin Translating
  <2>1. e = EnterPendingConfirmation(Remember(p, text, i), "worker", text, i)
    BY <1>10 DEF FinishWithFinalText
  <2> HIDE DEF p, e
  <2>2. Confirms(p, e, i)
    BY <1>2, <2>1, ConfirmUi
  <2>3. NothingComes(p, v, p.dropped)
    BY <1>1, <1>5 DEF NothingComes, Coming
  <2>4. ~Tells(v, i)
    BY DEF Silence, Tells
  <2>5. Sound(e, v)
    BY <1>1, <1>4, <1>5, <1>6, <2>2, <2>3, <2>4, ConfirmSound
  <2> QED BY <1>5, <2>2, <2>5 DEF Confirms, e
<1> QED BY <1>7, <1>8, <1>9, <1>10 DEF App

\* The translation of recording i has come, or failed.
LEMMA AwayFacts ==
  ASSUME NEW c \in App, NEW w, NEW n, Sound(c, w), RecordingInv(c, n),
         NEW i \in Inputs, i \in c.translating, i \notin c.dropped
  PROVE  LET a == [c EXCEPT !.translating = @ \ {i}]
         IN  /\ a \in App /\ Sound(a, w) /\ a.late = c.late
             /\ i = a.input /\ ~a.errorShown /\ a.session = NoSession /\ Closed(a, i)
             /\ a.device # NoDevice /\ a.pending.kind = "idle"
             /\ \A j \in Inputs : a.fate[j] # "active"
             /\ NothingComes(a, w, a.dropped) /\ i \notin a.translating /\ ~Tells(w, i)
<1> DEFINE a == [c EXCEPT !.translating = @ \ {i}]
<1>1. a \in App /\ a.translating = c.translating \ {i}
  BY DEF App
<1>2. /\ a.input = c.input /\ a.session = c.session /\ a.fate = c.fate /\ a.fed = c.fed
      /\ a.dropped = c.dropped /\ a.late = c.late
      /\ a.last = c.last /\ a.errorShown = c.errorShown /\ a.device = c.device
      /\ a.connected = c.connected /\ a.started = c.started /\ a.heard = c.heard
      /\ a.state = c.state /\ a.pending = c.pending /\ a.sentFinal = c.sentFinal
      /\ a.ui = c.ui /\ a.overlay = c.overlay /\ a.posted = c.posted
  BY DEF App
<1> HIDE DEF a
<1>3. /\ i = c.input /\ Engaged(c) /\ c.fate[i] # "active" /\ Closed(c, i) /\ ~Tells(w, i)
  BY DEF Sound, ResultInv, Coming
<1>4. \A j \in Inputs : c.fate[j] # "active"
  BY <1>3 DEF Sound, ResultInv
<1>5. c.session = NoSession
  BY <1>3 DEF Engaged, RecordingInv
<1>6. c.device # NoDevice /\ ~c.errorShown /\ c.pending = Idle
  BY <1>3 DEF Engaged, Sound, StateInv
<1>7. NothingComes(a, w, a.dropped)
  <2>1. ASSUME NEW j \in Inputs \ a.dropped, Coming(a, w, j) PROVE FALSE
    <3>1. Coming(c, w, j) /\ j \in Inputs \ c.dropped
      BY <1>1, <1>2, <2>1 DEF Coming
    <3>2. j = i
      BY <1>3, <3>1 DEF Sound, ResultInv
    <3>3. Ends(w, i)
      BY <1>1, <2>1, <3>2 DEF Coming
    <3> QED BY <1>3, <3>3 DEF Ends, Tells
  <2> QED BY <2>1 DEF NothingComes
<1>8. \A j : Closed(a, j) = Closed(c, j)
  BY <1>2 DEF Closed
<1>9. Screens(a) /\ OverlayInv(a) /\ StateInv(a)
  BY <1>2, SameScreens DEF Sound, OverlayInv, StateInv, Busy
<1>10. ResultInv(a, w)
  BY <1>1, <1>2, <1>4, <1>7 DEF Sound, ResultInv, NothingComes
<1>11. LastInv(a, w)
  BY <1>1, <1>2, <1>8 DEF Sound, LastInv
<1> QED BY <1>1, <1>2, <1>3, <1>4, <1>5, <1>6, <1>7, <1>8, <1>9, <1>10, <1>11 DEF Sound, a, Idle

-----------------------------------------------------------------------------
\* The buttons.

LEMMA RepeatSound ==
  ASSUME NEW c \in App, NEW w, NEW d \in Devices, NEW state \in Tellable, Sound(c, w),
         state = Target(c, d)
  PROVE  LET e == SendUiStateTo(c, state, {d})
         IN  e.late = c.late /\ Sound(e, w)
<1> DEFINE e == SendUiStateTo(c, state, {d})
<1>1. Screens(e)
  BY RepeatScreens DEF Sound
<1>2. Stays(c, e) /\ e.overlay = c.overlay /\ e.posted = c.posted
  BY SendUi DEF Stays
<1> HIDE DEF e
<1>3. OverlayInv(e)
  BY <1>2 DEF Sound, OverlayInv, Stays
<1> QED BY <1>1, <1>2, <1>3, StaysSound DEF Stays, Held, e

LEMMA RefreshSound ==
  ASSUME NEW c \in App, NEW w, NEW d \in Devices, Sound(c, w), c.device # NoDevice
  PROVE  LET e == RefreshDeviceUiState(c, d)
         IN  e.late = c.late /\ Sound(e, w)
<1> DEFINE own == CASE c.state = "recording"  -> "recording"
                    [] c.state = "finalizing" -> "thinking"
                    [] c.state \in {"pending", "paused"} -> "pending"
                    [] c.state \in {"error", "ready"} -> c.state
<1> DEFINE told == IF c.device = d THEN own ELSE "ready"
<1>1. own = Expected(c.state) /\ own \in Tellable
  BY DEF App, States, Expected, Tellable
<1>2. told = Target(c, d) /\ told \in Tellable
  BY <1>1 DEF Target, Tellable
<1>3. RefreshDeviceUiState(c, d) = SendUiStateTo(c, told, {d})
  BY DEF RefreshDeviceUiState
<1> HIDE DEF own, told
<1> QED BY <1>2, <1>3, RepeatSound

LEMMA FrontSound ==
  ASSUME NEW c \in App, NEW w, NEW n, NEW d, Sound(c, w), RecordingInv(c, n),
         c.pending.kind # "idle"
  PROVE  LET e == HandleFrontButtonDuringPendingPaste(c, d)
         IN  e.late = c.late /\ Sound(e, w)
<1> DEFINE e == HandleFrontButtonDuringPendingPaste(c, d)
<1> DEFINE call == Hide(Commit(c.pending.text))
<1>1. call \in Call
  BY HideCalls DEF App, Confirmation
<1> HIDE DEF call
<1>2. e \in {c, EnterPausedConfirmation(c, "ui"), Displayed(c, call)}
  BY DEF HandleFrontButtonDuringPendingPaste, call
<1>3. Displayed(c, call).late = c.late /\ Sound(Displayed(c, call), w)
  BY <1>1, DisplayedSound DEF RecordingInv
<1>4. EnterPausedConfirmation(c, "ui").late = c.late /\ Sound(EnterPausedConfirmation(c, "ui"), w)
  BY PausedSound
<1> QED BY <1>2, <1>3, <1>4

LEMMA BeginSound ==
  ASSUME NEW c \in App, NEW w, NEW d \in Devices, NEW session \in Nat, NEW i \in Times,
         Sound(c, w), session # NoSession, c.state = "ready", c.device = NoDevice,
         c.pending.kind = "idle"
  PROVE  LET e == BeginRecording(c, d, session, i)
         IN  e.late = c.late /\ Sound(e, w)
<1> DEFINE b == [c EXCEPT !.session = session, !.device = d, !.half = FALSE, !.heard = FALSE,
              !.buffered = <<>>, !.started = FALSE, !.sentFinal = FALSE,
              !.pastedFinal = FALSE, !.pending = Idle, !.errorShown = FALSE,
              !.state = "recording", !.input = i]
<1> DEFINE f == Displayed(b, Listening)
<1> DEFINE ds == IF f.device = NoDevice THEN Devices ELSE {f.device}
<1> DEFINE e == SendUiState(f, "recording")
<1>1. b \in App
  BY BeginType
<1>2. /\ b.session = session /\ b.device = d /\ b.input = i
      /\ b.sentFinal = FALSE /\ b.errorShown = FALSE /\ b.pending = Idle /\ b.state = "recording"
      /\ b.fate = c.fate /\ b.fed = c.fed /\ b.translating = c.translating
      /\ b.last = c.last /\ b.dropped = c.dropped /\ b.late = c.late
      /\ b.connected = c.connected /\ b.ui = c.ui
      /\ b.overlay = c.overlay /\ b.posted = c.posted
  BY DEF App
<1>3. BeginRecording(c, d, session, i) = e
  BY DEF BeginRecording
<1> HIDE DEF b
<1>4. f = Display(b, "ui", Listening)
  BY DEF Display
<1>5. f \in App /\ Stays(b, f) /\ f.ui = b.ui /\ (OverlayInv(b) => OverlayInv(f))
  BY <1>1, <1>4, DisplayUi, HideCalls, CommitFacts
<1> HIDE DEF f
<1>6. "recording" \in Tellable /\ "recording" \in States /\ Expected("recording") = "recording"
  BY DEF Tellable, States, Expected
<1>7. e = SendUiStateTo(f, "recording", ds) /\ e.ui = SendUiState(f, Expected("recording")).ui
  BY <1>6 DEF SendUiState
<1> HIDE DEF e, ds
<1>8. /\ Held(f, e) /\ e.overlay = f.overlay /\ e.posted = f.posted
      /\ e.sentFinal = f.sentFinal /\ e.state = f.state /\ e.device = f.device
      /\ e.pending = f.pending /\ e.errorShown = f.errorShown
  BY <1>5, <1>6, <1>7, SendUi
<1>9. Held(b, e)
  BY <1>5, <1>8, HeldTwice DEF Stays
<1>10. /\ e.session = session /\ e.device = d /\ e.input = i /\ ~e.sentFinal /\ ~e.errorShown
       /\ e.pending = Idle /\ e.state = "recording" /\ e.fate = c.fate /\ e.fed = c.fed
       /\ e.translating = c.translating /\ e.last = c.last /\ e.dropped = c.dropped
       /\ e.late = c.late /\ e.connected = c.connected
  BY <1>2, <1>5, <1>8, <1>9 DEF Stays, Held
<1>11. Screens(e)
  <2>1. f.device = d /\ f.connected = c.connected /\ f.ui = c.ui
    BY <1>2, <1>5 DEF Stays, Held
  <2> DEFINE g == [c EXCEPT !.device = d]
  <2>2. g \in App /\ g.device = d /\ g.connected = c.connected /\ g.ui = c.ui /\ g.state = c.state
    BY DEF App
  <2> HIDE DEF g
  <2>3. Screens(g)
    BY <2>2, ReadyScreens DEF Sound
  <2> QED BY <1>5, <1>6, <1>7, <1>10, <2>1, <2>2, <2>3, EnterScreens
<1>12. OverlayInv(e)
  <2>1. OverlayInv(b)
    BY <1>2 DEF Sound, OverlayInv
  <2> QED BY <1>5, <1>8, <2>1 DEF OverlayInv
<1>13. NoDevice \notin Devices
  BY BoundsAssumption
<1>14. StateInv(e)
  BY <1>10, <1>13 DEF StateInv, Busy, Idle
<1>15. (\A j \in Inputs : c.fate[j] # "active") /\ NothingComes(c, w, c.dropped)
  BY NotBusy DEF Busy
<1>16. ResultInv(e, w)
  BY <1>10, <1>15 DEF ResultInv, NothingComes, Coming
<1>17. LastInv(e, w)
  BY <1>10 DEF Sound, LastInv, Closed
<1> QED BY <1>3, <1>10, <1>11, <1>12, <1>14, <1>16, <1>17 DEF Sound

LEMMA ButtonDownSound ==
  ASSUME NEW c \in App, NEW w, NEW n, NEW d \in Devices, NEW session \in Nat, NEW i \in Times,
         Sound(c, w), RecordingInv(c, n)
  PROVE  LET e == HandlePrimaryButtonDown(c, d, session, i)
         IN  e.late = c.late /\ Sound(e, w)
<1> DEFINE e == HandlePrimaryButtonDown(c, d, session, i)
<1>1. CASE c.pending.kind # "idle"
  <2>1. e = HandleFrontButtonDuringPendingPaste(c, d)
    BY <1>1 DEF HandlePrimaryButtonDown
  <2> QED BY <1>1, <2>1, FrontSound
<1>2. CASE c.pending.kind = "idle" /\ (c.state # "ready" \/ c.device # NoDevice)
  <2>1. e = RefreshDeviceUiState(c, d)
    BY <1>2 DEF HandlePrimaryButtonDown
  <2>2. c.device # NoDevice
    BY <1>2 DEF Sound, StateInv
  <2> QED BY <2>1, <2>2, RefreshSound
<1>3. CASE c.pending.kind = "idle" /\ c.state = "ready" /\ c.device = NoDevice
  <2>1. e = IF session = NoSession THEN SendUiStateTo(c, "ready", {d})
            ELSE BeginRecording(c, d, session, i)
    BY <1>3 DEF HandlePrimaryButtonDown
  <2>2. Target(c, d) = "ready" /\ "ready" \in Tellable
    BY <1>3 DEF Target, Expected, Tellable
  <2>3. CASE session = NoSession
    BY <2>1, <2>2, <2>3, RepeatSound
  <2>4. CASE session # NoSession
    BY <1>3, <2>1, <2>4, BeginSound
  <2> QED BY <2>3, <2>4
<1> QED BY <1>1, <1>2, <1>3

LEMMA ButtonUpSound ==
  ASSUME NEW c \in App, NEW w, NEW n, NEW d, Sound(c, w), RecordingInv(c, n)
  PROVE  LET e == HandlePrimaryButtonUp(c, d)
         IN  e.late = c.late /\ Sound(e, w)
<1> DEFINE e == HandlePrimaryButtonUp(c, d)
<1>1. CASE ~Owns(c, d) \/ (c.half /\ c.waiting)
  <2>1. e = c
    BY <1>1 DEF HandlePrimaryButtonUp
  <2> QED BY <2>1
<1>2. CASE Owns(c, d) /\ ~c.half
  <2>1. e = CancelShortRecording(c, "ui")
    BY <1>2 DEF HandlePrimaryButtonUp
  <2>2. c.pending = Idle
    BY <1>2, InSession DEF Owns
  <2> QED BY <2>1, <2>2, ShortIsCancel, CancelSound
<1>3. CASE Owns(c, d) /\ c.half /\ ~c.waiting
  <2> DEFINE b == EnterFinalizing(c)
  <2>1. e = [b EXCEPT !.waiting = TRUE, !.timeout = <<c.session, c.device>>]
    BY <1>3 DEF HandlePrimaryButtonUp
  <2>2. b \in App /\ Finalizes(c, b)
    BY FinalizeUi
  <2> HIDE DEF b, e
  <2>3. Stays(b, e) /\ e.ui = b.ui /\ e.overlay = b.overlay /\ e.posted = b.posted
    BY <2>1, <2>2 DEF App, Stays, Held
  <2>4. Busy(c)
    BY <1>3, InSession DEF Owns
  <2>5. Sound(b, w)
    BY <2>2, <2>4, FinalizeSound
  <2>6. Screens(e) /\ OverlayInv(e)
    BY <2>3, <2>5, SameScreens DEF Sound, OverlayInv, Stays, Held
  <2> QED BY <2>2, <2>3, <2>5, <2>6, StaysSound DEF Stays, Held, Finalizes, e
<1> QED BY <1>1, <1>2, <1>3 DEF App

LEMMA ClickSound ==
  ASSUME NEW c \in App, NEW w, NEW n, NEW d \in Devices, NEW session \in Nat, NEW i \in Times,
         Sound(c, w), RecordingInv(c, n),
         c.mode # "click" => c.pending.kind # "idle" \/ Target(c, d) = "ready"
  PROVE  LET e == HandlePrimaryClick(c, d, session, i)
         IN  e.late = c.late /\ Sound(e, w)
<1> DEFINE e == HandlePrimaryClick(c, d, session, i)
<1>1. CASE c.pending.kind # "idle"
  <2>1. e = HandleFrontButtonDuringPendingPaste(c, d)
    BY <1>1 DEF HandlePrimaryClick
  <2> QED BY <1>1, <2>1, FrontSound
<1>2. CASE c.pending.kind = "idle" /\ c.mode # "click"
  <2>1. e = SendUiStateTo(c, "ready", {d})
    BY <1>2 DEF HandlePrimaryClick
  <2>2. Target(c, d) = "ready" /\ "ready" \in Tellable
    BY <1>2 DEF Tellable
  <2> QED BY <2>1, <2>2, RepeatSound
<1>3. CASE c.pending.kind = "idle" /\ c.mode = "click"
  <2> DEFINE told == SendUiStateTo(c, "thinking", {d})
  <2> DEFINE up == HandlePrimaryButtonUp(c, d)
  <2> DEFINE down == HandlePrimaryButtonDown(c, d, session, i)
  <2>1. e = CASE c.state = "recording" /\ c.device = d  -> up
              [] c.state = "finalizing" /\ c.device = d -> told
              [] OTHER -> down
    BY <1>3 DEF HandlePrimaryClick
  <2>2. \/ e \in {up, down}
        \/ c.state = "finalizing" /\ c.device = d /\ e = told
    <3> HIDE DEF told, up, down, e
    <3> QED BY <2>1
  <2>3. CASE c.state = "finalizing" /\ c.device = d /\ e = told
    <3>1. Target(c, d) = "thinking" /\ "thinking" \in Tellable
      BY <2>3 DEF Target, Expected, Tellable
    <3> QED BY <2>3, <3>1, RepeatSound
  <2>4. (up.late = c.late /\ Sound(up, w)) /\ (down.late = c.late /\ Sound(down, w))
    BY ButtonUpSound, ButtonDownSound
  <2> HIDE DEF up, down, e, told
  <2> QED BY <2>2, <2>3, <2>4 DEF e
<1> QED BY <1>1, <1>2, <1>3

LEMMA RestoreSound ==
  ASSUME NEW c \in App, NEW w, NEW d \in Devices \cup {NoDevice}, Sound(c, w), PasteInv(c)
  PROVE  LET e == RestoreLastInputConfirmation(c, d)
         IN  e.late = c.late /\ Sound(e, w)
<1> DEFINE shown == [c.shown EXCEPT ![c.last.of] = @ + 1]
<1> DEFINE b == [c EXCEPT !.device = d, !.pending = c.last, !.shown[c.last.of] = @ + 1,
                          !.dropped = @ \ {c.last.of}]
<1> DEFINE e == RestoreLastInputConfirmation(c, d)
<1>1. CASE ~Restorable(c)
  BY <1>1 DEF RestoreLastInputConfirmation
<1>2. CASE Restorable(c)
  <2>1. e = EnterPausedConfirmation(b, "ui")
    BY <1>2 DEF RestoreLastInputConfirmation
  <2>2. /\ c.pending.kind = "idle" /\ c.state = "ready" /\ c.session = NoSession
        /\ c.last.kind = "paused" /\ c.last.of \in Inputs
    BY <1>2 DEF Restorable, PasteInv
  <2>3. shown \in [Inputs -> Nat]
    <3>1. c.shown \in [Inputs -> Nat]
      BY DEF App
    <3> QED BY <2>2, <3>1
  <2>4. b = [c EXCEPT !.device = d, !.pending = c.last, !.shown = shown,
                      !.dropped = c.dropped \ {c.last.of}]
    BY DEF App
  <2> HIDE DEF shown, b, e
  <2>5. /\ b \in App /\ b.device = d /\ b.pending = c.last /\ b.dropped = c.dropped \ {c.last.of}
        /\ b.session = c.session /\ b.input = c.input /\ b.fate = c.fate /\ b.fed = c.fed
        /\ b.translating = c.translating /\ b.last = c.last /\ b.late = c.late
        /\ b.sentFinal = c.sentFinal /\ b.state = c.state /\ b.errorShown = c.errorShown
        /\ b.connected = c.connected /\ b.ui = c.ui /\ b.overlay = c.overlay /\ b.posted = c.posted
    BY <2>3, <2>4 DEF App
  <2>6. Screens(b)
    BY <2>2, <2>5, ReadyScreens DEF Sound
  <2>7. OverlayInv(b) /\ StateInv(b)
    BY <2>2, <2>5 DEF Sound, OverlayInv, StateInv, Busy
  <2>8. (\A j \in Inputs : c.fate[j] # "active") /\ NothingComes(c, w, c.dropped)
    BY <2>2, NotBusy DEF Busy
  <2>9. ~Tells(w, c.last.of) /\ c.last.of \notin c.translating
    BY <2>2 DEF Sound, LastInv
  <2>10. ResultInv(b, w)
    <3>1. NothingComes(b, w, b.dropped)
      BY <2>5, <2>8, <2>9 DEF NothingComes, Coming, Ends, Tells
    <3>2. Tells(w, b.input) /\ w.tells = "partial" /\ b.input \notin b.dropped => ~b.sentFinal
      BY <2>2, <2>5, <2>9 DEF Sound, ResultInv
    <3> QED BY <2>5, <2>8, <3>1, <3>2 DEF ResultInv, NothingComes, Coming
  <2>11. LastInv(b, w)
    BY <2>5 DEF Sound, LastInv, Closed
  <2>12. Sound(b, w)
    BY <2>6, <2>7, <2>10, <2>11 DEF Sound
  <2> QED BY <2>1, <2>2, <2>5, <2>12, PausedSound DEF e
<1> QED BY <1>1, <1>2

LEMMA CancelPendingSound ==
  ASSUME NEW c \in App, NEW w, NEW n, NEW d, Sound(c, w), RecordingInv(c, n),
         c.pending.kind # "idle"
  PROVE  LET e == CancelPending(c, d)
         IN  e.late = c.late /\ Sound(e, w)
<1> DEFINE a == [Drop(c) EXCEPT !.pending = Idle]
<1> DEFINE f == FinishRecognitionCycle(a)
<1> DEFINE e == EnterReady(f, "ui")
<1>1. CancelPending(c, d) = e
  BY DEF CancelPending
<1>2. Drop(c) \in App /\ Drop(c) = [c EXCEPT !.dropped = Drop(c).dropped]
  BY DropFacts
<1>3. Drop(c).dropped = c.dropped \cup InHand(c)
  BY DEF Drop, App
<1>4. /\ a \in App /\ a.dropped = c.dropped \cup InHand(c) /\ a.pending = Idle
      /\ a.session = c.session /\ a.fate = c.fate /\ a.fed = c.fed
      /\ a.translating = c.translating /\ a.last = c.last /\ a.late = c.late
      /\ a.state = c.state /\ a.device = c.device
      /\ a.connected = c.connected /\ a.ui = c.ui /\ a.overlay = c.overlay /\ a.posted = c.posted
  BY <1>2, <1>3, Empties DEF App
<1> HIDE DEF a
<1>5. /\ f \in App /\ Held(a, f) /\ f.overlay = a.overlay /\ f.posted = a.posted
      /\ ~f.sentFinal /\ f.state = a.state /\ f.device = a.device /\ f.pending = a.pending
      /\ f.ui = a.ui
  BY <1>4, FinishUi, FinishFacts
<1> HIDE DEF f
<1>6. /\ e \in App /\ Held(f, e) /\ HidesUi(f, e, "ui")
      /\ e.state = "ready" /\ e.device = NoDevice
      /\ e.sentFinal => f.sentFinal
      /\ Screens(f) => Screens(e)
  BY <1>4, <1>5, EnterReadyUi
<1> HIDE DEF e
<1>7. Held(a, e)
  BY <1>5, <1>6, HeldTwice
<1>8. (\A i \in Inputs : c.fate[i] # "active") /\ c.session = NoSession
  BY NotBusy DEF RecordingInv
<1>9. Over(c, e)
  BY <1>4, <1>5, <1>6, <1>7, <1>8 DEF Over, Held, Closed
<1>10. Screens(c) => Screens(f)
  BY <1>4, <1>5, SameScreens DEF Held
<1>11. Rests(c, e)
  BY <1>4, <1>6, <1>7, <1>9, <1>10 DEF Rests, Held
<1>12. OverlayInv(e)
  <2>1. e.overlay = Hidden /\ e.posted = c.posted
    BY <1>4, <1>5, <1>6 DEF HidesUi
  <2> QED BY <2>1, CommitFacts DEF Sound, OverlayInv
<1> QED BY <1>1, <1>11, <1>12, RestsSound DEF Rests

LEMMA CancelPasteSound ==
  ASSUME NEW c \in App, NEW w, NEW n, NEW d \in Devices, Sound(c, w), RecordingInv(c, n),
         PasteInv(c)
  PROVE  LET e == CancelPendingPaste(c, d)
         IN  e.late = c.late /\ Sound(e, w)
<1> DEFINE e == CancelPendingPaste(c, d)
<1>1. CASE c.session # NoSession
  <2>1. e \in {c, CancelCycle(c, "ui")}
    BY <1>1 DEF CancelPendingPaste
  <2> QED BY <2>1, CancelSound
<1>2. CASE c.session = NoSession /\ c.state = "finalizing"
  <2>1. e \in {CancelCycle(c, "ui"), RefreshDeviceUiState(c, d)}
    BY <1>2 DEF CancelPendingPaste
  <2>2. c.device # NoDevice
    BY <1>2 DEF Sound, StateInv, Busy, Idle
  <2>3. RefreshDeviceUiState(c, d).late = c.late /\ Sound(RefreshDeviceUiState(c, d), w)
    BY <2>2, RefreshSound
  <2> QED BY <2>1, <2>3, CancelSound
<1>3. CASE c.session = NoSession /\ c.state # "finalizing" /\ c.pending.kind = "idle"
  <2>1. e = RestoreLastInputConfirmation(c, d)
    BY <1>3 DEF CancelPendingPaste
  <2> QED BY <2>1, RestoreSound
<1>4. CASE c.session = NoSession /\ c.state # "finalizing" /\ c.pending.kind # "idle"
  <2>1. e \in {c, CancelPending(c, d)}
    BY <1>4 DEF CancelPendingPaste
  <2> QED BY <1>4, <2>1, CancelPendingSound
<1> QED BY <1>1, <1>2, <1>3, <1>4

-----------------------------------------------------------------------------
\* The steps keep what the screens say.

LEMMA Known ==
  ASSUME IInv
  PROVE  /\ app \in App /\ worker \in Report /\ dev \in [Devices -> Sending]
         /\ RecordingInv(app, count.input) /\ PasteInv(app)
         /\ app.errorShown => app.session = NoSession
BY DEF IInv, TypeOK, AudioInv, RecordingInv

LEMMA EndedUi ==
  ASSUME NEW c \in App, NEW end \in Fates \ {"active"}
  PROVE  LET e == AsrEnd(c, end)
         IN  /\ e \in App /\ \A i \in Inputs : e.fate[i] # "active"
             /\ e.late = c.late /\ e.input = c.input /\ e.translating = c.translating
             /\ e.dropped = c.dropped /\ e.sentFinal = c.sentFinal /\ e.state = c.state
             /\ e.last = c.last
             /\ \A i : Closed(e, i) = Closed(c, i)
             /\ Engaged(e) = Engaged(c)
             /\ Screens(c) => Screens(e)
             /\ StateInv(c) => StateInv(e)
             /\ OverlayInv(c) => OverlayInv(e)
<1> DEFINE e == AsrEnd(c, end)
<1>1. e \in App /\ e = [c EXCEPT !.fate = e.fate] /\ AsrActive(e) = {}
  BY AsrEndFacts
<1> HIDE DEF e
<1>2. /\ e.input = c.input /\ e.session = c.session /\ e.fed = c.fed
      /\ e.dropped = c.dropped /\ e.late = c.late /\ e.translating = c.translating
      /\ e.last = c.last /\ e.errorShown = c.errorShown /\ e.device = c.device
      /\ e.connected = c.connected /\ e.started = c.started /\ e.heard = c.heard
      /\ e.state = c.state /\ e.pending = c.pending /\ e.sentFinal = c.sentFinal
      /\ e.ui = c.ui /\ e.overlay = c.overlay /\ e.posted = c.posted
  BY <1>1 DEF App
<1>3. \A i \in Inputs : e.fate[i] # "active"
  BY <1>1 DEF AsrActive
<1>4. (\A i : Closed(e, i) = Closed(c, i)) /\ Engaged(e) = Engaged(c)
  BY <1>2 DEF Closed, Engaged, Busy
<1>5. Screens(c) => Screens(e)
  BY <1>2, SameScreens
<1>6. (StateInv(c) => StateInv(e)) /\ (OverlayInv(c) => OverlayInv(e))
  BY <1>2 DEF StateInv, OverlayInv, Busy
<1> QED BY <1>1, <1>2, <1>3, <1>4, <1>5, <1>6 DEF e

\* The session is ended without a report.
LEMMA EndedSound ==
  ASSUME NEW c \in App, NEW w, NEW end \in Fates \ {"active"}, Sound(c, w)
  PROVE  AsrEnd(c, end).late = c.late /\ Sound(AsrEnd(c, end), w)
<1> DEFINE e == AsrEnd(c, end)
<1>1. /\ \A i \in Inputs : e.fate[i] # "active"
      /\ e.late = c.late /\ e.input = c.input /\ e.translating = c.translating
      /\ e.dropped = c.dropped /\ e.sentFinal = c.sentFinal /\ e.state = c.state
      /\ e.last = c.last
      /\ \A i : Closed(e, i) = Closed(c, i)
      /\ Engaged(e) = Engaged(c)
      /\ Screens(e) /\ StateInv(e) /\ OverlayInv(e)
  BY EndedUi DEF Sound
<1> HIDE DEF e
<1>2. ResultInv(e, w)
  BY <1>1 DEF Sound, ResultInv, Coming
<1>3. LastInv(e, w)
  BY <1>1 DEF Sound, LastInv
<1> QED BY <1>1, <1>2, <1>3 DEF Sound, e

\* The session of recording i ends, and v reports it.
LEMMA ReportSound ==
  ASSUME NEW c \in App, NEW w, NEW v, NEW end \in Fates \ {"active"}, Sound(c, w),
         NEW i \in Inputs, c.fate[i] = "active", v.tells # "partial",
         \A j : Tells(v, j) => j = i, v.tells = "final" => Closed(c, i)
  PROVE  AsrEnd(c, end).late = c.late /\ Sound(AsrEnd(c, end), v)
<1> DEFINE e == AsrEnd(c, end)
<1>1. /\ \A j \in Inputs : e.fate[j] # "active"
      /\ e.late = c.late /\ e.input = c.input /\ e.translating = c.translating
      /\ e.dropped = c.dropped /\ e.sentFinal = c.sentFinal /\ e.state = c.state
      /\ e.last = c.last
      /\ \A j : Closed(e, j) = Closed(c, j)
      /\ Engaged(e) = Engaged(c)
      /\ Screens(e) /\ StateInv(e) /\ OverlayInv(e)
  BY EndedUi DEF Sound
<1> HIDE DEF e
<1>2. i = c.input /\ Engaged(c)
  BY DEF Sound, ResultInv
<1>3. \A j \in Inputs \ c.dropped : j \notin c.translating
  BY <1>2 DEF Sound, ResultInv, Coming
<1>4. \A j : Ends(v, j) => Tells(v, j)
  BY DEF Ends, Tells
<1>5. ResultInv(e, v)
  BY <1>1, <1>2, <1>3, <1>4 DEF ResultInv, Coming
<1>6. LastInv(e, v)
  BY <1>1 DEF Sound, LastInv
<1> QED BY <1>1, <1>5, <1>6 DEF Sound, e

LEMMA PartialUi ==
  ASSUME IInv, Sound(app, worker), NEW i \in Inputs, AsrPartial(i)
  PROVE  Sound(app', worker')
<1>1. /\ app \in App /\ RecordingInv(app, count.input)
  BY Known
<1>2. app' = app /\ app.fate[i] = "active" /\ worker' = [tells |-> "partial", of |-> i]
  BY DEF AsrPartial, AsrActive
<1>3. \A j : ~Ends(worker', j) /\ (Tells(worker', j) => j = i)
  BY <1>2 DEF Ends, Tells
<1>4. i = app.input /\ Engaged(app)
  BY <1>2 DEF Sound, ResultInv
<1>5. app.sentFinal => app.state = "finalizing"
  BY <1>1, <1>4 DEF Sound, StateInv, Engaged, Busy, RecordingInv
<1>6. \A j \in Inputs \ app.dropped : j \notin app.translating
  BY <1>2, <1>4 DEF Sound, ResultInv, Coming
<1>7. ResultInv(app, worker')
  BY <1>3, <1>5, <1>6 DEF Sound, ResultInv, Coming
<1>8. LastInv(app, worker')
  BY <1>2, <1>3 DEF Sound, LastInv
<1> QED BY <1>2, <1>7, <1>8 DEF Sound

LEMMA FinalUi ==
  ASSUME IInv, Sound(app, worker), NEW i \in Inputs, AsrFinal(i)
  PROVE  Sound(app', worker')
<1>1. app \in App
  BY Known
<1>2. app' = AsrEnd(app, "final") /\ app.fate[i] = "active" /\ "final" \in Fates \ {"active"}
  BY DEF AsrFinal, AsrActive, Fates
<1>3. PICK text \in Texts \cup {Empty} : worker' = [tells |-> "final", of |-> i, text |-> text]
  BY DEF AsrFinal
<1>4. worker'.tells # "partial" /\ \A j : Tells(worker', j) => j = i
  BY <1>3 DEF Tells
<1>5. Closed(app, i)
  <2>1. app.fed[i] \in Seq(Chunk)
    BY <1>1 DEF App, Chunks
  <2>2. app.fed[i] # <<>> /\ app.fed[i][Len(app.fed[i])].last
    BY DEF AsrFinal
  <2>3. Len(app.fed[i]) \in DOMAIN app.fed[i]
    BY <2>1, <2>2
  <2> QED BY <2>2, <2>3 DEF Closed
<1> QED BY <1>1, <1>2, <1>4, <1>5, ReportSound

LEMMA FailsUi ==
  ASSUME IInv, Sound(app, worker), NEW i \in Inputs, AsrFails(i)
  PROVE  Sound(app', worker')
<1>1. app \in App
  BY Known
<1>2. app.fate[i] = "active" /\ "error" \in Fates \ {"active"} /\ "silent" \in Fates \ {"active"}
  BY DEF AsrFails, AsrActive, Fates
<1>3. CASE app' = AsrEnd(app, "error") /\ worker' = [tells |-> "error", of |-> i]
  <2>1. worker'.tells = "error" /\ \A j : Tells(worker', j) => j = i
    BY <1>3 DEF Tells
  <2> QED BY <1>1, <1>2, <1>3, <2>1, ReportSound
<1>4. CASE app' = AsrEnd(app, "silent") /\ worker' = worker
  BY <1>1, <1>2, <1>4, EndedSound
<1> QED BY <1>3, <1>4 DEF AsrFails

\* The callbacks of the ASR client and the translator.
LEMMA OnPartialUi ==
  ASSUME IInv, Sound(app, worker), OnPartial, ~app'.late
  PROVE  Sound(app', worker')
<1> DEFINE b == Display(app, "worker", Partial)
<1> DEFINE c == Late(b, worker.of)
<1> DEFINE ds == IF b.device = NoDevice THEN Devices ELSE {b.device}
<1> DEFINE e == SendUiState(b, "thinking")
<1>1. app \in App /\ worker.tells = "partial" /\ worker' = NoCall
  BY Known DEF OnPartial
<1>2. app' = IF app.sentFinal THEN SendUiState(c, "thinking") ELSE c
  BY DEF OnPartial
<1>3. b \in App /\ Stays(app, b) /\ b.ui = app.ui /\ (OverlayInv(app) => OverlayInv(b))
  BY <1>1, DisplayUi, HideCalls, CommitFacts
<1> HIDE DEF b
<1>4. c \in App
  BY <1>3, LateFacts
<1>5. "thinking" \in Tellable /\ Expected("finalizing") = "thinking" /\ "finalizing" \in States
  BY DEF Tellable, Expected, States
<1>6. SendUiState(c, "thinking").late = c.late
  BY <1>4, <1>5, SendUi DEF SendUiState, Held
<1>7. ~c.late
  BY <1>2, <1>6
<1>8. c = b /\ worker.of \notin b.dropped /\ worker.of = b.input
  BY <1>3, <1>7, NotLate
<1>9. Sound(b, worker)
  <2>1. Screens(b)
    BY <1>3, SameScreens DEF Sound, Stays, Held
  <2> QED BY <1>3, <2>1, StaysSound DEF Sound
<1>10. Silence(worker')
  BY <1>1 DEF Silence, NoCall
<1>11. CASE ~app.sentFinal
  BY <1>2, <1>8, <1>9, <1>10, <1>11, SilenceSound
<1>12. CASE app.sentFinal
  <2>1. b.sentFinal = app.sentFinal
    BY <1>3 DEF Stays
  <2>2. b.state = "finalizing"
    BY <1>1, <1>8, <1>9, <1>12, <2>1 DEF Sound, ResultInv, Tells
  <2>3. app' = e
    BY <1>2, <1>8, <1>12
  <2>4. e = SendUiStateTo(b, "thinking", ds) /\ e.ui = SendUiState(b, Expected("finalizing")).ui
    BY <1>5 DEF SendUiState
  <2> HIDE DEF e, ds
  <2>5. Stays(b, e) /\ e.overlay = b.overlay /\ e.posted = b.posted
    BY <1>3, <1>5, <2>4, SendUi DEF Stays
  <2>6. Screens(e)
    BY <1>3, <1>5, <1>9, <2>2, <2>4, <2>5, EnterScreens DEF Sound, Stays, Held
  <2>7. OverlayInv(e)
    BY <1>9, <2>5 DEF Sound, OverlayInv, Stays
  <2>8. Sound(e, worker)
    BY <1>9, <2>5, <2>6, <2>7, StaysSound
  <2> QED BY <1>10, <2>3, <2>8, SilenceSound
<1> QED BY <1>11, <1>12

LEMMA OnFinalUi ==
  ASSUME IInv, Sound(app, worker), OnFinal, ~app'.late
  PROVE  Sound(app', worker')
<1> DEFINE c == Late(app, worker.of)
<1>1. /\ app \in App /\ worker \in Report /\ RecordingInv(app, count.input) /\ PasteInv(app)
  BY Known
<1>2. /\ worker.tells = "final" /\ worker' = NoCall
      /\ app' = FinishWithFinalText(c, "worker", worker.text, worker.of)
  BY DEF OnFinal
<1>3. worker.of \in Inputs /\ worker.text \in Texts \cup {Empty}
  BY <1>1, <1>2 DEF Report
<1>4. c \in App /\ Quiet(app, c) /\ (worker.of \in c.dropped => c.late)
  BY <1>1, LateFacts
<1>5. PasteInv(c)
  BY <1>1, <1>4, KeptPastes DEF Quiet, PasteStep
<1> HIDE DEF c
<1>6. Handled(c, app')
  BY <1>2, <1>3, <1>4, <1>5, FinalTextHandled
<1>7. ~c.late
  BY <1>6 DEF Handled, PasteStep
<1>8. c = app /\ worker.of \notin app.dropped
  BY <1>1, <1>7, NotLate DEF c
<1>9. Silence(worker')
  BY <1>2 DEF Silence, NoCall
<1> QED BY <1>1, <1>2, <1>3, <1>8, <1>9, FinalTextSound

LEMMA OnErrorUi ==
  ASSUME IInv, Sound(app, worker), OnError, ~app'.late
  PROVE  Sound(app', worker')
<1> DEFINE c == Late(app, worker.of)
<1>1. /\ app \in App /\ worker \in Report /\ RecordingInv(app, count.input)
  BY Known
<1>2. /\ worker.tells = "error" /\ worker' \in {NoCall, [tells |-> "upgrade"]}
      /\ app' = FinishWithAsrError(c, "worker")
  BY DEF OnError
<1>3. worker.of \in Inputs
  BY <1>1, <1>2 DEF Report
<1>4. c \in App
  BY <1>1, LateFacts
<1> HIDE DEF c
<1>5. Fails(c, app')
  BY <1>2, <1>4, FailUi
<1>6. ~c.late
  BY <1>5 DEF Fails
<1>7. c = app /\ worker.of \notin app.dropped
  BY <1>1, <1>6, NotLate DEF c
<1>8. Silence(worker')
  BY <1>2 DEF Silence, NoCall
<1>9. /\ app.device # NoDevice /\ app.pending.kind = "idle"
      /\ NothingComes(app, worker', app.dropped) /\ Sound(app, worker')
  BY <1>1, <1>2, <1>3, <1>7, <1>8, ResultFacts DEF Ends
<1> QED BY <1>5, <1>7, <1>9, FailSound

LEMMA OnUpgradeUrlUi ==
  ASSUME IInv, Sound(app, worker), OnUpgradeUrl
  PROVE  Sound(app', worker')
<1> DEFINE b == RecoverFromAsrError(app)
<1>1. app \in App /\ (app.errorShown => app.session = NoSession)
  BY Known
<1>2. app' = Display(b, "worker", Hide(UpgradePage)) /\ worker' = NoCall
  BY DEF OnUpgradeUrl
<1>3. b \in App /\ Sound(b, worker)
  BY <1>1, RecoverSound, RecoverUi DEF Ran
<1> HIDE DEF b
<1>4. Stays(b, app') /\ app'.ui = b.ui /\ (OverlayInv(b) => OverlayInv(app'))
  BY <1>2, <1>3, DisplayUi, HideCalls, CommitFacts
<1>5. Screens(app')
  BY <1>3, <1>4, SameScreens DEF Sound, Stays, Held
<1>6. Sound(app', worker)
  BY <1>3, <1>4, <1>5, StaysSound DEF Sound
<1>7. Silence(worker')
  BY <1>2 DEF Silence, NoCall
<1> QED BY <1>6, <1>7, SilenceSound

LEMMA TranslatedUi ==
  ASSUME IInv, Sound(app, worker), NEW i \in Inputs, Translated(i), ~app'.late
  PROVE  Sound(app', worker')
<1> DEFINE a == [app EXCEPT !.translating = @ \ {i}]
<1> DEFINE c == Late(a, i)
<1>1. /\ app \in App /\ RecordingInv(app, count.input)
  BY Known
<1>2. i \in app.translating /\ worker' = worker
  BY DEF Translated
<1>3. \/ \E text \in Texts \cup {Empty} :
           app' = EnterPendingConfirmation(Remember(c, text, i), "translator", text, i)
      \/ app' = FinishWithAsrError(c, "translator")
  BY DEF Translated
<1>4. a \in App /\ a.dropped = app.dropped
  BY <1>1 DEF App
<1>5. i \notin app.dropped =>
        /\ a \in App /\ Sound(a, worker) /\ a.late = app.late
        /\ i = a.input /\ ~a.errorShown /\ a.session = NoSession /\ Closed(a, i)
        /\ a.device # NoDevice /\ a.pending.kind = "idle"
        /\ \A j \in Inputs : a.fate[j] # "active"
        /\ NothingComes(a, worker, a.dropped) /\ i \notin a.translating /\ ~Tells(worker, i)
  BY <1>1, <1>2, AwayFacts
<1> HIDE DEF a
<1>6. c \in App
  BY <1>4, LateFacts
<1> HIDE DEF c
<1>7. Confirms(c, app', i) \/ Fails(c, app')
  BY <1>3, <1>6, ConfirmUi, FailUi
<1>8. ~c.late
  BY <1>7 DEF Confirms, Fails
<1>9. c = a /\ i \notin app.dropped
  BY <1>4, <1>8, NotLate DEF c
<1>10. CASE Confirms(c, app', i)
  BY <1>2, <1>5, <1>9, <1>10, ConfirmSound
<1>11. CASE Fails(c, app')
  BY <1>2, <1>5, <1>9, <1>11, FailSound
<1> QED BY <1>7, <1>10, <1>11

\* The UI thread's own steps.
LEMMA UiMessageUi ==
  ASSUME IInv, Sound(app, worker), ~app.late, UiMessage, ~app'.late
  PROVE  Sound(app', worker')
<1> DEFINE first == Head(app.posted)
<1> DEFINE late == app.late \/ first.during # Situation(app)
<1> DEFINE c == [app EXCEPT !.posted = Tail(@), !.late = @ \/ first.during # Situation(app)]
<1>1. /\ app \in App /\ PasteInv(app) /\ (app.errorShown => app.session = NoSession)
      /\ app.posted # <<>> /\ worker' = worker
  BY Known DEF UiMessage
<1>2. app.posted \in Posts
  BY <1>1 DEF App
<1>3. /\ first \in [call : Call, during : States \X BOOLEAN \X Times]
      /\ Tail(app.posted) \in Posts
      /\ 1 \in DOMAIN app.posted /\ first = app.posted[1]
      /\ \A k \in DOMAIN Tail(app.posted) : k + 1 \in DOMAIN app.posted
                                            /\ Tail(app.posted)[k] = app.posted[k + 1]
  <2>1. Len(app.posted) \in Nat /\ Len(app.posted) > 0 /\ DOMAIN app.posted = 1..Len(app.posted)
    BY <1>1, <1>2 DEF Posts
  <2>2. \A k \in DOMAIN Tail(app.posted) : k + 1 \in DOMAIN app.posted
                                            /\ Tail(app.posted)[k] = app.posted[k + 1]
    BY <1>1, <1>2, <2>1 DEF Posts
  <2>3. /\ first \in [call : Call, during : States \X BOOLEAN \X Times]
        /\ Tail(app.posted) \in Posts
    BY <1>1, <1>2, FirstFacts DEF Posts
  <2>4. first = app.posted[1]
    OBVIOUS
  <2> HIDE DEF first
  <2> QED BY <2>1, <2>2, <2>3, <2>4
<1>4. app' = Displayed(c, first.call) /\ first.call \in Call
  BY <1>3 DEF UiMessage
<1>5. c = [app EXCEPT !.posted = Tail(app.posted), !.late = late] /\ late \in BOOLEAN
  BY <1>1 DEF App
<1> HIDE DEF c
<1>6. c \in App /\ c.late = late /\ c.posted = Tail(app.posted)
  <2> HIDE DEF late
  <2> QED BY <1>1, <1>3, <1>5 DEF App
<1>7. PasteInv(c)
  <2>1. /\ c.pending = app.pending /\ c.typed = app.typed /\ c.shown = app.shown
        /\ c.dropped = app.dropped /\ c.last = app.last
    <3> HIDE DEF late
    <3> QED BY <1>1, <1>5 DEF App
  <2>2. app.late => c.late
    BY <1>6
  <2> QED BY <1>1, <2>1, <2>2 DEF PasteInv
<1>8. ~c.late
  BY <1>4, <1>6, <1>7, DisplayedHandled DEF Handled, PasteStep
<1>9. first.during = Situation(app) /\ c.late = app.late
  BY <1>1, <1>6, <1>8 DEF App
<1> HIDE DEF first, late
<1>10. /\ Stays(app, c) /\ c.ui = app.ui /\ c.overlay = app.overlay
  BY <1>1, <1>5, <1>6, <1>9 DEF App, Stays, Held
<1>11. Screens(c)
  BY <1>10, SameScreens DEF Sound, Stays, Held
<1>12. OverlayInv(c)
  BY <1>3, <1>6, <1>10 DEF Sound, OverlayInv, Stays
<1>13. Sound(c, worker)
  BY <1>10, <1>11, <1>12, StaysSound
<1>14. Commits(first.call) => c.pending.kind # "idle"
  <2>1. Commits(first.call) => first.during[1] = "pending"
    BY <1>3 DEF Sound, OverlayInv
  <2>2. Situation(app)[1] = app.state
    BY DEF Situation
  <2>3. app.state = "pending" => app.pending.kind # "idle"
    BY DEF Sound, StateInv
  <2> QED BY <1>9, <1>10, <2>1, <2>2, <2>3 DEF Stays
<1>15. c.errorShown => c.session = NoSession
  BY <1>1, <1>10 DEF Stays, Held
<1> QED BY <1>1, <1>4, <1>6, <1>13, <1>14, <1>15, DisplayedSound

LEMMA OverlayTimerUi ==
  ASSUME IInv, Sound(app, worker), OverlayTimer
  PROVE  Sound(app', worker')
BY Known, HideCalls, CommitFacts, DisplayedSound DEF OverlayTimer

LEMMA RestoreUi ==
  ASSUME IInv, Sound(app, worker), RestoreFromMenu
  PROVE  Sound(app', worker')
<1>1. app \in App /\ PasteInv(app) /\ app.lastDevice \in Devices \cup {NoDevice}
  BY Known DEF App
<1>2. app' = RestoreLastInputConfirmation(app, app.lastDevice) /\ worker' = worker
  BY DEF RestoreFromMenu
<1> QED BY <1>1, <1>2, RestoreSound

LEMMA UpdateConfigUi ==
  ASSUME IInv, Sound(app, worker), UpdateConfig
  PROVE  Sound(app', worker')
<1> DEFINE c == IF Recognizing(app) THEN CancelCycle(app, "ui") ELSE app
<1> DEFINE b == AsrCancel(c)
<1> DEFINE mode == IF b.mode = "hold" THEN "click" ELSE "hold"
<1>1. app \in App
  BY Known
<1>2. app' = [b EXCEPT !.mode = IF @ = "hold" THEN "click" ELSE "hold"] /\ worker' = worker
  BY DEF UpdateConfig
<1>3. c \in App /\ Sound(c, worker)
  BY <1>1, CancelSound, CancelUi
<1> HIDE DEF c
<1>4. b \in App /\ Sound(b, worker)
  BY <1>3, EndedSound, EndedUi DEF AsrCancel, Fates
<1> HIDE DEF b
<1>5. app' = [b EXCEPT !.mode = mode]
  BY <1>2, <1>4 DEF App
<1> HIDE DEF mode
<1>6. Stays(b, app') /\ app'.ui = b.ui /\ app'.overlay = b.overlay /\ app'.posted = b.posted
  BY <1>4, <1>5 DEF App, Stays, Held
<1>7. Screens(app') /\ OverlayInv(app')
  BY <1>4, <1>6, SameScreens DEF Sound, OverlayInv, Stays, Held
<1> QED BY <1>2, <1>4, <1>6, <1>7, StaysSound

LEMMA HalfSecondUi ==
  ASSUME IInv, Sound(app, worker), HalfSecond
  PROVE  Sound(app', worker')
<1>1. app \in App
  BY Known
<1>2. app' = [app EXCEPT !.half = TRUE] /\ worker' = worker
  BY DEF HalfSecond
<1>3. Stays(app, app') /\ app'.ui = app.ui /\ app'.overlay = app.overlay /\ app'.posted = app.posted
  BY <1>1, <1>2 DEF App, Stays, Held
<1>4. Screens(app') /\ OverlayInv(app')
  BY <1>3, SameScreens DEF Sound, OverlayInv, Stays, Held
<1> QED BY <1>2, <1>3, <1>4, StaysSound

-----------------------------------------------------------------------------
\* The devices' steps keep what the screens say.

\* A device stops asking for a click, or goes on.
LEMMA AskedSound ==
  ASSUME NEW c \in App, NEW w, Sound(c, w), NEW d \in Devices, NEW asked \in BOOLEAN,
         asked => c.ui[d].asked
  PROVE  LET e == [c EXCEPT !.ui[d].asked = asked]
         IN  /\ e.late = c.late /\ e.mode = c.mode /\ Sound(e, w)
             /\ Target(e, d) = Target(c, d) /\ e.pending = c.pending
<1> DEFINE ui == [c.ui EXCEPT ![d].asked = asked]
<1> DEFINE e == [c EXCEPT !.ui[d].asked = asked]
<1>1. e = [c EXCEPT !.ui = ui]
  BY DEF App
<1>2. /\ \A x \in Devices \ {d} : ui[x] = c.ui[x]
      /\ ui[d].shows = c.ui[d].shows /\ ui[d].greeted = c.ui[d].greeted /\ ui[d].asked = asked
  BY DEF App, Shown
<1> HIDE DEF ui, e
<1>3. /\ Stays(c, e) /\ e.ui = ui /\ e.overlay = c.overlay /\ e.posted = c.posted /\ e.mode = c.mode
  BY <1>1 DEF App, Stays, Held
<1>4. e.connected = c.connected /\ c.connected \subseteq Devices
      /\ \A x : Target(e, x) = Target(c, x)
  BY <1>3 DEF App, Stays, Held, Target
<1>5. Agrees(e)
  BY <1>2, <1>3, <1>4 DEF Sound, Screens, Agrees
<1>6. Asking(e)
  BY <1>2, <1>3 DEF Sound, Screens, Asking
<1>7. OverlayInv(e)
  BY <1>3 DEF Sound, OverlayInv, Stays
<1>8. Sound(e, w)
  BY <1>3, <1>5, <1>6, <1>7, StaysSound DEF Screens
<1> QED BY <1>3, <1>4, <1>8 DEF e, Stays, Held

LEMMA PressUi ==
  ASSUME IInv, Sound(app, worker), NEW d \in Devices, Press(d)
  PROVE  Sound(app', worker')
<1> DEFINE asked == app.ui[d].asked /\ app.ui[d].shows = "pending"
<1>1. app \in App
  BY Known
<1>2. app' = [app EXCEPT !.ui[d].asked = asked] /\ worker' = worker
  BY <1>1 DEF Press, App
<1>3. asked \in BOOLEAN /\ (asked => app.ui[d].asked)
  OBVIOUS
<1> HIDE DEF asked
<1> QED BY <1>1, <1>2, <1>3, AskedSound

LEMMA ButtonUi ==
  ASSUME IInv, Sound(app, worker), NEW d \in Devices, ButtonDown(d) \/ ButtonUp(d)
  PROVE  Sound(app', worker')
<1>1. app \in App /\ RecordingInv(app, count.input)
  BY Known
<1>2. dev[d].session \in Nat /\ dev[d].input \in Times
  BY Known DEF Sending
<1>3. \/ app.mode = "click" /\ app' = HandlePrimaryClick(app, d, dev[d].session, dev[d].input)
      \/ app' = HandlePrimaryButtonDown(app, d, dev[d].session, dev[d].input)
      \/ app' = HandlePrimaryButtonUp(app, d)
  BY DEF ButtonDown, ButtonUp, Pressed
<1>4. worker' = worker
  BY DEF ButtonDown, ButtonUp
<1>5. CASE app.mode = "click" /\ app' = HandlePrimaryClick(app, d, dev[d].session, dev[d].input)
  BY <1>1, <1>2, <1>4, <1>5, ClickSound
<1>6. CASE app' = HandlePrimaryButtonDown(app, d, dev[d].session, dev[d].input)
  BY <1>1, <1>2, <1>4, <1>6, ButtonDownSound
<1>7. CASE app' = HandlePrimaryButtonUp(app, d)
  BY <1>1, <1>4, <1>7, ButtonUpSound
<1> QED BY <1>3, <1>5, <1>6, <1>7

\* A device that asks shows the text in hand, or ready.
LEMMA ControlClickUi ==
  ASSUME IInv, Sound(app, worker), NEW d \in Devices, ControlClick(d)
  PROVE  Sound(app', worker')
<1> DEFINE asked == app.ui[d].shows = "pending"
<1> DEFINE c == [app EXCEPT !.ui[d].asked = asked]
<1>1. app \in App /\ RecordingInv(app, count.input)
  BY Known
<1>2. /\ d \in app.connected /\ app.ui[d].asked /\ worker' = worker
      /\ app' = HandlePrimaryClick(c, d, NoSession, NoInput)
  BY DEF ControlClick
<1>3. asked \in BOOLEAN /\ (asked => app.ui[d].asked)
  BY <1>2
<1>4. app.pending.kind # "idle" \/ Target(app, d) = "ready"
  <2>1. app.ui[d].shows \in {"pending", "ready"} /\ app.ui[d].shows = Target(app, d)
    BY <1>2 DEF Sound, Screens, Agrees, Asking
  <2>2. Target(app, d) = "pending" => app.state \in {"pending", "paused"}
    BY DEF Target, Expected
  <2> QED BY <2>1, <2>2 DEF Sound, StateInv
<1>5. c \in App /\ Quiet(app, c)
  BY <1>1, <1>3, AskedFacts
<1>6. /\ Sound(c, worker) /\ Target(c, d) = Target(app, d) /\ c.pending = app.pending
  <2> HIDE DEF asked
  <2> QED BY <1>1, <1>3, AskedSound
<1>7. RecordingInv(c, count.input)
  <2>1. AudioInv(c, dev, count.input)
    BY <1>5, CalmAudio DEF Quiet, IInv, TypeOK
  <2> QED BY <2>1 DEF AudioInv
<1>8. NoSession \in Nat /\ NoInput \in Times
  BY BoundsAssumption DEF NoSession, NoInput, Times
<1> HIDE DEF c
<1> QED BY <1>2, <1>4, <1>5, <1>6, <1>7, <1>8, ClickSound

LEMMA SideClickUi ==
  ASSUME IInv, Sound(app, worker), NEW d \in Devices, SideClick(d)
  PROVE  Sound(app', worker')
<1>1. app' = CancelPendingPaste(app, d) /\ worker' = worker
  BY DEF SideClick
<1> QED BY <1>1, Known, CancelPasteSound

\* Only what is connected changes, and what it shows.
Linked(c, e) ==
  /\ e.input = c.input /\ e.session = c.session /\ e.fed = c.fed /\ e.fate = c.fate
  /\ e.dropped = c.dropped /\ e.late = c.late /\ e.translating = c.translating
  /\ e.last = c.last /\ e.errorShown = c.errorShown /\ e.device = c.device
  /\ e.started = c.started /\ e.heard = c.heard
  /\ e.state = c.state /\ e.pending = c.pending /\ e.sentFinal = c.sentFinal
  /\ e.overlay = c.overlay /\ e.posted = c.posted
  /\ e.waiting = c.waiting /\ e.timeout = c.timeout

LEMMA LinkSound ==
  ASSUME NEW c, NEW e, NEW w, Sound(c, w), Linked(c, e), Screens(e)
  PROVE  e.late = c.late /\ Sound(e, w)
<1>1. (\A i : Closed(e, i) = Closed(c, i)) /\ Engaged(e) = Engaged(c)
  BY DEF Linked, Closed, Engaged, Busy
<1>2. StateInv(e) /\ OverlayInv(e)
  BY DEF Linked, Sound, StateInv, OverlayInv, Busy
<1>3. ResultInv(e, w)
  BY <1>1 DEF Linked, Sound, ResultInv, Coming
<1>4. LastInv(e, w)
  BY <1>1 DEF Linked, Sound, LastInv
<1> QED BY <1>2, <1>3, <1>4 DEF Linked, Sound

LEMMA LostSound ==
  ASSUME NEW c \in App, NEW w, Sound(c, w), NEW d
  PROVE  LET e == ConnectionLost(c, d)
         IN  /\ e \in App /\ Linked(c, e) /\ Sound(e, w)
             /\ \A n : RecordingInv(c, n) => RecordingInv(e, n)
<1> DEFINE e == ConnectionLost(c, d)
<1>1. e \in App
  BY LostFacts
<1>2. Linked(c, e) /\ e.connected = c.connected \ {d} /\ e.ui = c.ui
  BY DEF ConnectionLost, App, Linked
<1> HIDE DEF e
<1>3. Screens(e)
  BY <1>2, SameScreens DEF Sound, Linked
<1>4. Sound(e, w)
  BY <1>2, <1>3, LinkSound
<1>5. \A n : RecordingInv(c, n) => RecordingInv(e, n)
  BY <1>2 DEF Linked, RecordingInv, Closed
<1> QED BY <1>1, <1>2, <1>4, <1>5 DEF e

LEMMA DeviceLostUi ==
  ASSUME IInv, Sound(app, worker), NEW d \in Devices, NEW luck \in Lucks, DeviceLost(d, luck),
         worker' = worker
  PROVE  Sound(app', worker')
<1> DEFINE c == ConnectionLost(app, d)
<1>1. app \in App /\ RecordingInv(app, count.input)
  BY Known
<1>2. app' = IF c.device # d THEN c
             ELSE IF c.waiting THEN SendFinalOggChunkIfNeeded(c, "ui", luck)
             ELSE CancelCycle(c, "ui")
  BY DEF DeviceLost
<1>3. c \in App /\ Sound(c, worker) /\ RecordingInv(c, count.input)
  BY <1>1, LostSound
<1> HIDE DEF c
<1>4. CASE c.device # d
  BY <1>2, <1>3, <1>4
<1>5. CASE c.device = d /\ c.waiting
  <2>1. c.session # NoSession
    BY <1>3, <1>5 DEF RecordingInv
  <2> QED BY <1>2, <1>3, <1>5, <2>1, SendFinalSound
<1>6. CASE c.device = d /\ ~c.waiting
  BY <1>2, <1>3, <1>6, CancelSound
<1> QED BY <1>4, <1>5, <1>6

LEMMA RemoveUi ==
  ASSUME IInv, Sound(app, worker), NEW d \in Devices, RemovePairedDevice(d)
  PROVE  Sound(app', worker')
<1> DEFINE c == IF app.device = d THEN CancelCycle(app, "ui") ELSE app
<1>1. app \in App
  BY Known
<1>2. app' = ConnectionLost(c, d) /\ worker' = worker
  BY DEF RemovePairedDevice
<1>3. c \in App /\ Sound(c, worker)
  BY <1>1, CancelSound, CancelUi
<1> HIDE DEF c
<1> QED BY <1>2, <1>3, LostSound

LEMMA DeviceBackUi ==
  ASSUME IInv, Good, Sound(app, worker), NEW d \in Devices, DeviceBack(d)
  PROVE  Sound(app', worker')
<1> DEFINE ui == [app.ui EXCEPT ![d] = Ready]
<1> DEFINE connected == app.connected \cup {d}
<1>1. app \in App /\ app' \in App
  BY Known DEF Good, IInv, TypeOK
<1>2. app' = [app EXCEPT !.connected = connected, !.ui = ui] /\ worker' = worker
  BY <1>1 DEF DeviceBack, App
<1>3. \A x \in Devices : ui[x] = IF x = d THEN Ready ELSE app.ui[x]
  BY <1>1 DEF App
<1>4. connected \subseteq Devices /\ \A x \in connected : x = d \/ x \in app.connected
  BY <1>1 DEF App
<1> HIDE DEF ui, connected
<1>5. /\ app'.ui = ui /\ app'.connected = connected
      /\ Linked(app, app')
  BY <1>1, <1>2 DEF App, Linked
<1>6. Ready.greeted /\ ~Ready.asked
  BY DEF Ready
<1>7. Screens(app')
  BY <1>3, <1>4, <1>5, <1>6 DEF Sound, Screens, Agrees, Asking, Target, Linked
<1> QED BY <1>2, <1>5, <1>7, LinkSound

\* Audio arrives, ends, or the wait for its end is over.
LEMMA AudioUi ==
  ASSUME IInv, Good, Sound(app, worker), NEW luck \in Lucks, Audio(luck)
  PROVE  Sound(app', worker')
<1>1. /\ app \in App /\ RecordingInv(app, count.input) /\ dev \in [Devices -> Sending]
  BY Known
<1>2. worker' = worker
  BY DEF Audio
<1>3. \/ \E d \in Devices : DeviceLost(d, luck)
      \/ /\ (\E d \in Devices : Frame(d, luck) \/ End(d, luck)) \/ AudioEndTimeout(luck)
         /\ count' = count \/ (count.event < MaxEvents /\ Counted("event"))
  BY DEF Audio
<1>4. CASE \E d \in Devices : DeviceLost(d, luck)
  BY <1>2, <1>4, DeviceLostUi
<1>5. ASSUME NEW d \in Devices, Frame(d, luck),
             count' = count \/ (count.event < MaxEvents /\ Counted("event"))
      PROVE  Sound(app', worker')
  <2> DEFINE chunk == [of |-> dev[d].input, last |-> FALSE]
  <2> DEFINE canStart == app.half /\ ~app.waiting
  <2>1. app' = IF ~FrameAccepted(app, d, dev[d].session) THEN app
               ELSE SendOrBufferOggChunk([app EXCEPT !.heard = TRUE], "ui", chunk, canStart, luck)
    BY <1>5 DEF Frame, HandleAudioFrame
  <2>2. chunk \in Chunk /\ canStart \in BOOLEAN
    BY <1>1 DEF Chunk, Sending
  <2>3. count'.input = count.input
    BY <1>5, CountSame, CountEvent DEF IInv
  <2>4. RecordingInv(app', count.input)
    BY <2>3 DEF Good, IInv, AudioInv
  <2> HIDE DEF chunk, canStart
  <2>5. CASE ~FrameAccepted(app, d, dev[d].session)
    BY <1>2, <2>1, <2>5
  <2>6. CASE FrameAccepted(app, d, dev[d].session)
    <3>1. app.session # NoSession
      BY <2>6 DEF FrameAccepted, Owns
    <3> QED BY <1>1, <1>2, <2>1, <2>2, <2>4, <2>6, <3>1, FrameSound
  <2> QED BY <2>5, <2>6
<1>6. ASSUME NEW d \in Devices, End(d, luck)
      PROVE  Sound(app', worker')
  <2> DEFINE c == CancelAudioEndTimeout(app)
  <2>1. app' = IF ~FrameAccepted(app, d, dev[d].session) THEN app
               ELSE SendFinalOggChunkIfNeeded(c, "ui", luck)
    BY <1>6 DEF End, HandleAudioEnd
  <2>2. c \in App /\ Calm(app, c)
    BY <1>1, CancelTimeoutFacts DEF Quiet
  <2>3. Stays(app, c) /\ c.ui = app.ui /\ c.overlay = app.overlay /\ c.posted = app.posted
    BY <1>1 DEF CancelAudioEndTimeout, App, Stays, Held
  <2>4. RecordingInv(c, count.input)
    <3>1. AudioInv(c, dev, count.input)
      BY <2>2, CalmAudio DEF IInv, TypeOK
    <3> QED BY <3>1 DEF AudioInv
  <2> HIDE DEF c
  <2>5. Screens(c) /\ OverlayInv(c)
    BY <2>3, SameScreens DEF Sound, OverlayInv, Stays, Held
  <2>6. Sound(c, worker)
    BY <2>3, <2>5, StaysSound
  <2>7. CASE ~FrameAccepted(app, d, dev[d].session)
    BY <1>2, <2>1, <2>7
  <2>8. CASE FrameAccepted(app, d, dev[d].session)
    <3>1. c.session # NoSession
      BY <2>3, <2>8 DEF FrameAccepted, Owns, Stays, Held
    <3> QED BY <1>2, <2>1, <2>2, <2>4, <2>6, <2>8, <3>1, SendFinalSound
  <2> QED BY <2>7, <2>8
<1>7. CASE AudioEndTimeout(luck)
  <2>1. app' = SendFinalOggChunkIfNeeded(app, "timeout", luck) /\ app.waiting
    BY <1>7 DEF AudioEndTimeout
  <2>2. app.session # NoSession
    BY <1>1, <2>1 DEF RecordingInv
  <2> QED BY <1>1, <1>2, <2>1, <2>2, SendFinalSound
<1> QED BY <1>3, <1>4, <1>5, <1>6, <1>7

-----------------------------------------------------------------------------
\* The screens always agree.

LEMMA InitSound ==
  ASSUME Init
  PROVE  Sound(app, worker)
<1>1. /\ app.state = "ready" /\ app.session = NoSession /\ app.device = NoDevice
      /\ app.sentFinal = FALSE /\ app.errorShown = FALSE /\ app.pending = Idle /\ app.last = Idle
      /\ app.overlay = Hidden /\ app.posted = <<>> /\ app.connected = Devices
      /\ app.translating = {}
      /\ \A d \in Devices : app.ui[d] = Ready
      /\ \A i \in Inputs : app.fate[i] = "unused"
      /\ worker = NoCall
  BY DEF Init
<1>2. Ready.greeted /\ ~Ready.asked
  BY DEF Ready
<1>3. Screens(app)
  BY <1>1, <1>2 DEF Screens, Agrees, Asking
<1>4. StateInv(app)
  BY <1>1 DEF StateInv, Busy
<1>5. \A i : ~Tells(worker, i) /\ ~Ends(worker, i)
  BY <1>1 DEF Tells, Ends, NoCall
<1>6. ResultInv(app, worker)
  BY <1>1, <1>5 DEF ResultInv, Coming
<1>7. LastInv(app, worker)
  <2>1. Idle.of \notin Inputs
    BY Empties DEF Idle, NoInput
  <2> QED BY <1>1, <2>1 DEF LastInv
<1>8. OverlayInv(app)
  BY <1>1, CommitFacts DEF OverlayInv
<1> QED BY <1>3, <1>4, <1>6, <1>7, <1>8 DEF Sound

LEMMA NextSound ==
  ASSUME IInv, UiInv(app, worker), [Next]_vars
  PROVE  UiInv(app', worker')
<1> SUFFICES ASSUME ~app'.late PROVE Sound(app', worker')
  BY DEF UiInv
<1>1. Good
  BY NextGood
<1>2. ~app.late /\ Sound(app, worker)
  BY <1>1 DEF Good, PasteStep, UiInv
<1>3. CASE UNCHANGED vars
  BY <1>2, <1>3 DEF vars
<1>4. ASSUME NEW luck \in Lucks, Audio(luck) PROVE Sound(app', worker')
  BY <1>1, <1>2, <1>4, AudioUi
<1>5. ASSUME NEW d \in Devices, \/ Press(d) \/ ButtonDown(d) \/ ButtonUp(d) \/ ControlClick(d)
                                \/ SideClick(d) \/ RemovePairedDevice(d) \/ DeviceBack(d)
      PROVE  Sound(app', worker')
  BY <1>1, <1>2, <1>5, PressUi, ButtonUi, ControlClickUi, SideClickUi, RemoveUi, DeviceBackUi
<1>6. ASSUME NEW i \in Inputs, AsrPartial(i) \/ AsrFinal(i) \/ AsrFails(i) \/ Translated(i)
      PROVE  Sound(app', worker')
  BY <1>2, <1>6, PartialUi, FinalUi, FailsUi, TranslatedUi
<1>7. CASE Reported
  BY <1>2, <1>7, OnPartialUi, OnFinalUi, OnErrorUi, OnUpgradeUrlUi DEF Reported
<1>8. CASE UiMessage \/ OverlayTimer \/ RestoreFromMenu \/ UpdateConfig \/ HalfSecond
  BY <1>2, <1>8, UiMessageUi, OverlayTimerUi, RestoreUi, UpdateConfigUi, HalfSecondUi
<1> QED BY <1>3, <1>4, <1>5, <1>6, <1>7, <1>8 DEF Next, Lucks

(* As long as no callback or overlay call came late: the state, the        *)
(* result that is on its way, the text that can be restored and the        *)
(* callbacks of the overlay belong to the recording in hand, and the       *)
(* devices were told its state.                                            *)
THEOREM ScreensInvariance == Spec => []UiInv(app, worker)
<1>1. Init => UiInv(app, worker)
  BY InitSound DEF UiInv
<1>2. IInv /\ UiInv(app, worker) /\ [Next]_vars => UiInv(app, worker)'
  BY NextSound
<1> QED BY <1>1, <1>2, CoordinatorInvariance, PTL DEF Spec

(* Every connected device shows the state of the input, the others ready,  *)
(* whatever ended or began the recording: any number of devices, lost and  *)
(* found again, results, errors and translations in any order.  Not so     *)
(* once a callback of an earlier input came late, nor of a device that     *)
(* connected and was greeted with ready but told nothing since.            *)
THEOREM UiAgreesAlways == Spec => []UiAgrees
<1>1. UiInv(app, worker) => UiAgrees
  BY DEF UiInv, Sound, Screens, Agrees, Target, UiAgrees
<1> QED BY <1>1, ScreensInvariance, PTL
=============================================================================
