--------------------------- MODULE SubtitleCycles ---------------------------
(***************************************************************************)
(* The Windows coordinator while its output is subtitles: each recording   *)
(* is a cycle of its own, keyed by device and session number, with an ASR  *)
(* client of its own, and several cycles of a device may be alive: the one *)
(* being recorded is the active one, the others wait for their text.       *)
(* The UI thread, the workers of the ASR clients, the audio-end timeouts   *)
(* and the translator all run handlers of the coordinator, which looks the *)
(* cycle up by its key each time.                                          *)
(***************************************************************************)
EXTENDS Integers, Sequences, FiniteSets, WinOverlay

CONSTANTS
  Devices, Translating,  \* the devices, and those whose subtitles are translated
  MaxInputs,             \* presses that start a recording
  MaxFrames,             \* audio frames of a recording
  MaxEvents              \* of these together: failures, partial results, segments,
                         \* lost devices, changes of the configuration, cancels

ASSUME BoundsAssumption ==
  /\ Translating \subseteq Devices
  /\ {MaxInputs, MaxFrames, MaxEvents} \subseteq Nat

Inputs == 1..MaxInputs
NoInput == 0
NoSession == 0
Keys == Devices \X (1..MaxInputs)
None == [of |-> NoInput]

VARIABLES
  app,     \* the subtitle state of the coordinator and the overlay
  dev,     \* dev[d]: the recording device d sends
  count    \* what the bounds bound

vars == <<app, dev, count>>

\* tail is what is still on its way of the recording before.
NoTail == [session |-> NoSession, input |-> NoInput, frames |-> 0]
Silent == [session |-> NoSession, input |-> NoInput, down |-> FALSE, up |-> TRUE,
           frames |-> 0, ended |-> TRUE, tail |-> NoTail]

\* asr is the cycle's ASR session, fed the chunks that were handed to it, and
\* tells what its worker is about to report.
NewCycle(i) ==
  [of |-> i, half |-> FALSE, heard |-> FALSE, buffered |-> <<>>, started |-> FALSE,
   sentFinal |-> FALSE, finished |-> FALSE, waiting |-> FALSE, generation |-> 0,
   asr |-> "idle", fed |-> <<>>, tells |-> "nothing"]

Init ==
  /\ \E mode \in {"hold", "click"} :
       app = [cycles |-> [k \in Keys |-> None], active |-> [d \in Devices |-> NoSession],
              mode |-> mode, connected |-> Devices, ui |-> [d \in Devices |-> "ready"],
              overlay |-> Hidden, posted |-> <<>>, timers |-> {}, translating |-> {},
              shown |-> [i \in Inputs |-> 0], dropped |-> {}, silenced |-> FALSE,
              late |-> FALSE]
  /\ dev = [d \in Devices |-> Silent]
  /\ count = [input |-> 0, event |-> 0]

-----------------------------------------------------------------------------
Found(c, k) == c.cycles[k] # None
HasActive(c, d) == c.active[d] # NoSession
IsActive(c, k) == c.active[k[1]] = k[2]
ActiveKey(c, d) == <<d, c.active[d]>>
Clear(c, k) == IF IsActive(c, k) THEN [c EXCEPT !.active[k[1]] = NoSession] ELSE c

\* Erasing a cycle destroys its ASR client.
Erase(c, k) == [c EXCEPT !.cycles[k] = None]
Drop(c, ks) == [c EXCEPT !.dropped = @ \cup {c.cycles[k].of : k \in {j \in ks : Found(c, j)}}]

SendUiState(c, d, state) ==
  IF d \in c.connected THEN [c EXCEPT !.ui[d] = state] ELSE c

TellReady(d) == [does |-> "ready", device |-> d]
UpgradePage == [does |-> "page"]
Callbacks == {NoCallback, UpgradePage} \cup {TellReady(d) : d \in Devices}
Run(c, callback) ==
  IF callback.does = "ready" THEN SendUiState(c, callback.device, "ready") ELSE c

\* DispatchToUi.  i is the recording a call is about.
Subtitle(i) == [call |-> "subtitle", of |-> i]
Displayed(c, call) ==
  IF call.call = "subtitle" THEN [c EXCEPT !.shown[call.of] = @ + 1]
  ELSE Run([c EXCEPT !.overlay = Applied(c.overlay, call)], Due(c.overlay, call))
Display(c, t, call, i) ==
  IF t = "ui" THEN Displayed(c, call)
  ELSE [c EXCEPT !.posted = Append(@, [call |-> call, of |-> i])]

CancelAudioEndTimeout(c, k) ==
  [c EXCEPT !.cycles[k].waiting = FALSE, !.cycles[k].generation = @ + 1]

FinishWithError(c, k, t) ==
  Display(Erase(Clear(Drop(c, {k}), k), k), t,
          ErrorText(TellReady(k[1])), c.cycles[k].of)

CancelKeepingCycle(c, k) ==
  Clear(SendUiState(Displayed(Drop(c, {k}), Hide(NoCallback)), k[1], "ready"), k)
CancelCycle(c, k) ==
  Erase(Clear(SendUiState(Displayed(Drop(c, {k}), Hide(NoCallback)), k[1], "ready"), k), k)

OfDevice(d) == {k \in Keys : k[1] = d}
EraseAll(c, ks) ==
  [Drop(c, ks) EXCEPT !.cycles = [k \in Keys |-> IF k \in ks THEN None ELSE @[k]],
                      !.active = [d \in Devices |->
                        IF \E k \in ks : k[1] = d THEN NoSession ELSE @[d]]]

-----------------------------------------------------------------------------
\* Audio; luck as in WinCoordinator.
SendOggOpusChunk(c, k, t, chunk, luck) ==
  LET cycle == c.cycles[k]
  IN  IF cycle.asr # "active" THEN c
      ELSE CASE luck \in {"ok", "refused"} -> [c EXCEPT !.cycles[k].fed = Append(@, chunk)]
             [] luck = "breaks" -> FinishWithError(c, k, t)
             [] luck = "silent" -> [c EXCEPT !.cycles[k].asr = "over", !.silenced = TRUE]

StartAsrAndFlush(c, k, t, luck) ==
  LET begun == [c EXCEPT !.cycles[k].started = TRUE, !.cycles[k].asr = "active",
                         !.cycles[k].buffered = <<>>]
  IN  CASE luck = "refused" -> FinishWithError(c, k, t)
        [] luck = "ok"      -> [begun EXCEPT !.cycles[k].fed = c.cycles[k].buffered]
        [] OTHER -> SendOggOpusChunk(begun, k, t, Head(c.cycles[k].buffered), luck)

SendOrBufferOggChunk(c, k, t, chunk, canStart, luck) ==
  IF c.cycles[k].started THEN SendOggOpusChunk(c, k, t, chunk, luck)
  ELSE LET kept == [c EXCEPT !.cycles[k].buffered = Append(@, chunk)]
       IN  IF canStart THEN StartAsrAndFlush(kept, k, t, luck) ELSE kept

Discarded(c, k, t) ==
  LET gone == Erase(Clear(Drop(c, {k}), k), k)
  IN  IF IsActive(c, k)
      THEN SendUiState(Display(gone, t, Hide(NoCallback), c.cycles[k].of), k[1], "ready")
      ELSE gone

SendFinalOggChunkIfNeeded(c, k, t, luck) ==
  LET ending == [CancelAudioEndTimeout(c, k) EXCEPT !.cycles[k].sentFinal = TRUE]
      cycle  == c.cycles[k]
      final  == [of |-> cycle.of, last |-> TRUE]
  IN  IF cycle.sentFinal THEN c
      ELSE IF ~cycle.started /\ ~cycle.half THEN Discarded(ending, k, t)
      ELSE IF ~cycle.heard THEN FinishWithError(ending, k, t)
      ELSE SendOrBufferOggChunk(ending, k, t, final, TRUE, luck)

CanStart(cycle) == cycle.half /\ ~cycle.waiting
CycleOfDevice(c, k) == IF HasActive(c, k[1]) THEN ActiveKey(c, k[1]) ELSE k
CycleOfFrame(c, k) == k
HandleAudioFrame(c, key, i, luck) ==
  LET k == CycleOfFrame(c, key)
  IN  IF ~Found(c, k) THEN c
      ELSE SendOrBufferOggChunk([c EXCEPT !.cycles[k].heard = TRUE], k, "ui",
                                [of |-> i, last |-> FALSE], CanStart(c.cycles[k]), luck)

HandleAudioEnd(c, k, luck) ==
  IF ~Found(c, k) THEN c
  ELSE SendFinalOggChunkIfNeeded(CancelAudioEndTimeout(c, k), k, "ui", luck)

-----------------------------------------------------------------------------
\* Buttons.
BeginWaitingForAudioEnd(c, k) ==
  LET next == c.cycles[k].generation + 1
  IN  IF c.cycles[k].waiting THEN c
      ELSE [c EXCEPT !.cycles[k].waiting = TRUE, !.cycles[k].generation = next,
                     !.timers = @ \cup {<<k, next>>}]

FinishAudioInput(c, k) ==
  IF c.mode = "hold" THEN SendUiState(Clear(c, k), k[1], "ready")
  ELSE SendUiState(c, k[1], "thinking")

\* Something of an earlier recording with this key is still to come.
Haunted(c, k) ==
  (\E x \in c.timers : x[1] = k) \/ (\E x \in c.translating : x.key = k)

Known(c, k) == IsActive(c, k) \/ Found(c, k)
HandlePrimaryButtonDown(c, k, i) ==
  IF Known(c, k) THEN c
  ELSE SendUiState(Displayed([c EXCEPT !.cycles[k] = NewCycle(i), !.active[k[1]] = k[2],
                                       !.late = @ \/ Haunted(c, k)], Listening),
                   k[1], "recording")

HandlePrimaryButtonUp(c, d) ==
  LET k == ActiveKey(c, d)
  IN  IF ~HasActive(c, d) THEN c
      ELSE IF ~c.cycles[k].half THEN CancelCycle(c, k)
      ELSE FinishAudioInput(BeginWaitingForAudioEnd(c, k), k)

HandlePrimaryClick(c, k, i) ==
  IF HasActive(c, k[1]) THEN HandlePrimaryButtonUp(c, k[1])
  ELSE HandlePrimaryButtonDown(c, k, i)

CancelSubtitleCyclesForDevice(c, d) ==
  SendUiState(Displayed(EraseAll(c, OfDevice(d)), Hide(NoCallback)), d, "ready")

HandleSecondaryButtonClick(c, d) ==
  IF HasActive(c, d) THEN CancelCycle(c, ActiveKey(c, d))
  ELSE IF \E k \in OfDevice(d) : Found(c, k) THEN CancelSubtitleCyclesForDevice(c, d)
  ELSE c

-----------------------------------------------------------------------------
\* What a worker or the translator calls.
ShouldHide(c, k) == IsActive(c, k) \/ ~HasActive(c, k[1])

ReadyIfIdle(c, d) == IF HasActive(c, d) THEN c ELSE SendUiState(c, d, "ready")
FinishActiveCycle(c, k, t, hide, i) ==
  LET j == IF HasActive(c, k[1]) THEN ActiveKey(c, k[1]) ELSE k
  IN  SendUiState(Erase(Clear(IF hide THEN Display(c, t, Hide(NoCallback), i) ELSE c, j), j),
                  k[1], "ready")
FinishCycle(c, k, t, hide, i) ==
  IF ~Found(c, k) THEN c
  ELSE Erase(ReadyIfIdle(
         Clear(IF hide THEN Display(c, t, Hide(NoCallback), i) ELSE c, k), k[1]), k)

ShowSubtitle(c, d, t, i) ==
  Display(IF HasActive(c, d) THEN c ELSE Display(c, t, Hide(NoCallback), i), t, Subtitle(i), i)

FinishWithFinalText(c, k, t, empty) ==
  LET i    == c.cycles[k].of
      done == [c EXCEPT !.cycles[k].finished = TRUE]
  IN  CASE c.cycles[k].finished -> c
        [] ~c.cycles[k].finished /\ empty -> FinishCycle(done, k, t, ShouldHide(done, k), i)
        [] ~c.cycles[k].finished /\ ~empty /\ k[1] \in Translating ->
             [done EXCEPT !.translating = @ \cup {[key |-> k, of |-> i, final |-> TRUE]}]
        [] ~c.cycles[k].finished /\ ~empty /\ k[1] \notin Translating ->
             FinishCycle(ShowSubtitle(done, k[1], t, i), k, t, ShouldHide(done, k), i)

Partially(c, k, t) ==
  LET shown == Display(c, t, Partial, c.cycles[k].of)
  IN  IF HasActive(c, k[1]) /\ ~IsActive(c, k) THEN c
      ELSE IF IsActive(c, k) /\ c.cycles[k].sentFinal THEN SendUiState(shown, k[1], "thinking")
      ELSE shown

Segmented(c, k, t) ==
  LET i == c.cycles[k].of
      hidden == Display(c, t, Hide(NoCallback), i)
  IN  IF ~IsActive(c, k) \/ c.mode # "click" THEN c
      ELSE IF k[1] \in Translating
           THEN [hidden EXCEPT !.translating = @ \cup {[key |-> k, of |-> i, final |-> FALSE]}]
           ELSE ShowSubtitle(hidden, k[1], t, i)

\* ShowCloudUpgrade, after the error, by what is left of the destroyed client.
UpgradeNotice(c, d, t, i) ==
  Display(SendUiState(c, d, "ready"), t, Hide(UpgradePage), i)

Counted(what) == count' = [count EXCEPT ![what] = @ + 1]

\* The worker of cycle k leaves its mutex with something to report.
AsrResult(k) ==
  /\ Found(app, k) /\ app.cycles[k].asr = "active" /\ app.cycles[k].tells = "nothing"
  /\ count.event < MaxEvents
  /\ \/ \E what \in {"partial", "segment"} : app' = [app EXCEPT !.cycles[k].tells = what]
     \/ app' = [app EXCEPT !.cycles[k].asr = "over", !.cycles[k].tells = "error"]
     \/ app' = [app EXCEPT !.cycles[k].asr = "over", !.silenced = TRUE]
  /\ Counted("event")
  /\ UNCHANGED dev

AsrFinal(k) ==
  /\ Found(app, k) /\ app.cycles[k].asr = "active" /\ app.cycles[k].tells = "nothing"
  /\ \E j \in DOMAIN app.cycles[k].fed : app.cycles[k].fed[j].last
  /\ \E text \in {"final", "empty"} :
       app' = [app EXCEPT !.cycles[k].asr = "over", !.cycles[k].tells = text]
  /\ UNCHANGED <<dev, count>>

AsrReported(k) ==
  /\ Found(app, k) /\ app.cycles[k].tells # "nothing"
  /\ LET tells == app.cycles[k].tells
         c == [app EXCEPT !.cycles[k].tells = "nothing"]
         failed == FinishWithError(c, k, "worker")
     IN  \/ tells = "partial" /\ app' = Partially(c, k, "worker")
         \/ tells = "segment" /\ app' = Segmented(c, k, "worker")
         \/ tells = "error" /\ app' \in {failed, UpgradeNotice(failed, k[1], "worker", c.cycles[k].of)}
         \/ /\ tells \in {"final", "empty"}
            /\ app' = FinishWithFinalText(c, k, "worker", tells = "empty")
  /\ UNCHANGED <<dev, count>>

\* The translator finds the cycle by its key again.
Translated(x) ==
  /\ x \in app.translating
  /\ LET c == [app EXCEPT !.translating = @ \ {x}]
         shown == ShowSubtitle(c, x.key[1], "translator", x.of)
         failed == Display(c, "translator", ErrorText(NoCallback), x.of)
     IN  \/ /\ app' = IF x.final
                      THEN FinishCycle(shown, x.key, "translator", ShouldHide(c, x.key), x.of)
                      ELSE shown
            /\ UNCHANGED count
         \/ /\ count.event < MaxEvents
            /\ app' = IF x.final THEN FinishCycle(failed, x.key, "translator", FALSE, x.of)
                      ELSE failed
            /\ Counted("event")
  /\ UNCHANGED dev

-----------------------------------------------------------------------------
\* The UI thread, the audio-end timeouts, and the ends of a cycle that nobody
\* recording it chose.
\* A partial result that outlives its cycle, with no call behind it that hides it.
Superseded(c) ==
  LET of(post) == post.of = Head(c.posted).of
  IN  /\ Head(c.posted).call = Partial
      /\ \A k \in Keys : c.cycles[k].of # Head(c.posted).of
      /\ \A n \in 2..Len(c.posted) : of(c.posted[n]) => c.posted[n].call.call # "hide"
UiMessage ==
  /\ app.posted # <<>>
  /\ LET first == Head(app.posted)
     IN  app' = Displayed([app EXCEPT !.posted = Tail(@),
                                      !.late = @ \/ Superseded(app)], first.call)
  /\ UNCHANGED <<dev, count>>

OverlayTimer ==
  /\ app.overlay.timed
  /\ app' = Displayed(app, Hide(NoCallback))
  /\ UNCHANGED <<dev, count>>

\* The thread of a timeout sleeps to its end, also when it is cancelled.
StillActive(c, k, n) == Found(c, k) /\ c.cycles[k].waiting /\ IsActive(c, k)
StillWaits(c, k, n) == Found(c, k) /\ c.cycles[k].waiting /\ c.cycles[k].generation = n
AudioEndTimeout(luck) ==
  \E x \in app.timers :
    LET c == [app EXCEPT !.timers = @ \ {x}]
    IN  app' = IF StillWaits(c, x[1], x[2])
               THEN SendFinalOggChunkIfNeeded(c, x[1], "timeout", luck) ELSE c

Busy(c) == \E k \in Keys : Found(c, k)

UpdateConfig ==
  /\ count.event < MaxEvents
  /\ LET told == [app EXCEPT !.ui = [d \in Devices |-> IF d \in app.connected THEN "ready" ELSE @[d]]]
         c == IF Busy(app) THEN Displayed(EraseAll(told, Keys), Hide(NoCallback)) ELSE app
     IN  app' = [c EXCEPT !.mode = IF @ = "hold" THEN "click" ELSE "hold"]
  /\ Counted("event")
  /\ UNCHANGED dev

\* A device that restarts counts its recordings from 1 again.
DeviceLost(d) ==
  /\ d \in app.connected
  /\ count.event < MaxEvents
  /\ LET c == [app EXCEPT !.connected = @ \ {d}]
     IN  app' = IF \E k \in OfDevice(d) : Found(c, k)
                THEN Displayed(EraseAll(c, OfDevice(d)), Hide(NoCallback)) ELSE c
  /\ \E next \in {NoSession, dev[d].session} :
       dev' = [dev EXCEPT ![d] = [Silent EXCEPT !.session = next]]
  /\ Counted("event")

DeviceBack(d) ==
  /\ d \notin app.connected
  /\ app' = [app EXCEPT !.connected = @ \cup {d}, !.ui[d] = "ready"]
  /\ UNCHANGED <<dev, count>>

HalfSecond(k) ==
  /\ Found(app, k) /\ ~app.cycles[k].half
  /\ app' = [app EXCEPT !.cycles[k].half = TRUE]
  /\ UNCHANGED <<dev, count>>

-----------------------------------------------------------------------------
\* The devices, as in WinCoordinator.
Press(d) ==
  /\ d \in app.connected /\ dev[d].up
  /\ count.input < MaxInputs
  /\ dev' = [dev EXCEPT ![d] =
       [session |-> @.session + 1, input |-> count.input + 1,
        down |-> FALSE, up |-> FALSE, frames |-> 0, ended |-> FALSE,
        tail |-> IF @.ended THEN NoTail
                 ELSE [session |-> @.session, input |-> @.input, frames |-> @.frames]]]
  /\ Counted("input")
  /\ UNCHANGED app

KeyOf(d) == <<d, dev[d].session>>

ButtonDown(d) ==
  /\ ~dev[d].down /\ ~dev[d].up
  /\ app' = IF app.mode = "click" THEN HandlePrimaryClick(app, KeyOf(d), dev[d].input)
            ELSE HandlePrimaryButtonDown(app, KeyOf(d), dev[d].input)
  /\ dev' = [dev EXCEPT ![d].down = TRUE]
  /\ UNCHANGED count

\* The click that ends a recording the coordinator gave up begins it anew.
ButtonUp(d) ==
  /\ dev[d].down /\ ~dev[d].up
  /\ app' = IF app.mode = "hold" THEN HandlePrimaryButtonUp(app, d)
            ELSE HandlePrimaryClick([app EXCEPT !.late = @ \/ ~HasActive(app, d)],
                                    KeyOf(d), dev[d].input)
  /\ dev' = [dev EXCEPT ![d].up = TRUE]
  /\ UNCHANGED count

SideClick(d) ==
  /\ d \in app.connected
  /\ count.event < MaxEvents
  /\ app' = HandleSecondaryButtonClick(app, d)
  /\ app' # app
  /\ Counted("event")
  /\ UNCHANGED dev

\* Audio comes in order, or not at all.
Frame(d, luck) ==
  /\ ~dev[d].ended /\ dev[d].frames < MaxFrames
  /\ app' = HandleAudioFrame(app, KeyOf(d), dev[d].input, luck)
  /\ dev' = [dev EXCEPT ![d].frames = @ + 1, ![d].tail = NoTail]

End(d, luck) ==
  /\ dev[d].down /\ ~dev[d].ended
  /\ app' = HandleAudioEnd(app, KeyOf(d), luck)
  /\ dev' = [dev EXCEPT ![d].ended = TRUE, ![d].tail = NoTail]

TailFrame(d, luck) ==
  LET tail == dev[d].tail
  IN  /\ tail # NoTail /\ tail.frames < MaxFrames
      /\ app' = HandleAudioFrame(app, <<d, tail.session>>, tail.input, luck)
      /\ dev' = [dev EXCEPT ![d].tail.frames = @ + 1]

TailEnd(d, luck) ==
  LET tail == dev[d].tail
  IN  /\ tail # NoTail
      /\ app' = HandleAudioEnd(app, <<d, tail.session>>, luck)
      /\ dev' = [dev EXCEPT ![d].tail = NoTail]

Audio(luck) ==
  /\ luck # "ok" => count.event < MaxEvents
  /\ \/ \E d \in Devices : \/ Frame(d, luck) \/ End(d, luck)
                        \/ TailFrame(d, luck) \/ TailEnd(d, luck)
     \/ (AudioEndTimeout(luck) /\ UNCHANGED dev)
  /\ IF luck = "ok" THEN UNCHANGED count ELSE Counted("event")

Next ==
  \/ \E luck \in {"ok", "refused", "breaks", "silent"} : Audio(luck)
  \/ \E d \in Devices : \/ Press(d) \/ ButtonDown(d) \/ ButtonUp(d) \/ SideClick(d)
                        \/ DeviceLost(d) \/ DeviceBack(d)
  \/ \E k \in Keys : AsrResult(k) \/ AsrFinal(k) \/ AsrReported(k) \/ HalfSecond(k)
  \/ \E x \in app.translating : Translated(x)
  \/ UiMessage \/ OverlayTimer \/ UpdateConfig

Spec == Init /\ [][Next]_vars

\* Every thread is scheduled, the timers fire, service and translator answer.
Fairness ==
  /\ WF_vars(UiMessage) /\ WF_vars(OverlayTimer)
  /\ WF_vars(AudioEndTimeout("ok") /\ UNCHANGED <<dev, count>>)
  /\ WF_vars(\E x \in app.translating : Translated(x))
  /\ \A k \in Keys : WF_vars(AsrFinal(k)) /\ WF_vars(AsrReported(k))

FairSpec == Spec /\ Fairness

-----------------------------------------------------------------------------
Chunks == Seq([of : Inputs, last : BOOLEAN])

Cycle ==
  [of : Inputs, half : BOOLEAN, heard : BOOLEAN, buffered : Chunks, started : BOOLEAN,
   sentFinal : BOOLEAN, finished : BOOLEAN, waiting : BOOLEAN, generation : Nat,
   asr : {"idle", "active", "over"}, fed : Chunks,
   tells : {"nothing", "partial", "segment", "error", "final", "empty"}]

Call ==
  {Listening, Partial} \cup {Subtitle(i) : i \in Inputs}
  \cup {ErrorText(done) : done \in Callbacks} \cup {Hide(done) : done \in Callbacks}

App ==
  [cycles : [Keys -> Cycle \cup {None}], active : [Devices -> 0..MaxInputs],
   mode : {"hold", "click"}, connected : SUBSET Devices,
   ui : [Devices -> {"ready", "recording", "thinking"}], overlay : Overlays(Callbacks),
   posted : Seq([call : Call, of : Inputs]), timers : SUBSET (Keys \X Nat),
   translating : SUBSET [key : Keys, of : Inputs, final : BOOLEAN],
   shown : [Inputs -> Nat], dropped : SUBSET Inputs, silenced : BOOLEAN, late : BOOLEAN]

Sending ==
  [session : 0..MaxInputs, input : 0..MaxInputs, down : BOOLEAN, up : BOOLEAN,
   frames : 0..MaxFrames, ended : BOOLEAN,
   tail : [session : 0..MaxInputs, input : 0..MaxInputs, frames : 0..MaxFrames]]

TypeOK ==
  /\ app \in App
  /\ dev \in [Devices -> Sending]
  /\ count \in [input : 0..MaxInputs, event : 0..MaxEvents]

(* A cycle's ASR session gets the audio of its own recording only, though  *)
(* a device that restarted uses session numbers again, and is told of its  *)
(* end once, though the timeout and the device's end marker both tell it.  *)
FedItsOwn ==
  \A k \in Keys : Found(app, k) =>
    LET fed == app.cycles[k].fed
    IN  \A j, l \in DOMAIN fed : /\ fed[j].of = app.cycles[k].of
                                 /\ fed[j].last /\ fed[l].last => j = l

(* docs/protocol.md:339, "On button release, it sends the final Ogg chunk  *)
(* with the WebSocket last-packet flag and waits for the final response":  *)
(* no audio follows the end of a recording.  Does not hold: frames that    *)
(* come after the timeout's final chunk are still handed to the ASR client *)
(* (voice_stick_coordinator.cc:650).                                       *)
EndIsLast ==
  \A k \in Keys : Found(app, k) =>
    LET fed == app.cycles[k].fed IN \A j \in DOMAIN fed : fed[j].last => j = Len(fed)

\* Device d is recording, as far as the coordinator knows.
Recording(c, d) ==
  /\ HasActive(c, d)
  /\ LET cycle == c.cycles[ActiveKey(c, d)] IN ~cycle.waiting /\ ~cycle.sentFinal

(* What becomes of earlier recordings leaves the cycle of a device that is *)
(* recording alone: it goes only if it is cancelled or fails itself.  Not  *)
(* so when a timeout or translation of an earlier recording of the device  *)
(* finds the same key.                                                     *)
RecordingGoesOn ==
  [][\A d \in Devices : Recording(app, d) /\ ~app.late =>
       LET k == ActiveKey(app, d)
       IN  app.cycles[k].of \notin app'.dropped => app'.cycles[k].of = app.cycles[k].of]_vars

(* No subtitle of a recording is asked for after it was cancelled, unless  *)
(* it was at the translator then, or the click that was to end it began it *)
(* anew.                                                                   *)
DroppedNotShown ==
  [][\A i \in app.dropped :
       LET asked(c) == Cardinality({n \in DOMAIN c.posted : c.posted[n].call = Subtitle(i)}) + c.shown[i]
       IN  asked(app') > asked(app) => app.late \/ \E x \in app.translating : x.of = i]_vars

\* The device sends nothing more of the recording of k.
Released(k) == dev[k[1]].up \/ dev[k[1]].input # app.cycles[k].of

(* Each released recording comes to its end, whether the end marker comes, *)
(* the timeout stands in for it, or the service fails, and the overlay     *)
(* goes with the last, unless an ASR session ends without a report or a    *)
(* partial result outlives its recording.                                  *)
CyclesEnd ==
  [](~app.silenced /\ ~app.late) =>
    []<>(/\ \A k \in Keys : Found(app, k) => ~Released(k)
         /\ app.overlay.mode = "hidden" \/ Busy(app))
=============================================================================
