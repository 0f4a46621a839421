# VoiceStick in TLA+

VoiceStick is a push-to-talk microphone.  A StickS3 (an ESP32 with a codec, a
display, a front and a side button) records speech, encodes it with Opus and
sends it over Bluetooth LE to a desktop application, which streams it to a
speech-recognition service and pastes the final text where the cursor is.

This directory holds TLA+ modules that model the program, the TLC
configurations that check them on small instances, and proofs that TLAPS checks
for every value of the constants.  `PROJECT.json` relates each definition to the
lines it models, each run to its properties, and each property to a mutation of
the code that breaks it.

    tlc -config AudioPath_sessions.cfg MCAudioPath.tla
    tlc -config DeviceController_hold.cfg DeviceController.tla
    tlc -config WinCoordinator_inputs.cfg WinCoordinator.tla
    tlapm AudioPathProofs.tla
    tlapm DeviceProofs.tla
    tlapm FirmwareUpdateProofs.tla
    tlapm AsrClientWinProofs.tla
    tlapm WinCoordinatorProofs.tla
    tlapm SubtitleCyclesProofs.tla
    tlapm WinPairingProofs.tla
    tlapm WinFirmwareInfoProofs.tla

The firmware and the audio path to the macOS client, which alone speaks the
windowed transport, are modelled from C and Swift; everything the desktop does
with the audio is modelled from the Windows client, whose threads make it the
harder of the two.

## The system

### Parts

| part | state it keeps | operations |
|---|---|---|
| `firmware/main/main.c`, device controller | UI state, recording flag, session number, interaction mode, update flag, power locks, a queue of 12 events | one task serves buttons, link events, UI states of the app, update events, power interrupts and timers |
| `voice_ble.c`, link | connection, two subscriptions, MTU, transport version, session and ACK counter, connection interval and a pending request | NimBLE callbacks; readiness, window, notifications and interval requests for the other tasks |
| `voice_ble.c`, OTA receiver | active transfer, sizes, partition handle | begin, chunk, finish, abort, error, progress notifications |
| `audio_pipeline.c` | running flag, session, sequence number, packet queue, transport profile, two task handles, codec and encoder | start, stop, capture task, transmit task |
| `audio_transport.c` | none | sizes and encoding of an audio notification |
| `audio_feedback.c`, `ui_status*.c`, `stick_s3_*.c` | sound, display, board registers | tones, drawing, drivers |
| macOS `BleCentral`, `BleProtocol` | devices by phase, characteristics, update in progress | scanning and pairing, negotiation, ACKs, UI states, update chunks |
| macOS `VoiceStickCoordinator`, `SideButtonSendState` | main input state with its device and session, pending paste, subtitle cycle, queued Return, last text | buttons, audio, ASR results, timeouts, overlay completions, configuration |
| macOS `ASRWebSocketClient` | socket, current session, chunks not yet sent, flags of the last chunk and the final result | begin, send, finish, cancel, receive loop |
| macOS `OverlayController` | panel, generation, completion | show, final text with delay, hide |
| macOS `FirmwareManifest`, update window | manifest, phase | version comparison, confirmation, progress |
| macOS `OggOpusMuxer` | page sequence, granule position | headers, pages, end of stream |
| macOS `AppDelegate`, `StatusController`, `AppConfig`, `*WindowController`, `LLMTranslationClient`, `VoiceStickCloudAPI`, `InputInjector`, `SubtitleController`, `DebugAudioRecorder` | user interface, configuration, one-shot requests | menus, dialogs, TOML, HTTP, key events |
| Windows `voice_stick_coordinator.cc` | session state with its device and session, pending paste, subtitle cycles, list of paired devices, firmware information and manifest check | device events, ASR and translator callbacks, timeouts, configuration, pairing, manifest checks |
| Windows `ble_central_win.cc` | paired ids, sessions by device, addresses being connected, cancelled ids, watcher, update session | scan, connect in some twenty asynchronous steps, loss of the link, forgetting, update sender |
| Windows `asr_client_win.cc` | connection and session state, queue of chunks, one worker thread | start, send, finish, cancel, receive loop, failures |
| Windows `win32_app.cc`, `overlay_window.cc`, `pair_device_dialog.cc`, `firmware_update_dialog.cc`, `app_config.cc` | overlay mode, timer and callback; the dialog's list, the device being paired; posted calls; configuration file | UI calls from any thread, timers, pairing, update dialog, saving the list |
| Windows `firmware_manifest.cc` | none | fetch, comparison of versions |
| website, scripts, vendored cJSON and toml++ | | not part of the running system |

### How they interact

A press is queued by the button driver for `app_event_task`, which checks that
the link is ready, takes a session number, plays a sound and starts the pipeline
with that number.  The capture task reads and encodes 60 ms at a time and puts
packets in a FreeRTOS queue; the transmit task takes them out, gathers a bundle,
waits for the acknowledgement window and gives the bundle to NimBLE.  The app
parses each notification, acknowledges it with a write (v2), and hands its
frames to the coordinator, which muxes them into Ogg and feeds the ASR client.
Releasing the button stops the capture task, whose last act is to queue a
sentinel; the transmit task turns it into an end marker, waits for the capture
task to go and frees the codec.  The app in turn writes UI states ("thinking",
"pending_confirmation", ...) that decide what the device's buttons mean.

On Windows the WinRT callbacks hand device events to the UI thread, which runs
the coordinator; audio frames are taken on the thread that delivers them.  The
ASR client's worker, the translator's thread and the audio-end timeout call the
coordinator from their own threads, and reach the overlay by posting to the UI
thread.  The manifest check has a thread, the hourly check another.  Connects
run as coroutines that move between the UI thread and the pool.

Five kinds of concurrency meet: FreeRTOS tasks on two cores that share statics,
the NimBLE host task and its callbacks, messages both ways over a link that may
go at any time, the desktop's threads with few locks between them, and calls
posted to the UI thread, which arrive after the state they were made for.

### What is hard, and what makes each part correct

`PROJECT.json` lists the hazards at their lines.  By part:

* *Audio path*: a recording started while the last one's tasks still run; a full
  queue; the sentinel against the last frame; a failed task creation; a link that
  is lost, renegotiated or gone for a moment; lost ACKs.  Correct when each
  recording reaches the app as an ordered part of what was captured, followed by
  its end, when nothing of one recording is sent in the next, when the amount of
  audio not acknowledged stays bounded, and when a stopped recording always
  frees its tasks and the codec.
* *Link*: advertising that does not start, a NimBLE reset, two tasks that share the
  pending interval request.  Correct when the device is found again after every
  lost connection, and the last request for an interval is heard.
* *Device controller*: events dropped by a full queue; a mode change in the
  middle of a press; a firmware update while recording.  Correct when a
  recording never outlives the press (or the click) that should end it, and the
  power locks follow the recording.
* *Firmware update*: chunks against progress, errors, cancellation and
  disconnections, on three threads of the client.  Correct when the device boots
  one whole image, success is said only of an image that boots, the partition
  handle is freed once, and each update ends.
* *Coordinator and overlay*: late results, timeouts that race with the end of
  the audio, text shown while another recording begins, two devices.  Correct
  when audio goes to the recognition of its own recording, each text is pasted
  at most once and not after it was cancelled, devices are told the state they
  are in, and nothing stays in "thinking" forever.
* *ASR client*: two threads, one socket, sessions that overlap on the wire.
  Correct when audio and text stay with their session, and each session ends
  once and is reported at most once.
* *Pairing and BLE central*: connects that fail at any step, a list kept in four
  places, a dialog whose messages carry no device.  Correct when a device has one
  connect or one session, the lists agree, and paired devices are reconnected.
* *Firmware information*: three threads refresh, prompt and publish.  Correct
  when the user is asked once, the menu ends up with what is known, and a check
  always ends.

## Modules

    AudioTransport           sizes, encoder, parser, profile       (no state)
      VoiceBleAudio          the link and the window               (NimBLE host task)
        AudioPipeline        the capture and transmit tasks        (three tasks)
          AudioPath          the composition with the app; properties; invariants
            AudioPathProofs  theorems and proofs
            MCAudioPath      values for TLC
      VoiceBleLink           advertising, intervals, the profile   (two tasks)
    AudioStream              what the audio path promises          (abstract)
    DeviceController         app_event_task and all that feeds it; properties
      DeviceProofs           theorems and proofs about it, and about VoiceBleLink
    FirmwareUpdate           the device's OTA receiver and the Windows sender
      FirmwareUpdateProofs   theorems and proofs
    AsrOutcomes              what an ASR client promises         (abstract)
    AsrClientWin             the reusable WebSocket and its two threads
      AsrClientWinProofs     theorems and proofs
    WinOverlay               the overlay window, its timer and callback
      WinCoordinator         recordings that are typed, two devices
        WinCoordinatorProofs theorems and proofs
      SubtitleCycles         recordings that become subtitles
        SubtitleCyclesProofs theorems and proofs
    WinBleCentral            scan, connects, sessions
      WinPairing             and the dialog, the coordinator, the file; properties
        WinPairingProofs     theorems and proofs
    WinFirmwareInfo          manifest checks, comparison, prompt
      WinFirmwareInfoProofs  theorems and proofs
      MCWinFirmwareInfo      versions for TLC

Each audio module `EXTENDS` the one above it; `AudioPath` instantiates
`AudioStream` with a refinement mapping, `AsrClientWin` instantiates
`AsrOutcomes`, whose outcomes are also all that `WinCoordinator` and
`SubtitleCycles` assume of their ASR clients.

**AudioTransport** translates `audio_transport.c`, `configure_transport_profile`
and the app's `parseAudioBatch` as operators.  A packet is a sequence number,
flags and a length; a notification is the record of its fields.

**VoiceBleAudio** has one variable per static of `voice_ble.c` that audio
depends on, and one action per NimBLE event.  `air` and `control` are the two
directions of the link: notifications NimBLE accepted and the app has not seen,
writes the device has not seen.  Both are ordered, and lost with the connection.
`ackInHand` is the instant between the two statements of `control_access_cb`
that handle an ACK, the comparison and the store; the other tasks may run there,
and a recording may begin.  `crossed` is a history: in this recording's window an
ACK was stored that had been compared with an earlier one's.

**VoiceBleLink** is the rest of `voice_ble.c`: advertising and its retry, the
connection, and the requests for a fast or slow connection interval.  `host` and
`event` say where the NimBLE host task and `app_event_task` are in
`voice_ble_request_fast_interval` or `_slow_interval`: before the check, before
`ble_gap_update_params`, before the store that follows.  `itvlTarget`,
`itvlUpdatePending` and `retryArmed` are the statics; `updating` and `asked` are
NimBLE's, `gaveUp`, `refused` and `crossed` remember what a property excepts.  A
recording's profile is chosen here too, with every MTU at hand.  `linked` is
`s_connected`; it, `BleInit`, `BleNext`, `BleSpec` and the like are named apart from
their counterparts of `DeviceController`, so that one module proves about both.

**AudioPipeline** has the statics of `audio_pipeline.c` and a program counter
for each of the three tasks.  A task runs to the point where another can see or
change what it uses next: blocking calls, and the shared statics.  What can fail
in the code fails here by choice: codec and encoder, each resource of a start,
each task creation, NimBLE's buffers.

| variable | code |
|---|---|
| `running`, `sessionId`, `seq`, `queue`, `profile` | `s_running`, `s_session_id`, `s_seq`, `s_tx_queue`, `s_transport_profile` |
| `audioTask`, `txTask` | `s_audio_task`, `s_tx_task` ("none" when NULL), and where the task is |
| `bundle`, `stopping`, `endSeq`, `retries` | locals of `tx_task` |
| `resources` | codec, encoder and I2S channel exist |
| `caller`, `nextSession` | where `app_event_task` is in a start; `s_session_id` of `main.c` |

**AudioPath** adds the app's `BleCentral` (`controlKnown`, and `heard`: per
recording, what `onAudioFrame` was given) and a history variable (`recorded`).

**AudioStream** is the promise to the coordinator: recordings one after another;
of each, some of its frames in the order of capture, none twice, then at most
one end marker that comes after capture is over, and nothing after it.

**DeviceController** is `main.c`: one action per event of `app_event_task`, or
several where the handler waits (the start sound, up to 900 ms for the audio
tasks, up to 200 ms for the button to settle) and the other tasks go on; one for
each callback, timer and interrupt that fills the queue; deep sleep, waking up
and the restart after an update.  Of the audio pipeline it has `running` alone,
of the link what `voice_ble.c` tells `main.c`: `AudioPath` has the rest.  The
variables are the statics of `main.c` with their names in TLA+ style;

| variable | code |
|---|---|
| `externalPower`, `supply` | `s_battery_charging \|\| s_usb_powered`, and what the board would say |
| `primaryDown` | `s_primary_down_us` is not 0 |
| `dimTimer`, `sleepTimer` | the timer is armed; an armed one may fire at any time |
| `dimming` | `display_dim_timer_cb` has checked the flags and not yet set the brightness |
| `update` | `s_ota.active`, and the half second before `esp_restart` |
| `panel` | the display's panel and supply, which `enter_deep_sleep` switches off |
| `task` | the wait `app_event_task` is in, "idle" when it is in `xQueueReceive` |
| `announced` | (of the app) the recording it was told of and whose end it was not, on this connection |

The constants `Modes`, `UiStates` and `Sources` say what may happen around the
device, `Exhaustion` whether the queue may overflow and a notification fail for
want of a buffer.

**FirmwareUpdate** composes `ota_begin`, `ota_write_data`, `ota_finish`,
`ota_abort` and the restart with the sender coroutine `UpdateFirmwareAsync`, the
download thread, `CancelFirmwareUpdate`, `HandleFirmwareOtaStateEvent` and
`HandleDeviceDisconnected`.  An image is a sequence of chunks, each of its update
and its offset; `slot` is what the partition holds and `boot` what the device
boots.  A client step ends where the code leaves the mutex or awaits, so that
`firmware_update_session_` can change under the sender.  `handles` counts the
partition handles that were begun and not ended; `strayed` is a history of those
whose state an abort of another transfer cleared.

**AsrClientWin** has a queue of calls left for each of its two threads
(`calls[t]`): a step is one stretch under the mutex or one call outside it
(a send, a callback, a join).  The client refuses nothing that comes after the
last chunk, and `SendReusableAudio` may be called with more.  The service is an external part that reads frames
in order, opens and finishes sessions, or fails.  `fate` and `told` are the
history `AsrOutcomes` speaks of.

**WinCoordinator** is `voice_stick_coordinator.cc` while the output is a paste.
`app` is one record with a field per member (`state` is `session_state_`,
`pending` is `pending_paste_state_`, and so on) and the overlay; handlers are
operators on that record, so that a handler that calls another is composed as in
the code.  `dev[d]` is what device d sends; `worker` is the callback the ASR
worker is about to run.  `late` is a history flag: a callback or an overlay call
was met after the state it was made for was over.

**SubtitleCycles** is the same file while the output is subtitles: a function
from device and session number to the cycle, each with its own ASR client.
`fed` is what that client was given, in order, with what comes after the end.

**WinBleCentral** and **WinPairing** have a record per connect (a slot stands
for the `DeviceSession` object), the table of sessions, the sets of addresses
under way and of cancelled ids, and the four copies of the list of paired
devices: `paired` (central), `confirmed` (coordinator), `configured` (its
configuration) and `file`.  `posted` is the UI thread's message queue.

**WinFirmwareInfo** has the steps that the UI thread and the hourly thread have
yet to do (`todo`), the check's own thread (`check`), and the firmware
information by device.  Versions are compared as `firmware_manifest.cc` does.

The `TypeOK` of these modules records the ranges of their variables; it is not
among the properties of the runs, which are spent on what could be wrong.  That
of every specification is proved (`VoiceBleLink` calls its own `BleTypeOK`).

## What the runs check

| run | question | properties |
|---|---|---|
| `link` | is the device found again, is the last request for an interval heard, and does a recording's profile suit its link, at and next to each MTU where the bundle size changes? | `Discoverable`, `LastRequestHeard`, `ProfileCarries` |
| `sessions` | do the tasks hand over cleanly between two recordings, and is flow control sound through retries, drops, lost ACKs and reconnections? | `EndClosesCapture`, `ResourcesOwned`, `AirWithinWindow`, `AckedWasHeard` |
| `stream` | what does the app hear when the queue overflows, and does the recording end? `AudioPath` implements `AudioStream` | `StreamDelivered`, `StopCompletes` |
| `device_hold` | does a recording follow its press through reconnections, updates and sleeps? | `HeldWhileRecording`, `UpdateStopsRecording`, `IdleSleeps`, `ReleaseAnnounced`, `ReleaseStops` |
| `device_any` | do pipeline, locks and flags agree when events are lost and modes change? | `ResourcesFollow` |
| `firmware_updates` | two updates, with cancellations, lost writes, notifications and links | `BootsSentImage`, `SuccessIsInstalled`, `HandleOwned`, `UpdateEnds` |
| `asr_sessions` | three sessions over one socket, fed also after their last chunk: `AsrClientWin` implements `AsrOutcomes` | `AudioOfItsOwn`, `FinalIsItsOwn`, `KeepsPromise`, `SessionsEnd` |
| `coordinator` | two recordings of two devices, one of them translating | `UiAgrees`, `FedItsOwn`, `TypedOnce`, `DroppedNotTyped`, `Settles` |
| `subtitles` | subtitle cycles of two devices that may restart and use numbers again | `FedItsOwn`, `RecordingGoesOn`, `DroppedNotShown`, `CyclesEnd` |
| `pairing` | connects that fail anywhere, lost links, a user who pairs and forgets | `OneConnect`, `ListsAgree`, `LostIsForgotten`, `SavedHasAnswered`, `Reconnects` |
| `firmware_info` | checks begun by start, hour, settings and pairings | `PromptedOnce`, `ShownSettles`, `ChecksEnd` |
| `pairing_forgotten` | is only a paired device served? No: a pairing that fails leaves its device among those the central connects | `OnlyPairedServed` (violated) |

The last run states what `docs/protocol.md:32` says and is listed as a finding.

### Known divergences

Modelling met other places where the code does not do what a document says, or
what one would want.  The formula of each is in the module, with "does not hold"
in its comment, or is a property of a run under a stronger assumption; the last
column says which change shows it.

| where | what happens | to see it |
|---|---|---|
| `voice_ble.c:412` | an ACK compared before a recording begins and stored after it counts for the new one (`protocol.md:116`) | `AudioPath_acks_crossed.cfg` with `MCAudioPath`: `AckProvesDelivery` |
| `audio_pipeline.c:372` | a recording configured before the app asks for v2 is sent as v2 without the window (`protocol.md:114`) | `sessions` with `TwoBundlesInFlight` |
| `BleProtocol.swift:21` | `next_seq` passes over frames the device gave up, though it is to be the first not received (`protocol.md:110`) | `sessions` with `AckIsCumulative` |
| `voice_ble.c:920` | an update ends between BLE_HS_EALREADY and the store of the pending flag, or a second request gets in between: the deferred request is not repeated, and a recording may stay on the slow interval | `LastRequestHeard` without its exception `crossed` |
| `voice_ble.c:621`, `:631` | when the advertising data cannot be set, or `on_sync` has no address, nothing tries again: the device is not found until NimBLE resets | `Discoverable` without its exception `gaveUp` |
| `main.c:425` | a full event queue drops the release; the recording goes on (`protocol.md:182`) | `device_hold` with `QueueLength = 1`, `Exhaustion = TRUE`: `HeldWhileRecording` |
| `main.c:712` | the loss of the link ends a recording without restarting the timers; in click to talk the device then never sleeps (`protocol.md:285`) | `device_hold` with `Modes = {"click_to_talk"}`: `IdleSleeps` |
| `main.c:327` | a press in the last 200 ms before deep sleep aborts it with the display off | `device_any` with `AwakeIsLit` |
| `ble_central_win.cc:1209`, `:378` | an update cancelled during the download, or as the last progress event arrives, is installed all the same (`protocol.md:275`) | `firmware_updates` with `CancelKeepsFirmware` |
| `ble_central_win.cc:1171` | one lost progress notification stops the sender for good: this wait has no limit | `UpdateEnds` without its exception `lost` |
| `ble_central_win.cc:365` | between two stretches under the mutex the update session may be gone; the sender writes through a characteristic that the loss of the link set to null | `UpdateEnds` without its exception `crashed` |
| `voice_stick_coordinator.cc:650` | subtitle frames that come after the timeout sent the final chunk go to the recognition after it; `asr_client_win.cc:486` queues them, `:306` sends them (`protocol.md:339`) | `SubtitleCycles_sent_on.cfg`: `EndIsLast` |
| `asr_client_win.cc:412` | the next chunk may be sent before the buffered ones (`protocol.md:339`) | `asr_sessions` with `AudioInOrder` |
| `asr_client_win.cc:394` | a connection that the service finishes leaves the session active and unreported; no other starts until it is cancelled | `SessionsEnd` without its exception `link = "ended"` |
| `voice_stick_coordinator.cc:1321` | a press queued before the countdown is shown pauses nothing: the countdown runs and pastes (repository `README.md:41`) | `coordinator` with `PausedStays` |
| `voice_stick_coordinator.cc:359` | in click to talk, after the app gave a recording up, the click that ends it at the device begins it anew at the app (`protocol.md:183`) | `coordinator` with `InitialMode = "click"` and `SecondClickStops` |
| `voice_stick_coordinator.cc:1166` | the previous check's thread is joined under the mutex that thread still needs: both are stuck, and the UI thread with them | `firmware_info` with `NeverStuck` |
| `voice_stick_coordinator.cc:1248` | snapshots taken under the mutex are delivered after it, an older one last; the menu stays at "Checking" until the next refresh | `ShownSettles` without its exception `overtaken` |

Others were met and are outside what the modules tell apart: a late final result
of a cancelled recognition enters the confirmation and is pasted (`late` in
`WinCoordinator`); a late partial result over an error stops the timer that
hides it; a device forgotten during a pairing may stay in the file because its
information is saved again (`app_config.cc:447`, `disturbed` in `WinPairing`);
`paired_device_ids_` is written without the mutex under which the check reads it
(`voice_stick_coordinator.cc:174`).

### Bounds

`MaxSessions`, `MaxFrames` bound the recordings and the frames of each;
`QueueDepth`, `MaxRetries`, `MaxBundle`, `AckWindowBatches` are the code's
constants made small (24, 8, 4, 2 in the code).  Two recordings are what a
hand-over needs.  A queue of two is full after two frames, so overflow, the
sentinel on a full queue and a bundle with a gap all occur; bundles of two give
partial and full bundles and a window that closes; three or four frames fill the
window and go past it.  Two attempts give a retry and a drop.  The bounds stay in
the guards of `StartRequested` and of the two actions that take a captured frame;
a proof holds for every value of them.  The handler of ACKs may be preempted in
every configuration; `AudioPath_acks_crossed.cfg` has two recordings of one frame,
which is what the race takes.

In `link`, `MaxBundle` is the code's, and the MTUs are the default, those on both
sides of each size at which another packet fits, and the largest the
configuration allows (247); bundles are of packets 0 to 4, with and without
holes.  Two faults let a start of advertising fail, and its retry too.

For the device, `QueueLength` is 12 in the code.  `device_hold` has three places:
they hold an update's progress, its end and a press at the same time, which is
the longest story its properties tell apart.  `device_any` has one, so that every
event that finds another waiting is lost; what it checks is proved for every
length.  `MaxSessions` bounds the presses between two boots, never a handler.
`device_hold` leaves out the display's timer and the power interrupt, which only
`device_any` speaks of.

On Windows each module has a bound on what the environment starts
(`MaxUpdates`, `MaxSessions`, `MaxInputs`), on its size (`ImageChunks`,
`MaxChunks`, `MaxFrames`), and one budget for everything that goes wrong
(`MaxFaults`, `MaxEvents`).  Two of each is what any story of "the earlier one
meets the later one" takes, three sessions let one end late while the next is
cancelled and a third begins; a budget of one lets every failure meet every
schedule, though not two failures each other.  `MaxChunks`
bounds the chunks up to the last one; `asr_sessions` has the last alone, and the
one that may follow it.  An image of three chunks with
notifications every two and one in flight makes the sender wait for progress, as
48 KB in flight over 32 KB between notifications do.  `DiscoveryAttempts` is 3 in
the code; 2 has a retry and a last attempt.  `MCWinFirmwareInfo` gives two
versions to devices and releases, one of them older.

`CHECK_DEADLOCK FALSE` stands where the bounds let the system come to rest:
nothing is left to do when the inputs are used up.  What must not come to rest
is said by the liveness properties.

### Fairness

`FairSpec` assumes weak fairness of `AudioStep` and `TxStep` alone: both tasks
are created with a priority above the idle task and block only in calls with a
timeout, in `xQueueReceive` on the queue and in `xQueueSend` of the sentinel; a
wait that can end is served by the scheduler.  Nothing is assumed of the caller,
the link or the app: `StopCompletes` holds with the app silent forever, because
`TxWindowFailed` (the timeout of `voice_ble_wait_for_audio_window`) and the
limit on the attempts let the transmit task go on.

`DeviceController`'s `FairSpec` assumes weak fairness of `TaskStep` alone:
`app_event_task` blocks in `xQueueReceive` and in waits with a limit.  Nothing is
assumed of the button, the link, the timers or the app.

`VoiceBleLink` assumes weak fairness of the host task's steps in a request, of the
retry's callout and of NimBLE's synchronization, never of a central or of a
task that may ask.

The Windows modules assume weak fairness of their threads (UI messages, workers,
timers, the steps of a connect) and of an answering service or translator, never
of the user, the devices or the failures.  Threads block only where the model has
them wait; a service that never answers is outside what `SessionsEnd`, `Settles`
and `CyclesEnd` say, and the code has no timeout for it.  `Reconnects` assumes
that a paired device in reach goes on advertising, and that a scan Windows
accepted delivers advertisements.

## What is proved

`AudioPathProofs` proves, for every value of the constants that satisfies the
named assumptions (`TransportAssumption`, `LinkAssumption`,
`PipelineAssumption`: positive depths and sizes, MTUs that are naturals):

* `Invariance`: `Spec => []IInv`;
* `TypeCorrect`, `EndAfterCapture`, `QueueEmptied`, `SessionsApart`,
  `ResourcesReleased`: `TypeOK`, `EndClosesCapture`, `QueueDrained`, `OneSession`
  and `ResourcesOwned` hold always.  Two of the five are properties of the
  `sessions` run; the others are proved only;
* `StreamInvariance`: `Spec => []StreamInv`, and from it `PathKeepsPromise`:
  `Spec => StreamDelivered`, the refinement of `AudioStream`;
* `WindowInvariance`, `AckedWasHeardAlways`, `AirWithinWindowAlways`: `WInv`,
  `AckedWasHeard` and `AirWithinWindow` hold always, with the handler of ACKs
  preempted at any time.

None of the five is inductive alone.  That the queue is empty when the transmit
task is gone rests on the sentinel being the last entry; that the sentinel is
last rests on the capture task having queued it as its final act and on the
caller not queueing one while a capture task exists; that, on a start proceeding
only when both tasks are gone, which in turn rests on the transmit task outliving
the capture task.  `IInv` therefore is the conjunction of

* `TypeOK`;
* `TasksInv`: which task exists at each step of a start, and who holds the codec;
* `SentinelInv`: where the sentinel is, and what is empty once it was taken;
* `BundleInv`: what the transmit task holds at each of its steps;
* `OneSession`;
* `OrderInv`: sequence numbers ascend through queue and bundle, and only the
  sentinel carries the number of the frames captured;
* `AirInv`: no notification claims frames that were not captured, which keeps
  `heard` within its type.

The proof has one lemma for each action (or for a group of actions that touch
the same part), one step for each conjunct the action can disturb.

`AudioStream` promises that the app hears frames of one recording in their order,
none twice, and no end before the capture closed.  `IInv` does not see what the
radio holds; `StreamInv`, inductive beside it, does:

* `SessionsInv`: recordings are numbered upwards, and a new one finds neither
  frames captured nor notifications sent under its number;
* `RadioInv`: a notification claims only what was captured, lies ahead of all
  that was heard, and precedes the next in the air; an end is in the air, or
  heard, only after the transmit task has nothing more to send;
* `AheadInv`: the frames not sent yet, in the queue or in the transmit task's
  hands, come after all that was sent or heard.

A step then maps as follows: `StartSession` opens the stream; a frame that the
queue takes, or that overflows it, is captured; the capture task's last act, or a
task that could not be created, closes it; the receipt of a notification hears
frames or the end; every other step, losses included, is a stutter.

`WInv` says why the window holds.  `ControlInv`: an ACK in flight claims only what
was heard, and the app asks for v2 only; `HandInv`: the same of the ACK that was
compared and is not stored, for the recording it was compared with; `WindowInv`:
with the profile of v2, a bundle that passed the window has room for it, nothing is
in flight while the link speaks v1, and a bundle is never wider than the window.
There is no assumption that the handler runs to its end.  When a recording begins
between the comparison and the store (`voice_ble.c:412`) it counts the ACK of the
one before as its own: that recording is `crossed`, and `AckedWasHeard`,
`AirWithinWindow` and the second clause of `WindowInv` except it, and no other.
`AckProvesDelivery`, without the exception, does not hold (see the divergences).

`DeviceProofs` proves of `DeviceController`, from `ControllerAssumption` alone (a positive
queue length; the sets of modes, states and sources within what the code knows):

* `DeviceInvariance`: `Spec => []DInv`, with `DInv` the conjunction of `TypeOK`,
  `TaskInv` and `TimerInv`;
* `DeviceTypes`, `ResourcesAgree`, `NoTimerWhileRecording`: `TypeOK`,
  `ResourcesFollow` and `BusyIsAwake` hold always;
* `ReleaseEndsRecording`: `HeldWhileRecording` holds always, when `Exhaustion` is
  `FALSE` and `Modes` is hold to talk only, for every length of the queue;
* `UpdateEndsRecording`: `UpdateStopsRecording` holds always when `Exhaustion` is
  `FALSE`, in every mode;
* `IdleDeviceSleeps`, `AnnouncedIsEnded`: `IdleSleeps` and `ReleaseAnnounced` hold
  always under the hypotheses of `ReleaseEndsRecording`.

`ResourcesFollow` speaks of the moments between two events; `TaskInv` adds what
holds at each wait inside a handler (the lock is taken before the recording
starts, kept while it stops, and the update's flag is set before its lock).
`HeldWhileRecording` looks at the recording; its invariant `HeldInv` must also
look at the presses not handled yet: each has its release behind it in the queue
unless the button is held, which is what a first-in first-out queue that loses
nothing gives, and the recording that a press begins inherits that release.
The other three are of the same kind.  `UpdateInv`: while no update is active, the
queue ends whatever it begins, up to the loss of a link as well, and an update
that began while recording has its event in the queue.  `SleepInv`: the sleep timer
runs, or something keeps the device awake whose end starts it again, or the event
that does is in the queue.  `AnnouncedInv`: two presses in the queue have a release
between them, so the release of the recording the app was told of comes before the
press that would replace its number.  The hypotheses are the properties' own: a
queue that lost an event has lost the release, and a click in the other modes is
not a release.

`DeviceProofs` proves of `VoiceBleLink`, from `BleLinkAssumption` alone (MTUs that
are naturals, any number of faults):

* `LinkInvariance`: `BleSpec => []IInv`;
* `LinkTypes`: `BleTypeOK`, and that the device never advertises while connected;
* `LastIsHeard`: `LastRequestHeard` holds always.

`LastRequestHeard` looks at a link at rest.  `MidHolds` adds what a task in the
middle of a request knows (the target is its own; it deferred only to an update
whose event is still to come), `RestHolds` where a target that was not asked for
is waiting (the pending flag with an update under way, or the host task about to
ask), `FreshHolds` that a new connection begins without a target.

`FirmwareUpdateProofs` proves, from `UpdateAssumption` alone (at least one
update, chunk and unit of progress; any window and number of faults):

* `UpdateInvariance`: `Spec => []UInv`;
* `UpdateTypes`, `BootsOneImage`, `SuccessIsTrue`, `HandleOwnership`: `TypeOK`,
  `BootsSentImage`, `SuccessIsInstalled` and `HandleOwned` hold always.

That the device boots a whole image is a fact about `ota_finish` alone; it needs
`SlotHolds`, what the spare partition contains while a transfer is active.  That
success is true is a fact about the client, which knows the device only by its
events: `DoneInstalled` says that a "done" in flight names an image that boots,
`TargetKnown` that a sender that writes knows for whom.

`AsrClientWinProofs` proves, from `BoundsAssumption` alone (at least one session
and chunk, any number of faults):

* `ClientInvariance`: `Spec => []AInv`;
* `ClientTypes` and `FinalOfItsOwn`: `TypeOK` and `FinalIsItsOwn` hold always;
* `ClientKeepsPromise`: `Spec => KeepsPromise`, the refinement of `AsrOutcomes`:
  the initial states map to initial states, each step to a step or a stutter;
* `AudioStaysItsOwn`: `AudioOfItsOwn` holds always.

`AInv` is the conjunction of the types, `ShapeInv` (which calls a thread may have
left: only the UI thread makes a connection anew, in one of three stages),
`FateInv` (at most one session is active: the client's, or the one that was begun
before the old connection was shut down) and `TellInv` (a callback that is due is
all its thread has left, and no other thread has one for that session).  The last
is what "reported at most once" rests on: an end takes the session away under the
mutex, and so leaves nothing for the other thread to report.

`AudioOfItsOwn` compares what the service got with what was recorded.  `AudioInv`
follows each chunk there: it is in one place (the client's queue, one call of one
thread, the service), what a session holds is all of one recording, and what waits
in the queue, or is sent for an active session, is of the recording that goes on.
A thread sends what is in its hands before it flushes anything else.

`WinCoordinatorProofs` proves, from `BoundsAssumption` alone (any devices and
texts, any number of recordings, frames and failures):

* `CoordinatorInvariance`: `Spec => []IInv`;
* `CoordinatorTypes`, `FedItsOwnAlways`, `TypedOnceAlways`: `TypeOK`, `FedItsOwn`
  and `TypedOnce` hold always;
* `DroppedNotTypedAlways`: `Spec => DroppedNotTyped`, an action property;
* `ScreensInvariance`: `Spec => []UiInv(app, worker)`, and from it
  `UiAgreesAlways`: `UiAgrees` holds always.

A handler of the coordinator is a composition of functions of its state, and most
of them only give something up.  Two relations say that, `Calm` (no recording
begins, no audio is taken, what was over stays over) and `Kept` (no text is put up
or typed); both are transitive, and the invariants survive them.  There is a lemma
for each function; what is left are the steps that begin a recording, feed audio,
put a text up or type it.  `IInv` is the types and

* `FeedInv`, `RecordingInv`: what an ASR session was fed is of its recording and
  has one end, a buffer is of the recording that goes on, and one that goes on and
  heard no end has not been fed one;
* `SenderInv`, `DeviceInv`: only the device in hand sends that recording, no two
  devices send the same, and one whose recording was closed sends nothing more of
  it, or its button is up;
* `PasteInv`: a text is typed no more often than it was put up; one that waits in
  the overlay was put up once more than it was typed, and was not dropped.

`UiAgrees` compares what each connected device was last told with the state of the
input.  The hard handlers are those of the worker and of the overlay, which change
the state long after they were set going: they must find the recording they were
made for, or nothing.  `UiInv`, inductive beside `IInv`, says, until a callback was
met late,

* `Screens`: the devices were told the state, and one that asks for a click shows
  the confirmation or has just been told "ready";
* `StateInv`: what goes with each state (an ASR session, a device, a pending text);
* `ResultInv`: an active ASR session, a callback of the worker, an answer of the
  translator is that of the recording in hand, unless that was cancelled, and only
  one of them is on its way;
* `LastInv`: of a text that can be restored nothing more is to come;
* `OverlayInv`: a callback that commits is in the overlay, or on its way there with
  a countdown, only while a text is up.

The two exceptions of `UiAgrees` are the code's: a callback that was late (see the
divergences), and a device that was told "ready" at its connection and nothing
since.

`SubtitleCyclesProofs` proves, from the `BoundsAssumption` of that module alone:

* `CyclesInvariance`: `Spec => []IInv`;
* `CyclesTypes`, `FedItsOwnAlways`: `TypeOK` and `FedItsOwn` hold always;
* `RecordingGoesOnAlways`, `DroppedNotShownAlways`: `Spec => RecordingGoesOn` and
  `Spec => DroppedNotShown`, action properties.

The argument is again by a relation that the functions of the coordinator keep and
that is transitive.  `Goes` says that no cycle begins, which cycles may go, that
any other that goes is counted as cancelled, and that nothing new is with the
translator; `Less`, that nothing goes uncounted and no subtitle is asked for.  What
is left are the steps that begin a cycle, feed it, take its end, or answer it.
`IInv` is the types and

* `Cycles`: what an ASR session was fed, or is buffered for it, is of the cycle's
  recording, and a cycle that reports a final result or has its text has sent its
  end.  The last is why a final text cannot end a recording that still goes on;
* `Held`: a cycle with the session number of what a device sends is of that
  recording (`Owned`, which a device that restarts and uses numbers again must
  respect); of a press not handled yet nothing is known (`Fresh`); there is one
  cycle for each recording, and none of a cancelled one, unless a click began a
  recording anew (`Single`);
* `Returns`: the translator's final answer finds its own cycle with its text, or
  none;
* `Numbered`: the devices number their recordings apart.

Whether a step asks for a subtitle is a count over the posted calls and those
shown; taking a call from the front of the queue renames the rest one for one.

`WinPairingProofs` proves, from `CentralAssumption` and `PairingAssumption`:

* `PairingInvariance`: `Spec => []PInv`;
* `PairingTypes`, `OneConnectAlways`, `ListsAgreeAlways`, `LostIsForgottenAlways`:
  `TypeOK`, `OneConnect`, `ListsAgree` and `LostIsForgotten` hold always;
* `SavedHasAnsweredAlways`: `Spec => SavedHasAnswered`, an action property.

`SlotInv` and `LinkInv` are about the central alone: what a slot of its table may
be, and that a slot that lost its link has that event coming, unless the event
came too early to be heard.  `ConnectInv` says that the address of a running
connect is claimed and has no session, which is what one connect for each device
rests on; `OwnedInv`, that a connect runs only for a device the user wants, and so
does not outlive the claim that is given up with the pairing; `AnsweredInv`, that
whatever tells the dialog of a connected device came from one that answered,
although a message of the dialog carries no device.

`WinFirmwareInfoProofs` proves, from `FirmwareInfoAssumption`:

* `InfoInvariance`: `Spec => []FInv`;
* `InfoTypes`, `AskedOnce`, `MenuSettles`: `TypeOK`, `PromptedOnce` and
  `ShownSettles` hold always.

A question is decided by one thread, carried by a snapshot and asked by another.
`AskInv` counts, for each device, the questions asked, those on their way at each
place they can be, and those a pairing still entitles to: there are never more
than pairings.  `SnapshotInv` finds the newest snapshot: unless one was overtaken
(a known weakness of the code, which the property excludes), at most one is under
way, and it is what the coordinator knows or a refresh is still to come.
`ShapeInv` and `FlightInv` say what the threads may have left, and that a check in
flight has a thread that ends it.

Every invariant of a passing run is proved, and every action property but one.
Only model-checked are

* `ProfileCarries`, enumerated: the length of a notification is a sum over its
  packets, and a fact about such a sum is an induction over data;
* the liveness properties, out of the prover's reach: `StopCompletes`,
  `Discoverable`, `ReleaseStops`, `UpdateEnds`, `SessionsEnd`, `Settles`,
  `CyclesEnd`, `Reconnects`, `ChecksEnd`.

`ENABLED`, induction over data and `RECURSIVE` operators are out of reach too;
nothing else here needs them.

## Not modelled

* Samples, Opus and the codec's registers; the wording of logs; sounds and
  drawing; CRC and byte layouts; Ogg pages; TOML, HTTP and the framing of the ASR
  protocol: sequential encoders and decoders of bytes.
* The statistics of `recordAudioBatch`.  A NimBLE subscription event other than a
  subscription (the app unsubscribes only by disconnecting).  The version and the
  MTU are read in one step at the start of a recording.  What the central makes
  of a requested interval; updates of the parameters that the central begins.
* The coordinator, ASR client, overlay and update of macOS: the Windows ones have
  the same events and states with more threads, and stand for them.  What only
  macOS has, the Return queued by the side button, is left out.
* `Shutdown` of the Windows client, which joins and detaches threads as the
  process ends; settings, onboarding and sign-in dialogs; hot words; definite
  segments of a pasted input.
* In `WinPairing`: the settings dialog, which may put an old list back; a second
  pairing dialog opened from the tray.  Writes of UI states to a device are one
  assignment in `WinCoordinator`.  In `WinFirmwareInfo`: the message loop inside
  the prompt's message box.  In `FirmwareUpdate`: the events "ready" and
  "aborted", which the client does not act on.

## Plan

1. The framing arithmetic for every MTU, as far as it goes without an induction
   over the packets of a notification.
2. The side button's queued Return of the macOS coordinator.
