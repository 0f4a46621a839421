-------------------------- MODULE DeviceController --------------------------
(***************************************************************************)
(* firmware/main/main.c: app_event_task takes one event at a time from a   *)
(* bounded queue that button callbacks, the NimBLE host task, timers and   *)
(* an interrupt fill without waiting, and decides what records, what the   *)
(* app is told, and when the device dims and sleeps.  A handler that waits *)
(* (a start sound, the end of the audio tasks) is several steps, between   *)
(* which the others run.                                                   *)
(*                                                                         *)
(* Abstracted: what the display shows, elapsed times, the display and      *)
(* codec drivers (they succeed).  Timers are armed or not, and an armed    *)
(* one may fire at any time.  APP_EVENT_HOST_RESPONSE_TIMEOUT is left out: *)
(* its timer is created and never started.                                 *)
(***************************************************************************)
EXTENDS Integers, Sequences

CONSTANTS
  QueueLength,  \* xQueueCreate(12, ...)
  MaxSessions,  \* bound: presses between two boots that may start a recording
  Modes,        \* the interaction modes the app may set; one of them is hold
  UiStates,     \* the states the app may write
  Sources,      \* what happens around the device, among Happenings
  Exhaustion    \* TRUE: the queue may overflow and a notification may fail

Hold  == "hold_to_talk"
Click == "click_to_talk"
Happenings == {"side", "link", "update", "dim", "sleep", "power"}

ASSUME ControllerAssumption ==
  /\ QueueLength \in Nat \ {0}
  /\ MaxSessions \in Nat
  /\ Modes \subseteq {Hold, Click}
  /\ UiStates \subseteq {"ready", "recording", "thinking", "pending_confirmation", "error"}
  /\ Sources \subseteq Happenings
  /\ Exhaustion \in BOOLEAN

VARIABLES
  \* main.c
  recording, otaUpdating,           \* s_recording, s_ota_updating
  recordingPmLocked, otaPmLocked,   \* s_recording_pm_locked, s_ota_pm_locked
  appUiState, interactionMode,      \* s_app_ui_state, s_interaction_mode
  primaryDown, primarySession,      \* s_primary_down_us > 0, s_primary_session_id
  nextSession,                      \* s_session_id
  externalPower,                    \* s_battery_charging || s_usb_powered
  dimTimer, sleepTimer,             \* the timer is armed
  displayDimmed, dimming,           \* s_display_dimmed; display_dim_timer_cb is about to set it
  queue,                            \* s_app_event_queue
  task,                             \* where app_event_task is
  \* what it uses
  running,                          \* s_running of audio_pipeline.c
  connected, ready,                 \* voice_ble: s_connected, voice_ble_is_ready()
  update,                           \* voice_ble: "none", "active", "rebooting"
  irqEnabled, panel, supply,        \* the PMIC interrupt, the LCD and its supply, external power
  frontHeld, awake,                 \* the front button is down; not in deep sleep
  announced                         \* the recording the app was told of as begun, and not as ended,
                                    \* on this connection; 0 when there is none

pressVars  == <<primaryDown, primarySession, nextSession>>
recordVars == <<recording, recordingPmLocked, running>>
updateVars == <<otaUpdating, otaPmLocked>>
timerVars  == <<dimTimer, sleepTimer, displayDimmed>>
linkVars   == <<connected, ready, update>>
boardVars  == <<irqEnabled, panel, supply, frontHeld, awake>>
vars == <<pressVars, recordVars, updateVars, timerVars, linkVars, boardVars, externalPower, dimming,
          appUiState, interactionMode, queue, task, announced>>

\* The queue's entries.
Event(type)      == [type |-> type, state |-> ""]
UiStateEvent(st) == [type |-> "UI_STATE", state |-> st]

\* app_main, once it is through: the timers were started before the battery
\* was read, which may fail.
Init ==
  /\ supply \in BOOLEAN /\ frontHeld = FALSE
  /\ recording = FALSE /\ recordingPmLocked = FALSE /\ running = FALSE
  /\ otaUpdating = FALSE /\ otaPmLocked = FALSE
  /\ appUiState = "ready" /\ interactionMode = Hold
  /\ primaryDown = FALSE /\ primarySession = 0 /\ nextSession = 1
  /\ externalPower \in {supply, FALSE}
  /\ dimTimer = TRUE /\ sleepTimer = ~externalPower
  /\ displayDimmed = FALSE /\ dimming = FALSE
  /\ queue = <<>>
  /\ task = "idle"
  /\ connected = FALSE /\ ready = FALSE /\ update = "none"
  /\ irqEnabled = TRUE /\ panel = TRUE
  /\ awake = TRUE
  /\ announced = 0

\* A restart.  A button held through it counts as pressed, or not, depending
\* on when the driver first looks.
Restart(held) ==
  /\ recording' = FALSE /\ recordingPmLocked' = FALSE /\ running' = FALSE
  /\ otaUpdating' = FALSE /\ otaPmLocked' = FALSE
  /\ appUiState' = "ready" /\ interactionMode' = Hold
  /\ primaryDown' = FALSE /\ primarySession' = 0 /\ nextSession' = 1
  /\ externalPower' \in {supply, FALSE}
  /\ dimTimer' = TRUE /\ sleepTimer' = ~externalPower'
  /\ displayDimmed' = FALSE /\ dimming' = FALSE
  /\ queue' \in {<<>>} \cup (IF held THEN {<<Event("FRONT_DOWN")>>} ELSE {})
  /\ task' = "idle"
  /\ connected' = FALSE /\ ready' = FALSE /\ update' = "none"
  /\ irqEnabled' = TRUE /\ panel' = TRUE
  /\ frontHeld' = held /\ awake' = TRUE
  /\ announced' = 0
  /\ UNCHANGED supply

-----------------------------------------------------------------------------
\* xQueueSend without waiting: a full queue drops the event.
Queued(entries, event) ==
  IF Len(entries) < QueueLength THEN Append(entries, event) ELSE entries

\* A run without exhaustion is one in which the queue never overflows.
Room(n) == Exhaustion \/ Len(queue) + n <= QueueLength

Enqueue(event) == Room(1) /\ queue' = Queued(queue, event)

\* A notification is handed to NimBLE: it fails without a subscription, and
\* may fail for want of a buffer.
Sent(ok) ==
  /\ ok => ready
  /\ ready /\ ~ok => Exhaustion

-----------------------------------------------------------------------------
\* restart_display_dim_timer and restart_deep_sleep_timer stop a timer and
\* start it again if the device is idle.

DimRuns(rec, upd)        == ~rec /\ ~upd
SleepRuns(rec, upd, ext) == ~rec /\ ~upd /\ ~ext

RestartTimers(rec, upd) ==
  /\ dimTimer' = DimRuns(rec, upd)
  /\ sleepTimer' = SleepRuns(rec, upd, externalPower)

NoteActivity(rec, upd) ==
  /\ displayDimmed' = FALSE
  /\ RestartTimers(rec, upd)

\* apply_app_ui_state("ready") when nothing records.
BackToReady ==
  /\ appUiState' = "ready"
  /\ NoteActivity(FALSE, otaUpdating)

\* The app is told of the end of a recording.
AnnouncedEnd(session) == IF announced = session THEN 0 ELSE announced

-----------------------------------------------------------------------------
\* app_event_task, one handler per event.

Receive(type) ==
  /\ awake
  /\ task = "idle"
  /\ queue # <<>>
  /\ Head(queue).type = type
  /\ queue' = Tail(queue)

\* stop_recording up to its wait; then says what the handler does next.
BeginStop(then) ==
  /\ recording' = FALSE
  /\ running' = FALSE
  /\ task' = then
  /\ UNCHANGED recordingPmLocked

\* Click to talk, while recording: the press ends the recording.
FrontDownStops ==
  /\ Receive("FRONT_DOWN")
  /\ interactionMode = Click /\ recording
  /\ NoteActivity(TRUE, otaUpdating)
  /\ BeginStop("stoppingForClick")
  /\ UNCHANGED <<pressVars, updateVars, linkVars, boardVars, externalPower, dimming, appUiState,
                 interactionMode, announced>>

FrontDownBegins ==
  /\ Receive("FRONT_DOWN")
  /\ ~(interactionMode = Click /\ recording)
  /\ NoteActivity(recording, otaUpdating)
  /\ UNCHANGED <<updateVars, linkVars, boardVars, externalPower, dimming, appUiState,
                 interactionMode, announced>>

\* The press is an answer to the app's question, and starts nothing.
FrontDownConfirms ==
  /\ FrontDownBegins
  /\ appUiState = "pending_confirmation"
  /\ primaryDown' = TRUE /\ primarySession' = 0
  /\ UNCHANGED <<recordVars, nextSession, task>>

Busy == recording \/ otaUpdating \/ update = "active"

StartAllowed == ~Busy /\ ready /\ appUiState # "pending_confirmation"

FrontDownDenied ==
  /\ FrontDownBegins
  /\ appUiState # "pending_confirmation"
  /\ ~StartAllowed
  /\ primaryDown' = FALSE /\ primarySession' = 0
  /\ UNCHANGED <<recordVars, nextSession, task>>

\* start_recording up to the start sound; the power lock may be refused.
FrontDownStarts ==
  /\ FrontDownBegins
  /\ StartAllowed
  /\ nextSession' = nextSession + 1
  /\ primarySession' = 0
  /\ \/ recordingPmLocked' = TRUE /\ task' = "starting" /\ primaryDown' = TRUE
     \/ primaryDown' = FALSE /\ UNCHANGED <<recordingPmLocked, task>>
  /\ UNCHANGED <<recording, running>>

\* audio_pipeline_start fails.
StartFailed ==
  /\ awake /\ task = "starting"
  /\ task' = "idle"
  /\ recordingPmLocked' = FALSE
  /\ primaryDown' = FALSE
  /\ UNCHANGED <<primarySession, nextSession, recording, running, updateVars, timerVars, linkVars,
                 boardVars, externalPower, dimming, appUiState, interactionMode, queue, announced>>

StartSucceeded ==
  /\ awake /\ task = "starting"
  /\ task' = "announcing"
  /\ running' = TRUE
  /\ recording' = TRUE
  /\ appUiState' = "recording"
  /\ primarySession' = nextSession - 1
  /\ RestartTimers(TRUE, otaUpdating)
  /\ UNCHANGED <<primaryDown, nextSession, recordingPmLocked, updateVars, displayDimmed, linkVars,
                 boardVars, externalPower, dimming, interactionMode, queue, announced>>

\* The app is told of the recording, by a click or a press; failing that, the
\* recording is given up.
StartAnnounced ==
  /\ awake /\ task = "announcing"
  /\ \/ /\ Sent(TRUE)
        /\ announced' = primarySession
        /\ task' = "idle"
        /\ UNCHANGED recordVars
     \/ /\ Sent(FALSE)
        /\ BeginStop("stoppingUnannounced")
        /\ UNCHANGED announced
  /\ UNCHANGED <<pressVars, updateVars, timerVars, linkVars, boardVars, externalPower, dimming,
                 appUiState, interactionMode, queue>>

\* Slip: a release counts when the display says that something records.
ReleaseMeansNothingShown == interactionMode = Click \/ appUiState # "recording"

\* Nothing to release: click to talk, or the press started nothing.
ReleaseMeansNothing ==
  interactionMode = Click \/ (~recording /\ primarySession = 0 /\ ~primaryDown)

FrontUpIgnored ==
  /\ Receive("FRONT_UP")
  /\ ReleaseMeansNothing
  /\ NoteActivity(recording, otaUpdating)
  /\ UNCHANGED <<pressVars, recordVars, updateVars, linkVars, boardVars, externalPower, dimming,
                 appUiState, interactionMode, task, announced>>

FrontUpStops ==
  /\ Receive("FRONT_UP")
  /\ ~ReleaseMeansNothing
  /\ recording
  /\ NoteActivity(TRUE, otaUpdating)
  /\ BeginStop("stoppingForRelease")
  /\ UNCHANGED <<pressVars, updateVars, linkVars, boardVars, externalPower, dimming, appUiState,
                 interactionMode, announced>>

\* The end of a press of which nothing is recorded any more.
FrontUpSent ==
  /\ Receive("FRONT_UP")
  /\ ~ReleaseMeansNothing
  /\ ~recording
  /\ \E ok \in BOOLEAN :
       /\ Sent(ok)
       /\ announced' = IF ok THEN AnnouncedEnd(primarySession) ELSE announced
       /\ appUiState' = IF ok \/ primarySession = 0 THEN appUiState ELSE "ready"
  /\ NoteActivity(FALSE, otaUpdating)
  /\ primaryDown' = FALSE /\ primarySession' = 0
  /\ UNCHANGED <<nextSession, recordVars, updateVars, linkVars, boardVars, externalPower, dimming,
                 interactionMode, task>>

\* The rest of stop_recording: the audio tasks have ended, or 900 ms passed.
EndStop ==
  /\ awake
  /\ recordingPmLocked' = FALSE
  /\ UNCHANGED <<recording, running>>

\* ... and of the two handlers that stop for a press or its release.
StoppedForButton ==
  /\ task \in {"stoppingForClick", "stoppingForRelease"}
  /\ EndStop
  /\ task' = "idle"
  /\ \/ /\ Sent(TRUE)
        /\ announced' = AnnouncedEnd(nextSession - 1)
        /\ RestartTimers(FALSE, otaUpdating)
        /\ UNCHANGED <<appUiState, displayDimmed>>
     \/ /\ Sent(FALSE)
        /\ BackToReady
        /\ UNCHANGED announced
  /\ primaryDown' = FALSE /\ primarySession' = 0
  /\ UNCHANGED <<nextSession, updateVars, linkVars, boardVars, externalPower, dimming,
                 interactionMode, queue>>

StoppedUnannounced ==
  /\ task = "stoppingUnannounced"
  /\ EndStop
  /\ task' = "idle"
  /\ primarySession' = 0
  /\ BackToReady
  /\ UNCHANGED <<primaryDown, nextSession, updateVars, linkVars, boardVars, externalPower, dimming,
                 interactionMode, queue, announced>>

SideButton ==
  /\ Receive("SIDE")
  /\ NoteActivity(recording, otaUpdating)
  /\ UNCHANGED <<pressVars, recordVars, updateVars, linkVars, boardVars, externalPower, dimming,
                 appUiState, interactionMode, task, announced>>

\* apply_app_ui_state
UiState ==
  /\ Receive("UI_STATE")
  /\ LET state == Head(queue).state
     IN  \/ state = "ready" /\ recording /\ UNCHANGED <<appUiState, timerVars>>
         \/ state = "ready" /\ ~recording /\ BackToReady
         \/ state # "ready" /\ appUiState' = state /\ UNCHANGED timerVars
  /\ UNCHANGED <<pressVars, recordVars, updateVars, linkVars, boardVars, externalPower, dimming,
                 interactionMode, task, announced>>

BleConnected ==
  /\ Receive("BLE_CONNECTED")
  /\ appUiState' = "ready"
  /\ NoteActivity(recording, otaUpdating)
  /\ UNCHANGED <<pressVars, recordVars, updateVars, linkVars, boardVars, externalPower, dimming,
                 interactionMode, task, announced>>

LinkLostEnds ==
  /\ Receive("BLE_DISCONNECTED")
  /\ recording' = FALSE /\ otaUpdating' = FALSE
  /\ appUiState' = "ready"
  /\ recordingPmLocked' = FALSE /\ otaPmLocked' = FALSE
  /\ UNCHANGED <<nextSession, timerVars, linkVars, boardVars, externalPower, dimming,
                 interactionMode, task, announced>>

\* Slip: the pipeline is left to find out by itself.
BleDisconnectedUnstopped ==
  /\ LinkLostEnds
  /\ UNCHANGED <<primaryDown, primarySession, running>>

\* Slip: the press is forgotten with the connection.
BleDisconnectedForgets ==
  /\ LinkLostEnds
  /\ running' = FALSE
  /\ primaryDown' = FALSE /\ primarySession' = 0

BleDisconnected ==
  /\ LinkLostEnds
  /\ running' = FALSE
  /\ UNCHANGED <<primaryDown, primarySession>>

\* update_battery_status, whose reading may fail.
BatteryRead ==
  \/ /\ externalPower' = supply
     /\ sleepTimer' = IF supply = externalPower THEN sleepTimer
                      ELSE SleepRuns(recording, otaUpdating, supply)
  \/ UNCHANGED <<externalPower, sleepTimer>>

BatteryRefresh ==
  /\ \/ Receive("BATTERY_REFRESH") /\ UNCHANGED irqEnabled
     \/ Receive("POWER_IRQ") /\ irqEnabled' = TRUE
  /\ BatteryRead
  /\ UNCHANGED <<pressVars, recordVars, updateVars, dimTimer, displayDimmed, linkVars, panel, supply,
                 frontHeld, awake, dimming, appUiState, interactionMode, task, announced>>

\* enter_deep_sleep
RestartSleepTimer(ext) == sleepTimer' = SleepRuns(recording, otaUpdating, ext)

SleepRefused ==
  /\ Receive("ENTER_DEEP_SLEEP")
  /\ \/ /\ Busy \/ externalPower \/ frontHeld
        /\ UNCHANGED externalPower
     \/ /\ ~Busy /\ ~externalPower /\ supply
        /\ externalPower' = TRUE
  /\ RestartSleepTimer(externalPower')
  /\ UNCHANGED <<pressVars, recordVars, updateVars, dimTimer, displayDimmed, linkVars, boardVars,
                 dimming, appUiState, interactionMode, task, announced>>

\* The panel and its supply are switched off before the last look at the
\* button.  (The fresh reading of the supply may have failed.)
SleepPrepared ==
  /\ Receive("ENTER_DEEP_SLEEP")
  /\ ~Busy /\ ~externalPower /\ ~frontHeld
  /\ recordingPmLocked' = FALSE
  /\ panel' = FALSE
  /\ task' = "sleeping"
  /\ UNCHANGED <<pressVars, recording, running, updateVars, timerVars, linkVars, irqEnabled, supply,
                 frontHeld, awake, externalPower, dimming, appUiState, interactionMode, announced>>

SleepAborted ==
  /\ awake /\ task = "sleeping"
  /\ frontHeld
  /\ RestartSleepTimer(externalPower)
  /\ task' = "idle"
  /\ UNCHANGED <<pressVars, recordVars, updateVars, dimTimer, displayDimmed, linkVars, boardVars,
                 externalPower, dimming, appUiState, interactionMode, queue, announced>>

SleepStarted ==
  /\ awake /\ task = "sleeping"
  /\ ~frontHeld
  /\ awake' = FALSE
  /\ connected' = FALSE /\ ready' = FALSE /\ update' = "none"
  /\ announced' = 0
  /\ UNCHANGED <<pressVars, recordVars, updateVars, timerVars, irqEnabled, panel, supply, frontHeld,
                 externalPower, dimming, appUiState, interactionMode, queue, task>>

\* acquire_ota_pm_locks; the update goes on without the lock.
OtaLocked == otaPmLocked' \in {otaPmLocked, TRUE}

\* Slip: the recording is left alone.
OtaBeginAlone ==
  /\ Receive("OTA_BEGIN")
  /\ otaUpdating' = TRUE
  /\ OtaLocked
  /\ NoteActivity(recording, TRUE)
  /\ UNCHANGED <<pressVars, recordVars, linkVars, boardVars, externalPower, dimming, appUiState,
                 interactionMode, task, announced>>

OtaBegin ==
  /\ Receive("OTA_BEGIN")
  /\ otaUpdating' = TRUE
  /\ \/ /\ recording
        /\ BeginStop("stoppingForUpdate")
        /\ UNCHANGED <<otaPmLocked, timerVars>>
     \/ /\ ~recording
        /\ OtaLocked
        /\ NoteActivity(FALSE, TRUE)
        /\ UNCHANGED <<recordVars, task>>
  /\ UNCHANGED <<pressVars, linkVars, boardVars, externalPower, dimming, appUiState,
                 interactionMode, announced>>

StoppedForUpdate ==
  /\ task = "stoppingForUpdate"
  /\ EndStop
  /\ task' = "idle"
  /\ \E ok \in BOOLEAN :
       Sent(ok) /\ announced' = IF ok THEN AnnouncedEnd(nextSession - 1) ELSE announced
  /\ OtaLocked
  /\ NoteActivity(FALSE, otaUpdating)
  /\ UNCHANGED <<pressVars, otaUpdating, linkVars, boardVars, externalPower, dimming, appUiState,
                 interactionMode, queue>>

OtaProgress ==
  /\ Receive("OTA_PROGRESS")
  /\ otaUpdating' = TRUE
  /\ UNCHANGED <<pressVars, recordVars, otaPmLocked, timerVars, linkVars, boardVars, externalPower,
                 dimming, appUiState, interactionMode, task, announced>>

OtaDone ==
  /\ Receive("OTA_DONE")
  /\ UNCHANGED <<pressVars, recordVars, updateVars, timerVars, linkVars, boardVars, externalPower,
                 dimming, appUiState, interactionMode, task, announced>>

OtaEnds ==
  /\ Receive("OTA_END")
  /\ otaUpdating' = FALSE
  /\ otaPmLocked' = FALSE
  /\ appUiState' = "ready"
  /\ UNCHANGED <<pressVars, recordVars, linkVars, boardVars, externalPower, dimming,
                 interactionMode, task, announced>>

\* Slip: activity is noted before the update is over.
OtaEndNotedFirst == OtaEnds /\ NoteActivity(recording, otaUpdating)

OtaEnd == OtaEnds /\ NoteActivity(recording, FALSE)

TaskStep ==
  \/ FrontDownStops \/ FrontDownConfirms \/ FrontDownDenied \/ FrontDownStarts
  \/ StartFailed \/ StartSucceeded \/ StartAnnounced
  \/ FrontUpIgnored \/ FrontUpStops \/ FrontUpSent
  \/ StoppedForButton \/ StoppedUnannounced
  \/ SideButton \/ UiState
  \/ BleConnected \/ BleDisconnected
  \/ BatteryRefresh
  \/ SleepRefused \/ SleepPrepared \/ SleepAborted \/ SleepStarted
  \/ OtaBegin \/ StoppedForUpdate \/ OtaProgress \/ OtaDone \/ OtaEnd

-----------------------------------------------------------------------------
\* Around the task.

\* The host task waits out the half second between an update and the restart.
HostTaskRuns == awake /\ update # "rebooting"

\* All of main.c's state but the queue.
stateVars == <<pressVars, recordVars, updateVars, externalPower, appUiState, interactionMode, task>>

Presses == Len(SelectSeq(queue, LAMBDA event : event.type = "FRONT_DOWN"))

FrontPressed ==
  /\ awake /\ ~frontHeld
  /\ nextSession + Presses <= MaxSessions
  /\ frontHeld' = TRUE
  /\ Enqueue(Event("FRONT_DOWN"))
  /\ UNCHANGED <<stateVars, timerVars, dimming, linkVars, irqEnabled, panel, supply, awake, announced>>

FrontReleased ==
  /\ awake /\ frontHeld
  /\ frontHeld' = FALSE
  /\ Enqueue(Event("FRONT_UP"))
  /\ UNCHANGED <<stateVars, timerVars, dimming, linkVars, irqEnabled, panel, supply, awake, announced>>

\* An event that changes nothing else where it comes from: either edge of the
\* side button, the app's UI state, the battery's periodic refresh.
EventQueued ==
  /\ awake
  /\ \/ "side" \in Sources /\ Enqueue(Event("SIDE"))
     \/ HostTaskRuns /\ connected /\ \E state \in UiStates : Enqueue(UiStateEvent(state))
     \/ "power" \in Sources /\ Enqueue(Event("BATTERY_REFRESH"))
  /\ UNCHANGED <<stateVars, timerVars, dimming, linkVars, boardVars, announced>>

\* ble_control_cb, on the host task.
ModeChanged ==
  /\ HostTaskRuns /\ connected
  /\ interactionMode' \in Modes \ {interactionMode}
  /\ UNCHANGED <<pressVars, recordVars, updateVars, timerVars, linkVars, boardVars, externalPower,
                 dimming, appUiState, queue, task, announced>>

\* voice_ble's connection callback.
LinkUp ==
  /\ awake /\ "link" \in Sources
  /\ ~connected
  /\ connected' = TRUE
  /\ Enqueue(Event("BLE_CONNECTED"))
  /\ UNCHANGED <<stateVars, timerVars, dimming, ready, update, boardVars, announced>>

LinkFailed ==
  /\ awake /\ "link" \in Sources
  /\ ~connected
  /\ Enqueue(Event("BLE_DISCONNECTED"))
  /\ UNCHANGED <<stateVars, timerVars, dimming, linkVars, boardVars, announced>>

Subscribed ==
  /\ HostTaskRuns
  /\ connected /\ ~ready
  /\ ready' = TRUE
  /\ UNCHANGED <<stateVars, timerVars, dimming, connected, update, boardVars, queue, announced>>

\* An update in progress is aborted first.
LinkDown ==
  /\ HostTaskRuns /\ "link" \in Sources
  /\ connected
  /\ Room(2)
  /\ queue' = Queued(IF update = "active" THEN Queued(queue, Event("OTA_END")) ELSE queue,
                     Event("BLE_DISCONNECTED"))
  /\ connected' = FALSE /\ ready' = FALSE /\ update' = "none"
  /\ announced' = 0
  /\ UNCHANGED <<stateVars, timerVars, dimming, boardVars>>

\* voice_ble's update callback: ota_begin, ota_write_data, ota_send_error,
\* ota_abort, ota_finish.
UpdateEvent(next, type) ==
  /\ HostTaskRuns /\ "update" \in Sources
  /\ connected
  /\ update' = next
  /\ Enqueue(Event(type))
  /\ UNCHANGED <<stateVars, timerVars, dimming, connected, ready, boardVars, announced>>

UpdateStep ==
  \/ UpdateEvent("active", "OTA_BEGIN")
  \/ update = "active" /\ UpdateEvent("active", "OTA_PROGRESS")
  \/ UpdateEvent(update, "OTA_END")
  \/ UpdateEvent("none", "OTA_END")
  \/ update = "active" /\ UpdateEvent("rebooting", "OTA_DONE")

\* display_dim_timer_cb looks at the flags, and then sets the brightness and
\* s_display_dimmed.
DimTimerFired ==
  /\ awake /\ "dim" \in Sources
  /\ dimTimer
  /\ dimTimer' = FALSE
  /\ dimming' = (~displayDimmed /\ ~recording /\ ~otaUpdating)
  /\ UNCHANGED <<stateVars, sleepTimer, displayDimmed, linkVars, boardVars, queue, announced>>

Dimmed ==
  /\ awake /\ dimming
  /\ displayDimmed' = TRUE
  /\ dimming' = FALSE
  /\ UNCHANGED <<stateVars, dimTimer, sleepTimer, linkVars, boardVars, queue, announced>>

SleepTimerFired ==
  /\ awake /\ "sleep" \in Sources
  /\ sleepTimer
  /\ sleepTimer' = FALSE
  /\ Enqueue(Event("ENTER_DEEP_SLEEP"))
  /\ UNCHANGED <<stateVars, dimTimer, displayDimmed, dimming, linkVars, boardVars, announced>>

SupplyChanged ==
  /\ "power" \in Sources
  /\ supply' = ~supply
  /\ UNCHANGED <<stateVars, timerVars, dimming, linkVars, irqEnabled, panel, frontHeld, awake, queue, announced>>

\* pmic_irq_isr
PmicIrq ==
  /\ awake /\ "power" \in Sources
  /\ irqEnabled
  /\ irqEnabled' = FALSE
  /\ Enqueue(Event("POWER_IRQ"))
  /\ UNCHANGED <<stateVars, timerVars, dimming, linkVars, panel, supply, frontHeld, awake, announced>>

\* The front button ends deep sleep; an update ends in a restart.
Woken    == ~awake /\ Restart(TRUE)
Rebooted == awake /\ update = "rebooting" /\ Restart(frontHeld)

Around ==
  \/ FrontPressed \/ FrontReleased \/ EventQueued \/ ModeChanged
  \/ LinkUp \/ LinkFailed \/ Subscribed \/ LinkDown \/ UpdateStep
  \/ DimTimerFired \/ Dimmed \/ SleepTimerFired
  \/ SupplyChanged \/ PmicIrq
  \/ Woken \/ Rebooted

Next == TaskStep \/ Around

Spec == Init /\ [][Next]_vars

\* app_event_task is scheduled and its waits end.
FairSpec == Spec /\ WF_vars(TaskStep)

-----------------------------------------------------------------------------
EventTypes ==
  {"FRONT_DOWN", "FRONT_UP", "SIDE", "BLE_CONNECTED", "BLE_DISCONNECTED", "POWER_IRQ",
   "BATTERY_REFRESH", "ENTER_DEEP_SLEEP", "OTA_BEGIN", "OTA_PROGRESS", "OTA_DONE", "OTA_END"}

Events == {Event(type) : type \in EventTypes} \cup {UiStateEvent(state) : state \in UiStates}

Tasks ==
  {"idle", "starting", "announcing", "stoppingForClick", "stoppingForRelease",
   "stoppingUnannounced", "stoppingForUpdate", "sleeping"}

RecordFlagsOK ==
  /\ recording \in BOOLEAN /\ recordingPmLocked \in BOOLEAN /\ running \in BOOLEAN
  /\ otaUpdating \in BOOLEAN /\ otaPmLocked \in BOOLEAN
  /\ primaryDown \in BOOLEAN

TimerFlagsOK ==
  /\ externalPower \in BOOLEAN
  /\ dimTimer \in BOOLEAN /\ sleepTimer \in BOOLEAN
  /\ displayDimmed \in BOOLEAN /\ dimming \in BOOLEAN

BoardFlagsOK ==
  /\ connected \in BOOLEAN /\ ready \in BOOLEAN
  /\ irqEnabled \in BOOLEAN /\ panel \in BOOLEAN /\ supply \in BOOLEAN
  /\ frontHeld \in BOOLEAN /\ awake \in BOOLEAN

ValuesOK ==
  /\ appUiState \in {"ready", "recording"} \cup UiStates
  /\ interactionMode \in {Hold} \cup Modes
  /\ primarySession \in Nat /\ announced \in Nat
  /\ nextSession \in Nat \ {0}
  /\ task \in Tasks
  /\ update \in {"none", "active", "rebooting"}

QueueOK == queue \in Seq(Events) /\ Len(queue) <= QueueLength

(* The values the variables range over; the queue holds QueueLength events *)
(* at most. *)
TypeOK == RecordFlagsOK /\ TimerFlagsOK /\ BoardFlagsOK /\ ValuesOK /\ QueueOK

(* Between two events, main.c, the audio pipeline and the power locks      *)
(* agree on whether something records, and the update's lock is held       *)
(* during an update only: no path of a handler keeps the CPU at full speed *)
(* or a pipeline running that nobody would stop.                           *)
ResourcesFollow ==
  awake /\ task = "idle" =>
    /\ recording = running
    /\ recording = recordingPmLocked
    /\ otaPmLocked => otaUpdating

(* Neither timer counts while something records, whatever restarted them   *)
(* last: a press, a change of supply, a refused sleep. *)
BusyIsAwake ==
  awake /\ task = "idle" /\ recording => ~dimTimer /\ ~sleepTimer

(* docs/protocol.md: "hold_to_talk starts audio on primary down and stops  *)
(* on primary up".  A recording goes on only while the button is held or   *)
(* its release waits to be handled.                                        *)
HeldWhileRecording ==
  awake /\ task = "idle" /\ recording /\ interactionMode = Hold =>
    frontHeld \/ Event("FRONT_UP") \in {queue[i] : i \in DOMAIN queue}

(* docs/protocol.md: "While OTA is active, the device ignores push-to-talk *)
(* input".  Once its events are handled, nothing records during an update, *)
(* also when the update began in the middle of a start, and nothing that   *)
(* records is taken for an update after one ended.                         *)
UpdateStopsRecording ==
  awake /\ task = "idle" /\ queue = <<>> /\ update # "rebooting" =>
    ~(recording /\ (update = "active" \/ otaUpdating))

(* docs/protocol.md: "On battery power it enters deep sleep after 5        *)
(* minutes".  An idle device on battery power whose button is up counts    *)
(* the time to deep sleep.                                                 *)
IdleSleeps ==
  /\ awake /\ task = "idle" /\ queue = <<>>
  /\ ~recording /\ ~otaUpdating /\ ~externalPower /\ ~frontHeld
  => sleepTimer

(* Once the button is up and its events are handled, the app is not left   *)
(* with a recording that was announced to it and whose end was not, also   *)
(* when the connection it was announced on replaced the one it began on.   *)
ReleaseAnnounced ==
  awake /\ task = "idle" /\ queue = <<>> /\ ~frontHeld => announced = 0

(* docs/protocol.md: "The front button wakes the device from deep sleep".  *)
(* A device that is awake has its panel and the panel's supply on.  Does   *)
(* not hold: a press in the last 200 ms before deep sleep aborts it with   *)
(* both off (main.c:327).                                                  *)
AwakeIsLit == awake /\ task = "idle" => panel

(* A recording whose button is up ends, if app_event_task is scheduled.   *)
ReleaseStops == recording /\ ~frontHeld ~> ~recording
=============================================================================
