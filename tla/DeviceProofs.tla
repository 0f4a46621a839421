---------------------------- MODULE DeviceProofs ----------------------------
(***************************************************************************)
(* Proofs about the device.                                                *)
(*                                                                         *)
(* DeviceController, for every queue length, any number of recordings and  *)
(* any choice of what happens around the device: DInv is the inductive     *)
(* invariant.  UpdateInv is inductive with it when the queue does not      *)
(* overflow, and HeldInv when the app also asks for hold to talk only;     *)
(* SleepInv and AnnouncedInv need those before them.                       *)
(*                                                                         *)
(* VoiceBleLink, for every set of MTUs, every number of faults and every   *)
(* bundle size: IInv of that module is inductive as it stands.             *)
(***************************************************************************)
EXTENDS DeviceController, VoiceBleLink, TLAPS

\* Where app_event_task is, and what it holds there.
TaskInv ==
  /\ running = recording
  /\ task \in {"idle", "announcing", "sleeping"} => recordingPmLocked = recording
  /\ task = "starting" => recordingPmLocked
  /\ task = "announcing" => recording
  /\ task \notin {"idle", "announcing"} => ~recording
  /\ task = "stoppingForUpdate" => otaUpdating
  /\ otaPmLocked => otaUpdating

\* The timers while something records.
TimerInv == recording => ~dimTimer /\ ~sleepTimer

DInv == TypeOK /\ TaskInv /\ TimerInv

-----------------------------------------------------------------------------
LEMMA QueueLengthPositive == QueueLength \in Nat \ {0}
BY ControllerAssumption

\* What the queue holds after an event was taken out, or one was put in.
LEMMA ReceivedFacts ==
  ASSUME TypeOK, NEW type, Receive(type)
  PROVE  /\ awake
         /\ task = "idle"
         /\ Head(queue) \in Events
         /\ Head(queue).type = type
         /\ QueueOK'
BY ControllerAssumption DEF TypeOK, QueueOK, Receive

LEMMA QueuedFacts ==
  ASSUME NEW q \in Seq(Events), Len(q) <= QueueLength, NEW e \in Events
  PROVE  /\ Queued(q, e) \in Seq(Events)
         /\ Len(Queued(q, e)) <= QueueLength
BY ControllerAssumption DEF Queued

LEMMA EnqueuedFacts ==
  ASSUME TypeOK, NEW e \in Events, Enqueue(e)
  PROVE  QueueOK'
BY QueuedFacts DEF TypeOK, QueueOK, Enqueue

\* What a restart of the timers leaves.
LEMMA TimerFacts ==
  ASSUME NEW rec \in BOOLEAN, NEW upd \in BOOLEAN, externalPower \in BOOLEAN,
         RestartTimers(rec, upd)
  PROVE  /\ dimTimer' \in BOOLEAN /\ sleepTimer' \in BOOLEAN
         /\ rec => ~dimTimer' /\ ~sleepTimer'
BY DEF RestartTimers, DimRuns, SleepRuns

\* Every event that is sent is one the queue is made for.
LEMMA EventFacts ==
  /\ \A type \in EventTypes : Event(type) \in Events
  /\ \A state \in UiStates : UiStateEvent(state) \in Events
  /\ \A e \in Events : e.type = "UI_STATE" => e.state \in UiStates
<1>1. \A type \in EventTypes : Event(type) \in Events
  BY DEF Events
<1>2. \A state \in UiStates : UiStateEvent(state) \in Events
  BY DEF Events
<1>3. \A e \in Events : e.type = "UI_STATE" => e.state \in UiStates
  <2> SUFFICES ASSUME NEW e \in Events, e.type = "UI_STATE"
               PROVE  e.state \in UiStates
    OBVIOUS
  <2>1. CASE \E type \in EventTypes : e = Event(type)
    <3> PICK type \in EventTypes : e = Event(type)
      BY <2>1
    <3>1. e.type = type
      BY DEF Event
    <3> QED
      BY <3>1 DEF EventTypes
  <2>2. CASE \E state \in UiStates : e = UiStateEvent(state)
    BY <2>2 DEF UiStateEvent
  <2> QED
    BY <2>1, <2>2 DEF Events
<1> QED
  BY <1>1, <1>2, <1>3

\* What a battery reading leaves.
LEMMA BatteryFacts ==
  ASSUME RecordFlagsOK, TimerFlagsOK, BoardFlagsOK, TimerInv, BatteryRead
  PROVE  /\ externalPower' \in BOOLEAN /\ sleepTimer' \in BOOLEAN
         /\ recording => ~sleepTimer'
<1> USE DEF RecordFlagsOK, TimerFlagsOK, BoardFlagsOK, TimerInv, SleepRuns
<1>1. CASE UNCHANGED <<externalPower, sleepTimer>>
  BY <1>1
<1>2. CASE externalPower' = supply /\ supply = externalPower /\ sleepTimer' = sleepTimer
  BY <1>2
<1>3. CASE externalPower' = supply /\ sleepTimer' = SleepRuns(recording, otaUpdating, supply)
  BY <1>3
<1> QED
  BY <1>1, <1>2, <1>3 DEF BatteryRead

\* What the app was told is a session or none.
LEMMA AnnouncedFacts ==
  ASSUME ValuesOK, NEW session
  PROVE  AnnouncedEnd(session) \in Nat
BY DEF ValuesOK, AnnouncedEnd

\* A restart.
LEMMA RestartFacts ==
  ASSUME BoardFlagsOK, NEW held \in BOOLEAN, Restart(held)
  PROVE  TimerFlagsOK' /\ QueueOK'
<1>1. externalPower' \in BOOLEAN
  BY DEF Restart, BoardFlagsOK
<1>2. sleepTimer' \in BOOLEAN
  BY DEF Restart
<1>3. TimerFlagsOK'
  BY <1>1, <1>2 DEF Restart, TimerFlagsOK
<1>4. Event("FRONT_DOWN") \in Events
  BY EventFacts DEF EventTypes
<1>5. queue' = <<>> \/ queue' = <<Event("FRONT_DOWN")>>
  BY DEF Restart
<1>6. CASE queue' = <<>>
  BY <1>3, <1>6, QueueLengthPositive DEF QueueOK
<1>7. CASE queue' = <<Event("FRONT_DOWN")>>
  <2>1. queue' \in Seq(Events) /\ Len(queue') = 1
    BY <1>4, <1>7
  <2> QED
    BY <1>3, <2>1, QueueLengthPositive DEF QueueOK
<1> QED
  BY <1>5, <1>6, <1>7

\* The initial states.
LEMMA InitInv == Init => DInv
<1> SUFFICES ASSUME Init PROVE DInv
  OBVIOUS
<1>1. RecordFlagsOK /\ BoardFlagsOK
  BY DEF Init, RecordFlagsOK, BoardFlagsOK
<1>2. TimerFlagsOK
  BY DEF Init, TimerFlagsOK
<1>3. ValuesOK
  BY DEF Init, ValuesOK, Tasks
<1>4. QueueOK
  BY ControllerAssumption DEF Init, QueueOK
<1>5. TaskInv /\ TimerInv
  BY DEF Init, TaskInv, TimerInv
<1> QED
  BY <1>1, <1>2, <1>3, <1>4, <1>5 DEF DInv, TypeOK

-----------------------------------------------------------------------------
\* A press of the front button.
LEMMA PressStep ==
  ASSUME DInv, FrontDownStops \/ FrontDownConfirms \/ FrontDownDenied \/ FrontDownStarts
  PROVE  DInv'
<1> USE DEF DInv, TypeOK, pressVars, recordVars, updateVars, timerVars, linkVars, boardVars, stateVars
<1>1. CASE FrontDownStops
  <2>1. RecordFlagsOK'
    BY <1>1, ReceivedFacts, TimerFacts DEF FrontDownStops, NoteActivity, BeginStop, RecordFlagsOK
  <2>2. TimerFlagsOK'
    BY <1>1, ReceivedFacts, TimerFacts DEF FrontDownStops, NoteActivity, BeginStop, RecordFlagsOK, TimerFlagsOK
  <2>3. BoardFlagsOK'
    BY <1>1, ReceivedFacts, TimerFacts DEF FrontDownStops, NoteActivity, BeginStop, BoardFlagsOK
  <2>4. ValuesOK'
    BY <1>1, ReceivedFacts, TimerFacts DEF FrontDownStops, NoteActivity, BeginStop, ValuesOK, Tasks
  <2>5. QueueOK'
    BY <1>1, ReceivedFacts, TimerFacts DEF FrontDownStops, NoteActivity, BeginStop, QueueOK
  <2>6. TaskInv'
    BY <1>1, ReceivedFacts, TimerFacts DEF FrontDownStops, NoteActivity, BeginStop, RecordFlagsOK, TaskInv
  <2>7. TimerInv'
    BY <1>1, ReceivedFacts, TimerFacts DEF FrontDownStops, NoteActivity, BeginStop, RecordFlagsOK, TimerFlagsOK, TaskInv, TimerInv
  <2> QED
    BY <2>1, <2>2, <2>3, <2>4, <2>5, <2>6, <2>7
<1>2. CASE FrontDownConfirms
  <2>1. RecordFlagsOK'
    BY <1>2, ReceivedFacts, TimerFacts DEF FrontDownConfirms, FrontDownBegins, NoteActivity, RecordFlagsOK
  <2>2. TimerFlagsOK'
    BY <1>2, ReceivedFacts, TimerFacts DEF FrontDownConfirms, FrontDownBegins, NoteActivity, RecordFlagsOK, TimerFlagsOK
  <2>3. BoardFlagsOK'
    BY <1>2, ReceivedFacts, TimerFacts DEF FrontDownConfirms, FrontDownBegins, NoteActivity, BoardFlagsOK
  <2>4. ValuesOK'
    BY <1>2, ReceivedFacts, TimerFacts DEF FrontDownConfirms, FrontDownBegins, NoteActivity, ValuesOK, Tasks
  <2>5. QueueOK'
    BY <1>2, ReceivedFacts, TimerFacts DEF FrontDownConfirms, FrontDownBegins, NoteActivity, QueueOK
  <2>6. TaskInv'
    BY <1>2, ReceivedFacts, TimerFacts DEF FrontDownConfirms, FrontDownBegins, NoteActivity, RecordFlagsOK, TaskInv
  <2>7. TimerInv'
    BY <1>2, ReceivedFacts, TimerFacts DEF FrontDownConfirms, FrontDownBegins, NoteActivity, RecordFlagsOK, TimerFlagsOK, TaskInv, TimerInv
  <2> QED
    BY <2>1, <2>2, <2>3, <2>4, <2>5, <2>6, <2>7
<1>3. CASE FrontDownDenied
  <2>1. RecordFlagsOK'
    BY <1>3, ReceivedFacts, TimerFacts DEF FrontDownDenied, FrontDownBegins, NoteActivity, RecordFlagsOK
  <2>2. TimerFlagsOK'
    BY <1>3, ReceivedFacts, TimerFacts DEF FrontDownDenied, FrontDownBegins, NoteActivity, RecordFlagsOK, TimerFlagsOK
  <2>3. BoardFlagsOK'
    BY <1>3, ReceivedFacts, TimerFacts DEF FrontDownDenied, FrontDownBegins, NoteActivity, BoardFlagsOK
  <2>4. ValuesOK'
    BY <1>3, ReceivedFacts, TimerFacts DEF FrontDownDenied, FrontDownBegins, NoteActivity, ValuesOK, Tasks
  <2>5. QueueOK'
    BY <1>3, ReceivedFacts, TimerFacts DEF FrontDownDenied, FrontDownBegins, NoteActivity, QueueOK
  <2>6. TaskInv'
    BY <1>3, ReceivedFacts, TimerFacts DEF FrontDownDenied, FrontDownBegins, NoteActivity, RecordFlagsOK, TaskInv
  <2>7. TimerInv'
    BY <1>3, ReceivedFacts, TimerFacts DEF FrontDownDenied, FrontDownBegins, NoteActivity, RecordFlagsOK, TimerFlagsOK, TaskInv, TimerInv
  <2> QED
    BY <2>1, <2>2, <2>3, <2>4, <2>5, <2>6, <2>7
<1>4. CASE FrontDownStarts
  <2>1. RecordFlagsOK'
    BY <1>4, ReceivedFacts, TimerFacts DEF FrontDownStarts, FrontDownBegins, NoteActivity, StartAllowed, Busy, RecordFlagsOK
  <2>2. TimerFlagsOK'
    BY <1>4, ReceivedFacts, TimerFacts DEF FrontDownStarts, FrontDownBegins, NoteActivity, StartAllowed, Busy, RecordFlagsOK, TimerFlagsOK
  <2>3. BoardFlagsOK'
    BY <1>4, ReceivedFacts, TimerFacts DEF FrontDownStarts, FrontDownBegins, NoteActivity, StartAllowed, Busy, BoardFlagsOK
  <2>4. ValuesOK'
    BY <1>4, ReceivedFacts, TimerFacts DEF FrontDownStarts, FrontDownBegins, NoteActivity, StartAllowed, Busy, ValuesOK, Tasks
  <2>5. QueueOK'
    BY <1>4, ReceivedFacts, TimerFacts DEF FrontDownStarts, FrontDownBegins, NoteActivity, StartAllowed, Busy, QueueOK
  <2>6. TaskInv'
    BY <1>4, ReceivedFacts, TimerFacts DEF FrontDownStarts, FrontDownBegins, NoteActivity, StartAllowed, Busy, RecordFlagsOK, TaskInv
  <2>7. TimerInv'
    BY <1>4, ReceivedFacts, TimerFacts DEF FrontDownStarts, FrontDownBegins, NoteActivity, StartAllowed, Busy, RecordFlagsOK, TimerFlagsOK, TaskInv, TimerInv
  <2> QED
    BY <2>1, <2>2, <2>3, <2>4, <2>5, <2>6, <2>7
<1> QED
  BY <1>1, <1>2, <1>3, <1>4

\* The rest of a start.
LEMMA StartStep ==
  ASSUME DInv, StartFailed \/ StartSucceeded \/ StartAnnounced
  PROVE  DInv'
<1> USE DEF DInv, TypeOK, pressVars, recordVars, updateVars, timerVars, linkVars, boardVars, stateVars
<1>1. CASE StartFailed
  <2>1. RecordFlagsOK'
    BY <1>1 DEF StartFailed, RecordFlagsOK
  <2>2. TimerFlagsOK'
    BY <1>1 DEF StartFailed, RecordFlagsOK, TimerFlagsOK
  <2>3. BoardFlagsOK'
    BY <1>1 DEF StartFailed, BoardFlagsOK
  <2>4. ValuesOK'
    BY <1>1 DEF StartFailed, ValuesOK, Tasks
  <2>5. QueueOK'
    BY <1>1 DEF StartFailed, QueueOK
  <2>6. TaskInv'
    BY <1>1 DEF StartFailed, RecordFlagsOK, TaskInv
  <2>7. TimerInv'
    BY <1>1 DEF StartFailed, RecordFlagsOK, TimerFlagsOK, TaskInv, TimerInv
  <2> QED
    BY <2>1, <2>2, <2>3, <2>4, <2>5, <2>6, <2>7
<1>2. CASE StartSucceeded
  <2>1. RecordFlagsOK'
    BY <1>2, TimerFacts DEF StartSucceeded, RecordFlagsOK
  <2>2. TimerFlagsOK'
    BY <1>2, TimerFacts DEF StartSucceeded, RecordFlagsOK, TimerFlagsOK
  <2>3. BoardFlagsOK'
    BY <1>2, TimerFacts DEF StartSucceeded, BoardFlagsOK
  <2>4. ValuesOK'
    BY <1>2, TimerFacts DEF StartSucceeded, ValuesOK, Tasks
  <2>5. QueueOK'
    BY <1>2, TimerFacts DEF StartSucceeded, QueueOK
  <2>6. TaskInv'
    BY <1>2, TimerFacts DEF StartSucceeded, RecordFlagsOK, TaskInv
  <2>7. TimerInv'
    BY <1>2, TimerFacts DEF StartSucceeded, RecordFlagsOK, TimerFlagsOK, TaskInv, TimerInv
  <2> QED
    BY <2>1, <2>2, <2>3, <2>4, <2>5, <2>6, <2>7
<1>3. CASE StartAnnounced
  <2>1. RecordFlagsOK'
    BY <1>3 DEF StartAnnounced, BeginStop, RecordFlagsOK
  <2>2. TimerFlagsOK'
    BY <1>3 DEF StartAnnounced, BeginStop, RecordFlagsOK, TimerFlagsOK
  <2>3. BoardFlagsOK'
    BY <1>3 DEF StartAnnounced, BeginStop, BoardFlagsOK
  <2>4. ValuesOK'
    BY <1>3 DEF StartAnnounced, BeginStop, ValuesOK, Tasks
  <2>5. QueueOK'
    BY <1>3 DEF StartAnnounced, BeginStop, QueueOK
  <2>6. TaskInv'
    BY <1>3 DEF StartAnnounced, BeginStop, RecordFlagsOK, TaskInv
  <2>7. TimerInv'
    BY <1>3 DEF StartAnnounced, BeginStop, RecordFlagsOK, TimerFlagsOK, TaskInv, TimerInv
  <2> QED
    BY <2>1, <2>2, <2>3, <2>4, <2>5, <2>6, <2>7
<1> QED
  BY <1>1, <1>2, <1>3

\* A release of the front button.
LEMMA ReleaseStep ==
  ASSUME DInv, FrontUpIgnored \/ FrontUpStops \/ FrontUpSent
  PROVE  DInv'
<1> USE DEF DInv, TypeOK, pressVars, recordVars, updateVars, timerVars, linkVars, boardVars, stateVars
<1>1. CASE FrontUpIgnored
  <2>1. RecordFlagsOK'
    BY <1>1, ReceivedFacts, TimerFacts DEF FrontUpIgnored, NoteActivity, RecordFlagsOK
  <2>2. TimerFlagsOK'
    BY <1>1, ReceivedFacts, TimerFacts DEF FrontUpIgnored, NoteActivity, RecordFlagsOK, TimerFlagsOK
  <2>3. BoardFlagsOK'
    BY <1>1, ReceivedFacts, TimerFacts DEF FrontUpIgnored, NoteActivity, BoardFlagsOK
  <2>4. ValuesOK'
    BY <1>1, ReceivedFacts, TimerFacts DEF FrontUpIgnored, NoteActivity, ValuesOK, Tasks
  <2>5. QueueOK'
    BY <1>1, ReceivedFacts, TimerFacts DEF FrontUpIgnored, NoteActivity, QueueOK
  <2>6. TaskInv'
    BY <1>1, ReceivedFacts, TimerFacts DEF FrontUpIgnored, NoteActivity, RecordFlagsOK, TaskInv
  <2>7. TimerInv'
    BY <1>1, ReceivedFacts, TimerFacts DEF FrontUpIgnored, NoteActivity, RecordFlagsOK, TimerFlagsOK, TaskInv, TimerInv
  <2> QED
    BY <2>1, <2>2, <2>3, <2>4, <2>5, <2>6, <2>7
<1>2. CASE FrontUpStops
  <2>1. RecordFlagsOK'
    BY <1>2, ReceivedFacts, TimerFacts DEF FrontUpStops, NoteActivity, BeginStop, RecordFlagsOK
  <2>2. TimerFlagsOK'
    BY <1>2, ReceivedFacts, TimerFacts DEF FrontUpStops, NoteActivity, BeginStop, RecordFlagsOK, TimerFlagsOK
  <2>3. BoardFlagsOK'
    BY <1>2, ReceivedFacts, TimerFacts DEF FrontUpStops, NoteActivity, BeginStop, BoardFlagsOK
  <2>4. ValuesOK'
    BY <1>2, ReceivedFacts, TimerFacts DEF FrontUpStops, NoteActivity, BeginStop, ValuesOK, Tasks
  <2>5. QueueOK'
    BY <1>2, ReceivedFacts, TimerFacts DEF FrontUpStops, NoteActivity, BeginStop, QueueOK
  <2>6. TaskInv'
    BY <1>2, ReceivedFacts, TimerFacts DEF FrontUpStops, NoteActivity, BeginStop, RecordFlagsOK, TaskInv
  <2>7. TimerInv'
    BY <1>2, ReceivedFacts, TimerFacts DEF FrontUpStops, NoteActivity, BeginStop, RecordFlagsOK, TimerFlagsOK, TaskInv, TimerInv
  <2> QED
    BY <2>1, <2>2, <2>3, <2>4, <2>5, <2>6, <2>7
<1>3. CASE FrontUpSent
  <2>1. RecordFlagsOK'
    BY <1>3, ReceivedFacts, TimerFacts DEF FrontUpSent, NoteActivity, AnnouncedEnd, RecordFlagsOK
  <2>2. TimerFlagsOK'
    BY <1>3, ReceivedFacts, TimerFacts DEF FrontUpSent, NoteActivity, AnnouncedEnd, RecordFlagsOK, TimerFlagsOK
  <2>3. BoardFlagsOK'
    BY <1>3, ReceivedFacts, TimerFacts DEF FrontUpSent, NoteActivity, AnnouncedEnd, BoardFlagsOK
  <2>4. ValuesOK'
    BY <1>3, ReceivedFacts, TimerFacts DEF FrontUpSent, NoteActivity, AnnouncedEnd, ValuesOK, Tasks
  <2>5. QueueOK'
    BY <1>3, ReceivedFacts, TimerFacts DEF FrontUpSent, NoteActivity, AnnouncedEnd, QueueOK
  <2>6. TaskInv'
    BY <1>3, ReceivedFacts, TimerFacts DEF FrontUpSent, NoteActivity, AnnouncedEnd, RecordFlagsOK, TaskInv
  <2>7. TimerInv'
    BY <1>3, ReceivedFacts, TimerFacts DEF FrontUpSent, NoteActivity, AnnouncedEnd, RecordFlagsOK, TimerFlagsOK, TaskInv, TimerInv
  <2> QED
    BY <2>1, <2>2, <2>3, <2>4, <2>5, <2>6, <2>7
<1> QED
  BY <1>1, <1>2, <1>3

\* The rest of a stop.
LEMMA StopStep ==
  ASSUME DInv, StoppedForButton \/ StoppedUnannounced \/ StoppedForUpdate
  PROVE  DInv'
<1> USE DEF DInv, TypeOK, pressVars, recordVars, updateVars, timerVars, linkVars, boardVars, stateVars
<1>1. CASE StoppedForButton
  <2>1. RecordFlagsOK'
    BY <1>1, TimerFacts, AnnouncedFacts DEF StoppedForButton, EndStop, BackToReady, NoteActivity, RecordFlagsOK
  <2>2. TimerFlagsOK'
    BY <1>1, TimerFacts, AnnouncedFacts DEF StoppedForButton, EndStop, BackToReady, NoteActivity, RecordFlagsOK, TimerFlagsOK
  <2>3. BoardFlagsOK'
    BY <1>1, TimerFacts, AnnouncedFacts DEF StoppedForButton, EndStop, BackToReady, NoteActivity, BoardFlagsOK
  <2>4. ValuesOK'
    BY <1>1, TimerFacts, AnnouncedFacts DEF StoppedForButton, EndStop, BackToReady, NoteActivity, ValuesOK, Tasks
  <2>5. QueueOK'
    BY <1>1, TimerFacts, AnnouncedFacts DEF StoppedForButton, EndStop, BackToReady, NoteActivity, QueueOK
  <2>6. TaskInv'
    BY <1>1, TimerFacts, AnnouncedFacts DEF StoppedForButton, EndStop, BackToReady, NoteActivity, RecordFlagsOK, TaskInv
  <2>7. TimerInv'
    BY <1>1, TimerFacts, AnnouncedFacts DEF StoppedForButton, EndStop, BackToReady, NoteActivity, RecordFlagsOK, TimerFlagsOK, TaskInv, TimerInv
  <2> QED
    BY <2>1, <2>2, <2>3, <2>4, <2>5, <2>6, <2>7
<1>2. CASE StoppedUnannounced
  <2>1. RecordFlagsOK'
    BY <1>2, TimerFacts DEF StoppedUnannounced, EndStop, BackToReady, NoteActivity, RecordFlagsOK
  <2>2. TimerFlagsOK'
    BY <1>2, TimerFacts DEF StoppedUnannounced, EndStop, BackToReady, NoteActivity, RecordFlagsOK, TimerFlagsOK
  <2>3. BoardFlagsOK'
    BY <1>2, TimerFacts DEF StoppedUnannounced, EndStop, BackToReady, NoteActivity, BoardFlagsOK
  <2>4. ValuesOK'
    BY <1>2, TimerFacts DEF StoppedUnannounced, EndStop, BackToReady, NoteActivity, ValuesOK, Tasks
  <2>5. QueueOK'
    BY <1>2, TimerFacts DEF StoppedUnannounced, EndStop, BackToReady, NoteActivity, QueueOK
  <2>6. TaskInv'
    BY <1>2, TimerFacts DEF StoppedUnannounced, EndStop, BackToReady, NoteActivity, RecordFlagsOK, TaskInv
  <2>7. TimerInv'
    BY <1>2, TimerFacts DEF StoppedUnannounced, EndStop, BackToReady, NoteActivity, RecordFlagsOK, TimerFlagsOK, TaskInv, TimerInv
  <2> QED
    BY <2>1, <2>2, <2>3, <2>4, <2>5, <2>6, <2>7
<1>3. CASE StoppedForUpdate
  <2>1. RecordFlagsOK'
    BY <1>3, TimerFacts DEF StoppedForUpdate, EndStop, OtaLocked, NoteActivity, AnnouncedEnd, RecordFlagsOK
  <2>2. TimerFlagsOK'
    BY <1>3, TimerFacts DEF StoppedForUpdate, EndStop, OtaLocked, NoteActivity, AnnouncedEnd, RecordFlagsOK, TimerFlagsOK
  <2>3. BoardFlagsOK'
    BY <1>3, TimerFacts DEF StoppedForUpdate, EndStop, OtaLocked, NoteActivity, AnnouncedEnd, BoardFlagsOK
  <2>4. ValuesOK'
    BY <1>3, TimerFacts DEF StoppedForUpdate, EndStop, OtaLocked, NoteActivity, AnnouncedEnd, ValuesOK, Tasks
  <2>5. QueueOK'
    BY <1>3, TimerFacts DEF StoppedForUpdate, EndStop, OtaLocked, NoteActivity, AnnouncedEnd, QueueOK
  <2>6. TaskInv'
    BY <1>3, TimerFacts DEF StoppedForUpdate, EndStop, OtaLocked, NoteActivity, AnnouncedEnd, RecordFlagsOK, TaskInv
  <2>7. TimerInv'
    BY <1>3, TimerFacts DEF StoppedForUpdate, EndStop, OtaLocked, NoteActivity, AnnouncedEnd, RecordFlagsOK, TimerFlagsOK, TaskInv, TimerInv
  <2> QED
    BY <2>1, <2>2, <2>3, <2>4, <2>5, <2>6, <2>7
<1> QED
  BY <1>1, <1>2, <1>3

\* What the app and the link ask for.
LEMMA LinkStep ==
  ASSUME DInv, SideButton \/ UiState \/ BleConnected \/ BleDisconnected
  PROVE  DInv'
<1> USE DEF DInv, TypeOK, pressVars, recordVars, updateVars, timerVars, linkVars, boardVars, stateVars
<1>1. CASE SideButton
  <2>1. RecordFlagsOK'
    BY <1>1, ReceivedFacts, TimerFacts DEF SideButton, NoteActivity, RecordFlagsOK
  <2>2. TimerFlagsOK'
    BY <1>1, ReceivedFacts, TimerFacts DEF SideButton, NoteActivity, RecordFlagsOK, TimerFlagsOK
  <2>3. BoardFlagsOK'
    BY <1>1, ReceivedFacts, TimerFacts DEF SideButton, NoteActivity, BoardFlagsOK
  <2>4. ValuesOK'
    BY <1>1, ReceivedFacts, TimerFacts DEF SideButton, NoteActivity, ValuesOK, Tasks
  <2>5. QueueOK'
    BY <1>1, ReceivedFacts, TimerFacts DEF SideButton, NoteActivity, QueueOK
  <2>6. TaskInv'
    BY <1>1, ReceivedFacts, TimerFacts DEF SideButton, NoteActivity, RecordFlagsOK, TaskInv
  <2>7. TimerInv'
    BY <1>1, ReceivedFacts, TimerFacts DEF SideButton, NoteActivity, RecordFlagsOK, TimerFlagsOK, TaskInv, TimerInv
  <2> QED
    BY <2>1, <2>2, <2>3, <2>4, <2>5, <2>6, <2>7
<1>2. CASE UiState
  <2>1. RecordFlagsOK'
    BY <1>2, ReceivedFacts, TimerFacts, EventFacts DEF UiState, BackToReady, NoteActivity, RecordFlagsOK
  <2>2. TimerFlagsOK'
    BY <1>2, ReceivedFacts, TimerFacts, EventFacts DEF UiState, BackToReady, NoteActivity, RecordFlagsOK, TimerFlagsOK
  <2>3. BoardFlagsOK'
    BY <1>2, ReceivedFacts, TimerFacts, EventFacts DEF UiState, BackToReady, NoteActivity, BoardFlagsOK
  <2>4. ValuesOK'
    <3>1. Head(queue).state \in UiStates
      BY <1>2, ReceivedFacts, EventFacts DEF UiState
    <3>2. appUiState' \in {"ready", "recording"} \cup UiStates
      BY <1>2, <3>1 DEF UiState, BackToReady, ValuesOK
    <3> QED
      BY <1>2, <3>2 DEF UiState, ValuesOK, Tasks
  <2>5. QueueOK'
    BY <1>2, ReceivedFacts, TimerFacts, EventFacts DEF UiState, BackToReady, NoteActivity, QueueOK
  <2>6. TaskInv'
    BY <1>2, ReceivedFacts, TimerFacts, EventFacts DEF UiState, BackToReady, NoteActivity, RecordFlagsOK, TaskInv
  <2>7. TimerInv'
    BY <1>2, ReceivedFacts, TimerFacts, EventFacts DEF UiState, BackToReady, NoteActivity, RecordFlagsOK, TimerFlagsOK, TaskInv, TimerInv
  <2> QED
    BY <2>1, <2>2, <2>3, <2>4, <2>5, <2>6, <2>7
<1>3. CASE BleConnected
  <2>1. RecordFlagsOK'
    BY <1>3, ReceivedFacts, TimerFacts DEF BleConnected, NoteActivity, RecordFlagsOK
  <2>2. TimerFlagsOK'
    BY <1>3, ReceivedFacts, TimerFacts DEF BleConnected, NoteActivity, RecordFlagsOK, TimerFlagsOK
  <2>3. BoardFlagsOK'
    BY <1>3, ReceivedFacts, TimerFacts DEF BleConnected, NoteActivity, BoardFlagsOK
  <2>4. ValuesOK'
    BY <1>3, ReceivedFacts, TimerFacts DEF BleConnected, NoteActivity, ValuesOK, Tasks
  <2>5. QueueOK'
    BY <1>3, ReceivedFacts, TimerFacts DEF BleConnected, NoteActivity, QueueOK
  <2>6. TaskInv'
    BY <1>3, ReceivedFacts, TimerFacts DEF BleConnected, NoteActivity, RecordFlagsOK, TaskInv
  <2>7. TimerInv'
    BY <1>3, ReceivedFacts, TimerFacts DEF BleConnected, NoteActivity, RecordFlagsOK, TimerFlagsOK, TaskInv, TimerInv
  <2> QED
    BY <2>1, <2>2, <2>3, <2>4, <2>5, <2>6, <2>7
<1>4. CASE BleDisconnected
  <2>1. RecordFlagsOK'
    BY <1>4, ReceivedFacts DEF BleDisconnected, LinkLostEnds, RecordFlagsOK
  <2>2. TimerFlagsOK'
    BY <1>4, ReceivedFacts DEF BleDisconnected, LinkLostEnds, RecordFlagsOK, TimerFlagsOK
  <2>3. BoardFlagsOK'
    BY <1>4, ReceivedFacts DEF BleDisconnected, LinkLostEnds, BoardFlagsOK
  <2>4. ValuesOK'
    BY <1>4, ReceivedFacts DEF BleDisconnected, LinkLostEnds, ValuesOK, Tasks
  <2>5. QueueOK'
    BY <1>4, ReceivedFacts DEF BleDisconnected, LinkLostEnds, QueueOK
  <2>6. TaskInv'
    BY <1>4, ReceivedFacts DEF BleDisconnected, LinkLostEnds, RecordFlagsOK, TaskInv
  <2>7. TimerInv'
    BY <1>4, ReceivedFacts DEF BleDisconnected, LinkLostEnds, RecordFlagsOK, TimerFlagsOK, TaskInv, TimerInv
  <2> QED
    BY <2>1, <2>2, <2>3, <2>4, <2>5, <2>6, <2>7
<1> QED
  BY <1>1, <1>2, <1>3, <1>4

\* Battery and deep sleep.
LEMMA PowerStep ==
  ASSUME DInv, BatteryRefresh \/ SleepRefused \/ SleepPrepared \/ SleepAborted \/ SleepStarted
  PROVE  DInv'
<1> USE DEF DInv, TypeOK, pressVars, recordVars, updateVars, timerVars, linkVars, boardVars, stateVars
<1>1. CASE BatteryRefresh
  <2>1. RecordFlagsOK'
    BY <1>1, ReceivedFacts, BatteryFacts DEF BatteryRefresh, RecordFlagsOK
  <2>2. TimerFlagsOK'
    BY <1>1, ReceivedFacts, BatteryFacts DEF BatteryRefresh, RecordFlagsOK, TimerFlagsOK
  <2>3. BoardFlagsOK'
    BY <1>1, ReceivedFacts, BatteryFacts DEF BatteryRefresh, BoardFlagsOK
  <2>4. ValuesOK'
    BY <1>1, ReceivedFacts, BatteryFacts DEF BatteryRefresh, ValuesOK, Tasks
  <2>5. QueueOK'
    BY <1>1, ReceivedFacts, BatteryFacts DEF BatteryRefresh, QueueOK
  <2>6. TaskInv'
    BY <1>1, ReceivedFacts, BatteryFacts DEF BatteryRefresh, RecordFlagsOK, TaskInv
  <2>7. TimerInv'
    BY <1>1, ReceivedFacts, BatteryFacts DEF BatteryRefresh, RecordFlagsOK, TimerFlagsOK, TaskInv, TimerInv
  <2> QED
    BY <2>1, <2>2, <2>3, <2>4, <2>5, <2>6, <2>7
<1>2. CASE SleepRefused
  <2>1. RecordFlagsOK'
    BY <1>2, ReceivedFacts DEF SleepRefused, RestartSleepTimer, SleepRuns, Busy, RecordFlagsOK
  <2>2. TimerFlagsOK'
    BY <1>2, ReceivedFacts DEF SleepRefused, RestartSleepTimer, SleepRuns, Busy, RecordFlagsOK, TimerFlagsOK
  <2>3. BoardFlagsOK'
    BY <1>2, ReceivedFacts DEF SleepRefused, RestartSleepTimer, SleepRuns, Busy, BoardFlagsOK
  <2>4. ValuesOK'
    BY <1>2, ReceivedFacts DEF SleepRefused, RestartSleepTimer, SleepRuns, Busy, ValuesOK, Tasks
  <2>5. QueueOK'
    BY <1>2, ReceivedFacts DEF SleepRefused, RestartSleepTimer, SleepRuns, Busy, QueueOK
  <2>6. TaskInv'
    BY <1>2, ReceivedFacts DEF SleepRefused, RestartSleepTimer, SleepRuns, Busy, RecordFlagsOK, TaskInv
  <2>7. TimerInv'
    BY <1>2, ReceivedFacts DEF SleepRefused, RestartSleepTimer, SleepRuns, Busy, RecordFlagsOK, TimerFlagsOK, TaskInv, TimerInv
  <2> QED
    BY <2>1, <2>2, <2>3, <2>4, <2>5, <2>6, <2>7
<1>3. CASE SleepPrepared
  <2>1. RecordFlagsOK'
    BY <1>3, ReceivedFacts DEF SleepPrepared, Busy, RecordFlagsOK
  <2>2. TimerFlagsOK'
    BY <1>3, ReceivedFacts DEF SleepPrepared, Busy, RecordFlagsOK, TimerFlagsOK
  <2>3. BoardFlagsOK'
    BY <1>3, ReceivedFacts DEF SleepPrepared, Busy, BoardFlagsOK
  <2>4. ValuesOK'
    BY <1>3, ReceivedFacts DEF SleepPrepared, Busy, ValuesOK, Tasks
  <2>5. QueueOK'
    BY <1>3, ReceivedFacts DEF SleepPrepared, Busy, QueueOK
  <2>6. TaskInv'
    BY <1>3, ReceivedFacts DEF SleepPrepared, Busy, RecordFlagsOK, TaskInv
  <2>7. TimerInv'
    BY <1>3, ReceivedFacts DEF SleepPrepared, Busy, RecordFlagsOK, TimerFlagsOK, TaskInv, TimerInv
  <2> QED
    BY <2>1, <2>2, <2>3, <2>4, <2>5, <2>6, <2>7
<1>4. CASE SleepAborted
  <2>1. RecordFlagsOK'
    BY <1>4 DEF SleepAborted, RestartSleepTimer, SleepRuns, RecordFlagsOK
  <2>2. TimerFlagsOK'
    BY <1>4 DEF SleepAborted, RestartSleepTimer, SleepRuns, RecordFlagsOK, TimerFlagsOK
  <2>3. BoardFlagsOK'
    BY <1>4 DEF SleepAborted, RestartSleepTimer, SleepRuns, BoardFlagsOK
  <2>4. ValuesOK'
    BY <1>4 DEF SleepAborted, RestartSleepTimer, SleepRuns, ValuesOK, Tasks
  <2>5. QueueOK'
    BY <1>4 DEF SleepAborted, RestartSleepTimer, SleepRuns, QueueOK
  <2>6. TaskInv'
    BY <1>4 DEF SleepAborted, RestartSleepTimer, SleepRuns, RecordFlagsOK, TaskInv
  <2>7. TimerInv'
    BY <1>4 DEF SleepAborted, RestartSleepTimer, SleepRuns, RecordFlagsOK, TimerFlagsOK, TaskInv, TimerInv
  <2> QED
    BY <2>1, <2>2, <2>3, <2>4, <2>5, <2>6, <2>7
<1>5. CASE SleepStarted
  <2>1. RecordFlagsOK'
    BY <1>5 DEF SleepStarted, RecordFlagsOK
  <2>2. TimerFlagsOK'
    BY <1>5 DEF SleepStarted, RecordFlagsOK, TimerFlagsOK
  <2>3. BoardFlagsOK'
    BY <1>5 DEF SleepStarted, BoardFlagsOK
  <2>4. ValuesOK'
    BY <1>5 DEF SleepStarted, ValuesOK, Tasks
  <2>5. QueueOK'
    BY <1>5 DEF SleepStarted, QueueOK
  <2>6. TaskInv'
    BY <1>5 DEF SleepStarted, RecordFlagsOK, TaskInv
  <2>7. TimerInv'
    BY <1>5 DEF SleepStarted, RecordFlagsOK, TimerFlagsOK, TaskInv, TimerInv
  <2> QED
    BY <2>1, <2>2, <2>3, <2>4, <2>5, <2>6, <2>7
<1> QED
  BY <1>1, <1>2, <1>3, <1>4, <1>5

\* Events of an update.
LEMMA UpdateTaskStep ==
  ASSUME DInv, OtaBegin \/ OtaProgress \/ OtaDone \/ OtaEnd
  PROVE  DInv'
<1> USE DEF DInv, TypeOK, pressVars, recordVars, updateVars, timerVars, linkVars, boardVars, stateVars
<1>1. CASE OtaBegin
  <2>1. RecordFlagsOK'
    BY <1>1, ReceivedFacts, TimerFacts DEF OtaBegin, OtaLocked, NoteActivity, BeginStop, RecordFlagsOK
  <2>2. TimerFlagsOK'
    BY <1>1, ReceivedFacts, TimerFacts DEF OtaBegin, OtaLocked, NoteActivity, BeginStop, RecordFlagsOK, TimerFlagsOK
  <2>3. BoardFlagsOK'
    BY <1>1, ReceivedFacts, TimerFacts DEF OtaBegin, OtaLocked, NoteActivity, BeginStop, BoardFlagsOK
  <2>4. ValuesOK'
    BY <1>1, ReceivedFacts, TimerFacts DEF OtaBegin, OtaLocked, NoteActivity, BeginStop, ValuesOK, Tasks
  <2>5. QueueOK'
    BY <1>1, ReceivedFacts, TimerFacts DEF OtaBegin, OtaLocked, NoteActivity, BeginStop, QueueOK
  <2>6. TaskInv'
    BY <1>1, ReceivedFacts, TimerFacts DEF OtaBegin, OtaLocked, NoteActivity, BeginStop, RecordFlagsOK, TaskInv
  <2>7. TimerInv'
    BY <1>1, ReceivedFacts, TimerFacts DEF OtaBegin, OtaLocked, NoteActivity, BeginStop, RecordFlagsOK, TimerFlagsOK, TaskInv, TimerInv
  <2> QED
    BY <2>1, <2>2, <2>3, <2>4, <2>5, <2>6, <2>7
<1>2. CASE OtaProgress
  <2>1. RecordFlagsOK'
    BY <1>2, ReceivedFacts DEF OtaProgress, RecordFlagsOK
  <2>2. TimerFlagsOK'
    BY <1>2, ReceivedFacts DEF OtaProgress, RecordFlagsOK, TimerFlagsOK
  <2>3. BoardFlagsOK'
    BY <1>2, ReceivedFacts DEF OtaProgress, BoardFlagsOK
  <2>4. ValuesOK'
    BY <1>2, ReceivedFacts DEF OtaProgress, ValuesOK, Tasks
  <2>5. QueueOK'
    BY <1>2, ReceivedFacts DEF OtaProgress, QueueOK
  <2>6. TaskInv'
    BY <1>2, ReceivedFacts DEF OtaProgress, RecordFlagsOK, TaskInv
  <2>7. TimerInv'
    BY <1>2, ReceivedFacts DEF OtaProgress, RecordFlagsOK, TimerFlagsOK, TaskInv, TimerInv
  <2> QED
    BY <2>1, <2>2, <2>3, <2>4, <2>5, <2>6, <2>7
<1>3. CASE OtaDone
  <2>1. RecordFlagsOK'
    BY <1>3, ReceivedFacts DEF OtaDone, RecordFlagsOK
  <2>2. TimerFlagsOK'
    BY <1>3, ReceivedFacts DEF OtaDone, RecordFlagsOK, TimerFlagsOK
  <2>3. BoardFlagsOK'
    BY <1>3, ReceivedFacts DEF OtaDone, BoardFlagsOK
  <2>4. ValuesOK'
    BY <1>3, ReceivedFacts DEF OtaDone, ValuesOK, Tasks
  <2>5. QueueOK'
    BY <1>3, ReceivedFacts DEF OtaDone, QueueOK
  <2>6. TaskInv'
    BY <1>3, ReceivedFacts DEF OtaDone, RecordFlagsOK, TaskInv
  <2>7. TimerInv'
    BY <1>3, ReceivedFacts DEF OtaDone, RecordFlagsOK, TimerFlagsOK, TaskInv, TimerInv
  <2> QED
    BY <2>1, <2>2, <2>3, <2>4, <2>5, <2>6, <2>7
<1>4. CASE OtaEnd
  <2>1. RecordFlagsOK'
    BY <1>4, ReceivedFacts, TimerFacts DEF OtaEnd, OtaEnds, NoteActivity, RecordFlagsOK
  <2>2. TimerFlagsOK'
    BY <1>4, ReceivedFacts, TimerFacts DEF OtaEnd, OtaEnds, NoteActivity, RecordFlagsOK, TimerFlagsOK
  <2>3. BoardFlagsOK'
    BY <1>4, ReceivedFacts, TimerFacts DEF OtaEnd, OtaEnds, NoteActivity, BoardFlagsOK
  <2>4. ValuesOK'
    BY <1>4, ReceivedFacts, TimerFacts DEF OtaEnd, OtaEnds, NoteActivity, ValuesOK, Tasks
  <2>5. QueueOK'
    BY <1>4, ReceivedFacts, TimerFacts DEF OtaEnd, OtaEnds, NoteActivity, QueueOK
  <2>6. TaskInv'
    BY <1>4, ReceivedFacts, TimerFacts DEF OtaEnd, OtaEnds, NoteActivity, RecordFlagsOK, TaskInv
  <2>7. TimerInv'
    BY <1>4, ReceivedFacts, TimerFacts DEF OtaEnd, OtaEnds, NoteActivity, RecordFlagsOK, TimerFlagsOK, TaskInv, TimerInv
  <2> QED
    BY <2>1, <2>2, <2>3, <2>4, <2>5, <2>6, <2>7
<1> QED
  BY <1>1, <1>2, <1>3, <1>4

\* Buttons, the app's writes and the link.
LEMMA ButtonStep ==
  ASSUME DInv, FrontPressed \/ FrontReleased \/ EventQueued \/ ModeChanged \/ LinkUp \/ LinkFailed \/ Subscribed \/ LinkDown \/ UpdateStep
  PROVE  DInv'
<1> USE DEF DInv, TypeOK, pressVars, recordVars, updateVars, timerVars, linkVars, boardVars, stateVars
<1>1. CASE FrontPressed
  <2>1. RecordFlagsOK'
    BY <1>1, EnqueuedFacts, EventFacts DEF FrontPressed, EventTypes, RecordFlagsOK
  <2>2. TimerFlagsOK'
    BY <1>1, EnqueuedFacts, EventFacts DEF FrontPressed, EventTypes, RecordFlagsOK, TimerFlagsOK
  <2>3. BoardFlagsOK'
    BY <1>1, EnqueuedFacts, EventFacts DEF FrontPressed, EventTypes, BoardFlagsOK
  <2>4. ValuesOK'
    BY <1>1, EnqueuedFacts, EventFacts DEF FrontPressed, EventTypes, ValuesOK, Tasks
  <2>5. QueueOK'
    BY <1>1, EnqueuedFacts, EventFacts DEF FrontPressed, EventTypes, QueueOK
  <2>6. TaskInv'
    BY <1>1, EnqueuedFacts, EventFacts DEF FrontPressed, EventTypes, RecordFlagsOK, TaskInv
  <2>7. TimerInv'
    BY <1>1, EnqueuedFacts, EventFacts DEF FrontPressed, EventTypes, RecordFlagsOK, TimerFlagsOK, TaskInv, TimerInv
  <2> QED
    BY <2>1, <2>2, <2>3, <2>4, <2>5, <2>6, <2>7
<1>2. CASE FrontReleased
  <2>1. RecordFlagsOK'
    BY <1>2, EnqueuedFacts, EventFacts DEF FrontReleased, EventTypes, RecordFlagsOK
  <2>2. TimerFlagsOK'
    BY <1>2, EnqueuedFacts, EventFacts DEF FrontReleased, EventTypes, RecordFlagsOK, TimerFlagsOK
  <2>3. BoardFlagsOK'
    BY <1>2, EnqueuedFacts, EventFacts DEF FrontReleased, EventTypes, BoardFlagsOK
  <2>4. ValuesOK'
    BY <1>2, EnqueuedFacts, EventFacts DEF FrontReleased, EventTypes, ValuesOK, Tasks
  <2>5. QueueOK'
    BY <1>2, EnqueuedFacts, EventFacts DEF FrontReleased, EventTypes, QueueOK
  <2>6. TaskInv'
    BY <1>2, EnqueuedFacts, EventFacts DEF FrontReleased, EventTypes, RecordFlagsOK, TaskInv
  <2>7. TimerInv'
    BY <1>2, EnqueuedFacts, EventFacts DEF FrontReleased, EventTypes, RecordFlagsOK, TimerFlagsOK, TaskInv, TimerInv
  <2> QED
    BY <2>1, <2>2, <2>3, <2>4, <2>5, <2>6, <2>7
<1>3. CASE EventQueued
  <2>1. RecordFlagsOK'
    BY <1>3, EnqueuedFacts, EventFacts DEF EventQueued, EventTypes, RecordFlagsOK
  <2>2. TimerFlagsOK'
    BY <1>3, EnqueuedFacts, EventFacts DEF EventQueued, EventTypes, RecordFlagsOK, TimerFlagsOK
  <2>3. BoardFlagsOK'
    BY <1>3, EnqueuedFacts, EventFacts DEF EventQueued, EventTypes, BoardFlagsOK
  <2>4. ValuesOK'
    BY <1>3, EnqueuedFacts, EventFacts DEF EventQueued, EventTypes, ValuesOK, Tasks
  <2>5. QueueOK'
    BY <1>3, EnqueuedFacts, EventFacts DEF EventQueued, EventTypes, QueueOK
  <2>6. TaskInv'
    BY <1>3, EnqueuedFacts, EventFacts DEF EventQueued, EventTypes, RecordFlagsOK, TaskInv
  <2>7. TimerInv'
    BY <1>3, EnqueuedFacts, EventFacts DEF EventQueued, EventTypes, RecordFlagsOK, TimerFlagsOK, TaskInv, TimerInv
  <2> QED
    BY <2>1, <2>2, <2>3, <2>4, <2>5, <2>6, <2>7
<1>4. CASE ModeChanged
  <2>1. RecordFlagsOK'
    BY <1>4 DEF ModeChanged, RecordFlagsOK
  <2>2. TimerFlagsOK'
    BY <1>4 DEF ModeChanged, RecordFlagsOK, TimerFlagsOK
  <2>3. BoardFlagsOK'
    BY <1>4 DEF ModeChanged, BoardFlagsOK
  <2>4. ValuesOK'
    BY <1>4 DEF ModeChanged, ValuesOK, Tasks
  <2>5. QueueOK'
    BY <1>4 DEF ModeChanged, QueueOK
  <2>6. TaskInv'
    BY <1>4 DEF ModeChanged, RecordFlagsOK, TaskInv
  <2>7. TimerInv'
    BY <1>4 DEF ModeChanged, RecordFlagsOK, TimerFlagsOK, TaskInv, TimerInv
  <2> QED
    BY <2>1, <2>2, <2>3, <2>4, <2>5, <2>6, <2>7
<1>5. CASE LinkUp
  <2>1. RecordFlagsOK'
    BY <1>5, EnqueuedFacts, EventFacts DEF LinkUp, EventTypes, RecordFlagsOK
  <2>2. TimerFlagsOK'
    BY <1>5, EnqueuedFacts, EventFacts DEF LinkUp, EventTypes, RecordFlagsOK, TimerFlagsOK
  <2>3. BoardFlagsOK'
    BY <1>5, EnqueuedFacts, EventFacts DEF LinkUp, EventTypes, BoardFlagsOK
  <2>4. ValuesOK'
    BY <1>5, EnqueuedFacts, EventFacts DEF LinkUp, EventTypes, ValuesOK, Tasks
  <2>5. QueueOK'
    BY <1>5, EnqueuedFacts, EventFacts DEF LinkUp, EventTypes, QueueOK
  <2>6. TaskInv'
    BY <1>5, EnqueuedFacts, EventFacts DEF LinkUp, EventTypes, RecordFlagsOK, TaskInv
  <2>7. TimerInv'
    BY <1>5, EnqueuedFacts, EventFacts DEF LinkUp, EventTypes, RecordFlagsOK, TimerFlagsOK, TaskInv, TimerInv
  <2> QED
    BY <2>1, <2>2, <2>3, <2>4, <2>5, <2>6, <2>7
<1>6. CASE LinkFailed
  <2>1. RecordFlagsOK'
    BY <1>6, EnqueuedFacts, EventFacts DEF LinkFailed, EventTypes, RecordFlagsOK
  <2>2. TimerFlagsOK'
    BY <1>6, EnqueuedFacts, EventFacts DEF LinkFailed, EventTypes, RecordFlagsOK, TimerFlagsOK
  <2>3. BoardFlagsOK'
    BY <1>6, EnqueuedFacts, EventFacts DEF LinkFailed, EventTypes, BoardFlagsOK
  <2>4. ValuesOK'
    BY <1>6, EnqueuedFacts, EventFacts DEF LinkFailed, EventTypes, ValuesOK, Tasks
  <2>5. QueueOK'
    BY <1>6, EnqueuedFacts, EventFacts DEF LinkFailed, EventTypes, QueueOK
  <2>6. TaskInv'
    BY <1>6, EnqueuedFacts, EventFacts DEF LinkFailed, EventTypes, RecordFlagsOK, TaskInv
  <2>7. TimerInv'
    BY <1>6, EnqueuedFacts, EventFacts DEF LinkFailed, EventTypes, RecordFlagsOK, TimerFlagsOK, TaskInv, TimerInv
  <2> QED
    BY <2>1, <2>2, <2>3, <2>4, <2>5, <2>6, <2>7
<1>7. CASE Subscribed
  <2>1. RecordFlagsOK'
    BY <1>7 DEF Subscribed, RecordFlagsOK
  <2>2. TimerFlagsOK'
    BY <1>7 DEF Subscribed, RecordFlagsOK, TimerFlagsOK
  <2>3. BoardFlagsOK'
    BY <1>7 DEF Subscribed, BoardFlagsOK
  <2>4. ValuesOK'
    BY <1>7 DEF Subscribed, ValuesOK, Tasks
  <2>5. QueueOK'
    BY <1>7 DEF Subscribed, QueueOK
  <2>6. TaskInv'
    BY <1>7 DEF Subscribed, RecordFlagsOK, TaskInv
  <2>7. TimerInv'
    BY <1>7 DEF Subscribed, RecordFlagsOK, TimerFlagsOK, TaskInv, TimerInv
  <2> QED
    BY <2>1, <2>2, <2>3, <2>4, <2>5, <2>6, <2>7
<1>8. CASE LinkDown
  <2>1. RecordFlagsOK'
    BY <1>8, QueuedFacts, EventFacts DEF LinkDown, EventTypes, QueueOK, RecordFlagsOK
  <2>2. TimerFlagsOK'
    BY <1>8, QueuedFacts, EventFacts DEF LinkDown, EventTypes, QueueOK, RecordFlagsOK, TimerFlagsOK
  <2>3. BoardFlagsOK'
    BY <1>8, QueuedFacts, EventFacts DEF LinkDown, EventTypes, QueueOK, BoardFlagsOK
  <2>4. ValuesOK'
    BY <1>8, QueuedFacts, EventFacts DEF LinkDown, EventTypes, QueueOK, ValuesOK, Tasks
  <2>5. QueueOK'
    BY <1>8, QueuedFacts, EventFacts DEF LinkDown, EventTypes, QueueOK
  <2>6. TaskInv'
    BY <1>8, QueuedFacts, EventFacts DEF LinkDown, EventTypes, QueueOK, RecordFlagsOK, TaskInv
  <2>7. TimerInv'
    BY <1>8, QueuedFacts, EventFacts DEF LinkDown, EventTypes, QueueOK, RecordFlagsOK, TimerFlagsOK, TaskInv, TimerInv
  <2> QED
    BY <2>1, <2>2, <2>3, <2>4, <2>5, <2>6, <2>7
<1>9. CASE UpdateStep
  <2>1. RecordFlagsOK'
    BY <1>9, EnqueuedFacts, EventFacts DEF UpdateStep, UpdateEvent, EventTypes, RecordFlagsOK
  <2>2. TimerFlagsOK'
    BY <1>9, EnqueuedFacts, EventFacts DEF UpdateStep, UpdateEvent, EventTypes, RecordFlagsOK, TimerFlagsOK
  <2>3. BoardFlagsOK'
    BY <1>9, EnqueuedFacts, EventFacts DEF UpdateStep, UpdateEvent, EventTypes, BoardFlagsOK
  <2>4. ValuesOK'
    BY <1>9, EnqueuedFacts, EventFacts DEF UpdateStep, UpdateEvent, EventTypes, ValuesOK, Tasks
  <2>5. QueueOK'
    BY <1>9, EnqueuedFacts, EventFacts DEF UpdateStep, UpdateEvent, EventTypes, QueueOK
  <2>6. TaskInv'
    BY <1>9, EnqueuedFacts, EventFacts DEF UpdateStep, UpdateEvent, EventTypes, RecordFlagsOK, TaskInv
  <2>7. TimerInv'
    BY <1>9, EnqueuedFacts, EventFacts DEF UpdateStep, UpdateEvent, EventTypes, RecordFlagsOK, TimerFlagsOK, TaskInv, TimerInv
  <2> QED
    BY <2>1, <2>2, <2>3, <2>4, <2>5, <2>6, <2>7
<1> QED
  BY <1>1, <1>2, <1>3, <1>4, <1>5, <1>6, <1>7, <1>8, <1>9

\* Timers, supply, interrupt and restarts.
LEMMA TimerStep ==
  ASSUME DInv, DimTimerFired \/ Dimmed \/ SleepTimerFired \/ SupplyChanged \/ PmicIrq \/ Woken \/ Rebooted
  PROVE  DInv'
<1> USE DEF DInv, TypeOK, pressVars, recordVars, updateVars, timerVars, linkVars, boardVars, stateVars
<1>1. CASE DimTimerFired
  <2>1. RecordFlagsOK'
    BY <1>1 DEF DimTimerFired, RecordFlagsOK
  <2>2. TimerFlagsOK'
    BY <1>1 DEF DimTimerFired, RecordFlagsOK, TimerFlagsOK
  <2>3. BoardFlagsOK'
    BY <1>1 DEF DimTimerFired, BoardFlagsOK
  <2>4. ValuesOK'
    BY <1>1 DEF DimTimerFired, ValuesOK, Tasks
  <2>5. QueueOK'
    BY <1>1 DEF DimTimerFired, QueueOK
  <2>6. TaskInv'
    BY <1>1 DEF DimTimerFired, RecordFlagsOK, TaskInv
  <2>7. TimerInv'
    BY <1>1 DEF DimTimerFired, RecordFlagsOK, TimerFlagsOK, TaskInv, TimerInv
  <2> QED
    BY <2>1, <2>2, <2>3, <2>4, <2>5, <2>6, <2>7
<1>2. CASE Dimmed
  <2>1. RecordFlagsOK'
    BY <1>2 DEF Dimmed, RecordFlagsOK
  <2>2. TimerFlagsOK'
    BY <1>2 DEF Dimmed, RecordFlagsOK, TimerFlagsOK
  <2>3. BoardFlagsOK'
    BY <1>2 DEF Dimmed, BoardFlagsOK
  <2>4. ValuesOK'
    BY <1>2 DEF Dimmed, ValuesOK, Tasks
  <2>5. QueueOK'
    BY <1>2 DEF Dimmed, QueueOK
  <2>6. TaskInv'
    BY <1>2 DEF Dimmed, RecordFlagsOK, TaskInv
  <2>7. TimerInv'
    BY <1>2 DEF Dimmed, RecordFlagsOK, TimerFlagsOK, TaskInv, TimerInv
  <2> QED
    BY <2>1, <2>2, <2>3, <2>4, <2>5, <2>6, <2>7
<1>3. CASE SleepTimerFired
  <2>1. RecordFlagsOK'
    BY <1>3, EnqueuedFacts, EventFacts DEF SleepTimerFired, EventTypes, RecordFlagsOK
  <2>2. TimerFlagsOK'
    BY <1>3, EnqueuedFacts, EventFacts DEF SleepTimerFired, EventTypes, RecordFlagsOK, TimerFlagsOK
  <2>3. BoardFlagsOK'
    BY <1>3, EnqueuedFacts, EventFacts DEF SleepTimerFired, EventTypes, BoardFlagsOK
  <2>4. ValuesOK'
    BY <1>3, EnqueuedFacts, EventFacts DEF SleepTimerFired, EventTypes, ValuesOK, Tasks
  <2>5. QueueOK'
    BY <1>3, EnqueuedFacts, EventFacts DEF SleepTimerFired, EventTypes, QueueOK
  <2>6. TaskInv'
    BY <1>3, EnqueuedFacts, EventFacts DEF SleepTimerFired, EventTypes, RecordFlagsOK, TaskInv
  <2>7. TimerInv'
    BY <1>3, EnqueuedFacts, EventFacts DEF SleepTimerFired, EventTypes, RecordFlagsOK, TimerFlagsOK, TaskInv, TimerInv
  <2> QED
    BY <2>1, <2>2, <2>3, <2>4, <2>5, <2>6, <2>7
<1>4. CASE SupplyChanged
  <2>1. RecordFlagsOK'
    BY <1>4 DEF SupplyChanged, RecordFlagsOK
  <2>2. TimerFlagsOK'
    BY <1>4 DEF SupplyChanged, RecordFlagsOK, TimerFlagsOK
  <2>3. BoardFlagsOK'
    BY <1>4 DEF SupplyChanged, BoardFlagsOK
  <2>4. ValuesOK'
    BY <1>4 DEF SupplyChanged, ValuesOK, Tasks
  <2>5. QueueOK'
    BY <1>4 DEF SupplyChanged, QueueOK
  <2>6. TaskInv'
    BY <1>4 DEF SupplyChanged, RecordFlagsOK, TaskInv
  <2>7. TimerInv'
    BY <1>4 DEF SupplyChanged, RecordFlagsOK, TimerFlagsOK, TaskInv, TimerInv
  <2> QED
    BY <2>1, <2>2, <2>3, <2>4, <2>5, <2>6, <2>7
<1>5. CASE PmicIrq
  <2>1. RecordFlagsOK'
    BY <1>5, EnqueuedFacts, EventFacts DEF PmicIrq, EventTypes, RecordFlagsOK
  <2>2. TimerFlagsOK'
    BY <1>5, EnqueuedFacts, EventFacts DEF PmicIrq, EventTypes, RecordFlagsOK, TimerFlagsOK
  <2>3. BoardFlagsOK'
    BY <1>5, EnqueuedFacts, EventFacts DEF PmicIrq, EventTypes, BoardFlagsOK
  <2>4. ValuesOK'
    BY <1>5, EnqueuedFacts, EventFacts DEF PmicIrq, EventTypes, ValuesOK, Tasks
  <2>5. QueueOK'
    BY <1>5, EnqueuedFacts, EventFacts DEF PmicIrq, EventTypes, QueueOK
  <2>6. TaskInv'
    BY <1>5, EnqueuedFacts, EventFacts DEF PmicIrq, EventTypes, RecordFlagsOK, TaskInv
  <2>7. TimerInv'
    BY <1>5, EnqueuedFacts, EventFacts DEF PmicIrq, EventTypes, RecordFlagsOK, TimerFlagsOK, TaskInv, TimerInv
  <2> QED
    BY <2>1, <2>2, <2>3, <2>4, <2>5, <2>6, <2>7
<1>6. CASE Woken
  <2>1. RecordFlagsOK'
    BY <1>6, RestartFacts DEF Woken, Restart, RecordFlagsOK
  <2>2. TimerFlagsOK'
    BY <1>6, RestartFacts DEF Woken
  <2>3. BoardFlagsOK'
    BY <1>6, RestartFacts DEF Woken, Restart, BoardFlagsOK
  <2>4. ValuesOK'
    BY <1>6, RestartFacts DEF Woken, Restart, ValuesOK, Tasks
  <2>5. QueueOK'
    BY <1>6, RestartFacts DEF Woken
  <2>6. TaskInv'
    BY <1>6, RestartFacts DEF Woken, Restart, RecordFlagsOK, TaskInv
  <2>7. TimerInv'
    BY <1>6 DEF Woken, Restart, TimerInv
  <2> QED
    BY <2>1, <2>2, <2>3, <2>4, <2>5, <2>6, <2>7
<1>7. CASE Rebooted
  <2>1. RecordFlagsOK'
    BY <1>7, RestartFacts DEF Rebooted, Restart, RecordFlagsOK
  <2>2. TimerFlagsOK'
    BY <1>7, RestartFacts DEF Rebooted, BoardFlagsOK
  <2>3. BoardFlagsOK'
    BY <1>7, RestartFacts DEF Rebooted, Restart, BoardFlagsOK
  <2>4. ValuesOK'
    BY <1>7, RestartFacts DEF Rebooted, Restart, ValuesOK, Tasks
  <2>5. QueueOK'
    BY <1>7, RestartFacts DEF Rebooted, BoardFlagsOK
  <2>6. TaskInv'
    BY <1>7, RestartFacts DEF Rebooted, Restart, RecordFlagsOK, TaskInv
  <2>7. TimerInv'
    BY <1>7 DEF Rebooted, Restart, TimerInv
  <2> QED
    BY <2>1, <2>2, <2>3, <2>4, <2>5, <2>6, <2>7
<1> QED
  BY <1>1, <1>2, <1>3, <1>4, <1>5, <1>6, <1>7

-----------------------------------------------------------------------------
LEMMA NextInv == DInv /\ [Next]_vars => DInv'
<1> SUFFICES ASSUME DInv, [Next]_vars PROVE DInv'
  OBVIOUS
<1>1. CASE TaskStep
  BY <1>1, PressStep, StartStep, ReleaseStep, StopStep, LinkStep, PowerStep, UpdateTaskStep
     DEF TaskStep
<1>2. CASE Around
  BY <1>2, ButtonStep, TimerStep DEF Around
<1>3. CASE UNCHANGED vars
  <2> USE <1>3 DEF DInv, vars, pressVars, recordVars, updateVars, timerVars, linkVars, boardVars
  <2>1. RecordFlagsOK' /\ TimerFlagsOK' /\ BoardFlagsOK' /\ ValuesOK' /\ QueueOK'
    BY DEF TypeOK, RecordFlagsOK, TimerFlagsOK, BoardFlagsOK, ValuesOK, QueueOK
  <2>2. TaskInv' /\ TimerInv'
    BY DEF TaskInv, TimerInv
  <2> QED
    BY <2>1, <2>2 DEF TypeOK
<1> QED
  BY <1>1, <1>2, <1>3 DEF Next

(* Types, the resources of app_event_task and the timers: DInv holds of    *)
(* every reachable state.                                                  *)
THEOREM DeviceInvariance == Spec => []DInv
BY InitInv, NextInv, PTL DEF Spec

(* Every variable keeps to its range; the queue never holds more than      *)
(* xQueueCreate made room for. *)
THEOREM DeviceTypes == Spec => []TypeOK
<1>1. DInv => TypeOK
  BY DEF DInv
<1> QED
  BY <1>1, DeviceInvariance, PTL

(* Between two events the pipeline, the power locks and the flags agree,   *)
(* whatever was lost, refused or changed in between.                       *)
THEOREM ResourcesAgree == Spec => []ResourcesFollow
<1>1. DInv => ResourcesFollow
  BY DEF DInv, TypeOK, RecordFlagsOK, TaskInv, ResourcesFollow
<1> QED
  BY <1>1, DeviceInvariance, PTL

(* While something records, neither timer counts. *)
THEOREM NoTimerWhileRecording == Spec => []BusyIsAwake
<1>1. DInv => BusyIsAwake
  BY DEF DInv, TimerInv, BusyIsAwake
<1> QED
  BY <1>1, DeviceInvariance, PTL

-----------------------------------------------------------------------------
\* In hold to talk, every press that waits in the queue has its release behind
\* it unless the button is held, and so has the recording that is beginning or
\* under way.
Release == Event("FRONT_UP")

Awaited(q, held) == held \/ \E j \in DOMAIN q : q[j] = Release

Covered(q, held) ==
  \A i \in DOMAIN q :
    q[i].type = "FRONT_DOWN" => held \/ \E j \in DOMAIN q : i < j /\ q[j] = Release

HeldInv ==
  /\ interactionMode = Hold
  /\ recording \/ task = "starting" => Awaited(queue, frontHeld)
  /\ Covered(queue, frontHeld)

LEMMA HeldFacts ==
  ASSUME NEW q
  PROVE  Awaited(q, TRUE) /\ Covered(q, TRUE)
BY DEF Awaited, Covered

LEMMA TailFacts ==
  ASSUME NEW q \in Seq(Events), q # <<>>
  PROVE  /\ Head(q) = q[1]
         /\ 1 \in DOMAIN q
         /\ DOMAIN q = 1..Len(q)
         /\ Len(q) \in Nat \ {0}
         /\ DOMAIN Tail(q) = 1..(Len(q) - 1)
         /\ \A i \in DOMAIN Tail(q) : i + 1 \in DOMAIN q /\ Tail(q)[i] = q[i + 1]
OBVIOUS

\* A release behind the first event is there when that event is taken out.
LEMMA TailRelease ==
  ASSUME NEW q \in Seq(Events), q # <<>>, NEW i \in Nat \ {0},
         NEW j \in DOMAIN q, i < j, q[j] = Release
  PROVE  j - 1 \in DOMAIN Tail(q) /\ i - 1 < j - 1 /\ Tail(q)[j - 1] = Release
<1>1. j \in 2..Len(q) /\ j - 1 \in 1..(Len(q) - 1)
  BY TailFacts
<1>2. j - 1 \in DOMAIN Tail(q)
  BY <1>1, TailFacts
<1>3. Tail(q)[j - 1] = q[j]
  BY <1>1, <1>2, TailFacts
<1> QED
  BY <1>1, <1>2, <1>3

LEMMA TailCovered ==
  ASSUME NEW q \in Seq(Events), q # <<>>, NEW held, Covered(q, held)
  PROVE  /\ Covered(Tail(q), held)
         /\ Head(q).type = "FRONT_DOWN" => Awaited(Tail(q), held)
         /\ Awaited(q, held) /\ Head(q) # Release => Awaited(Tail(q), held)
<1>1. Covered(Tail(q), held)
  <2> SUFFICES ASSUME NEW i \in DOMAIN Tail(q), Tail(q)[i].type = "FRONT_DOWN", ~held
               PROVE  \E k \in DOMAIN Tail(q) : i < k /\ Tail(q)[k] = Release
    BY DEF Covered
  <2>1. i + 1 \in DOMAIN q /\ q[i + 1].type = "FRONT_DOWN" /\ i \in Nat \ {0}
    BY TailFacts
  <2>2. PICK j \in DOMAIN q : i + 1 < j /\ q[j] = Release
    BY <2>1 DEF Covered
  <2>3. j - 1 \in DOMAIN Tail(q) /\ i + 1 - 1 < j - 1 /\ Tail(q)[j - 1] = Release
    BY <2>1, <2>2, TailRelease
  <2> QED
    BY <2>1, <2>3
<1>2. ASSUME Head(q).type = "FRONT_DOWN" PROVE Awaited(Tail(q), held)
  <2>1. CASE held
    BY <2>1 DEF Awaited
  <2>2. CASE ~held
    <3>1. PICK j \in DOMAIN q : 1 < j /\ q[j] = Release
      BY <1>2, <2>2, TailFacts DEF Covered
    <3> QED
      BY <3>1, TailRelease DEF Awaited
  <2> QED
    BY <2>1, <2>2
<1>3. ASSUME Awaited(q, held), Head(q) # Release PROVE Awaited(Tail(q), held)
  <2>1. CASE held
    BY <2>1 DEF Awaited
  <2>2. CASE ~held
    <3>1. PICK j \in DOMAIN q : q[j] = Release
      BY <1>3, <2>2 DEF Awaited
    <3>2. 1 < j /\ 1 \in Nat \ {0}
      BY <1>3, <3>1, TailFacts
    <3>3. j - 1 \in DOMAIN Tail(q) /\ Tail(q)[j - 1] = Release
      BY <3>1, <3>2, TailRelease
    <3> QED
      BY <3>3 DEF Awaited
  <2> QED
    BY <2>1, <2>2
<1> QED
  BY <1>1, <1>2, <1>3

LEMMA AppendFacts ==
  ASSUME NEW q \in Seq(Events), NEW e \in Events
  PROVE  /\ Len(q) \in Nat
         /\ DOMAIN q = 1..Len(q)
         /\ DOMAIN Append(q, e) = 1..(Len(q) + 1)
         /\ Append(q, e)[Len(q) + 1] = e
         /\ \A i \in DOMAIN q : i \in DOMAIN Append(q, e) /\ Append(q, e)[i] = q[i]
OBVIOUS

\* What is no press changes nothing; a release covers all that is before it.
LEMMA AppendCovered ==
  ASSUME NEW q \in Seq(Events), NEW e \in Events, e.type # "FRONT_DOWN", NEW held
  PROVE  /\ Covered(q, held) => Covered(Append(q, e), held)
         /\ Awaited(q, held) => Awaited(Append(q, e), held)
<1>1. ASSUME Covered(q, held) PROVE Covered(Append(q, e), held)
  <2> SUFFICES ASSUME NEW i \in DOMAIN Append(q, e), Append(q, e)[i].type = "FRONT_DOWN", ~held
               PROVE  \E k \in DOMAIN Append(q, e) : i < k /\ Append(q, e)[k] = Release
    BY DEF Covered
  <2>1. i \in DOMAIN q /\ q[i].type = "FRONT_DOWN"
    BY AppendFacts
  <2>2. PICK j \in DOMAIN q : i < j /\ q[j] = Release
    BY <1>1, <2>1 DEF Covered
  <2> QED
    BY <2>2, AppendFacts
<1>2. ASSUME Awaited(q, held) PROVE Awaited(Append(q, e), held)
  BY <1>2, AppendFacts DEF Awaited
<1> QED
  BY <1>1, <1>2

LEMMA AppendRelease ==
  ASSUME NEW q \in Seq(Events), Release \in Events, NEW held
  PROVE  Covered(Append(q, Release), held) /\ Awaited(Append(q, Release), held)
<1>1. /\ Len(q) + 1 \in DOMAIN Append(q, Release)
      /\ Append(q, Release)[Len(q) + 1] = Release
  BY AppendFacts
<1>2. Release.type # "FRONT_DOWN"
  BY DEF Release, Event
<1>3. \A i \in DOMAIN Append(q, Release) :
        Append(q, Release)[i].type = "FRONT_DOWN" => i < Len(q) + 1
  BY <1>1, <1>2, AppendFacts
<1> QED
  BY <1>1, <1>3 DEF Covered, Awaited

\* A handler's event is taken out.
LEMMA ReceivedHeld ==
  ASSUME TypeOK, HeldInv, NEW type, Receive(type)
  PROVE  /\ Covered(queue', frontHeld)
         /\ type = "FRONT_DOWN" => Awaited(queue', frontHeld)
         /\ recording /\ type # "FRONT_UP" => Awaited(queue', frontHeld)
<1>1. /\ queue \in Seq(Events) /\ queue # <<>> /\ queue' = Tail(queue)
      /\ Head(queue).type = type
  BY DEF TypeOK, QueueOK, Receive
<1>2. Release.type = "FRONT_UP"
  BY DEF Release, Event
<1>3. type # "FRONT_UP" => Head(queue) # Release
  BY <1>1, <1>2
<1> QED
  BY <1>1, <1>3, TailCovered DEF HeldInv

\* The handlers.
LEMMA TaskHeld ==
  ASSUME DInv, HeldInv, FrontDownStops \/ FrontDownConfirms \/ FrontDownDenied \/ FrontDownStarts \/ StartFailed \/ StartSucceeded \/ StartAnnounced \/ FrontUpIgnored \/ FrontUpStops \/ FrontUpSent \/ StoppedForButton \/ StoppedUnannounced \/ StoppedForUpdate \/ SideButton \/ UiState \/ BleConnected \/ BleDisconnected
  PROVE  HeldInv'
<1> USE DEF DInv, pressVars, recordVars, updateVars, timerVars, linkVars, boardVars, stateVars
<1>1. CASE FrontDownStops
  BY <1>1, ReceivedHeld, ReceivedFacts DEF FrontDownStops, BeginStop, HeldInv, TaskInv
<1>2. CASE FrontDownConfirms
  BY <1>2, ReceivedHeld, ReceivedFacts DEF FrontDownConfirms, FrontDownBegins, HeldInv, TaskInv
<1>3. CASE FrontDownDenied
  BY <1>3, ReceivedHeld, ReceivedFacts DEF FrontDownDenied, FrontDownBegins, HeldInv, TaskInv
<1>4. CASE FrontDownStarts
  BY <1>4, ReceivedHeld, ReceivedFacts DEF FrontDownStarts, FrontDownBegins, HeldInv, TaskInv
<1>5. CASE StartFailed
  BY <1>5 DEF StartFailed, HeldInv, TaskInv
<1>6. CASE StartSucceeded
  BY <1>6 DEF StartSucceeded, HeldInv, TaskInv
<1>7. CASE StartAnnounced
  BY <1>7 DEF StartAnnounced, BeginStop, HeldInv, TaskInv
<1>8. CASE FrontUpIgnored
  BY <1>8, ReceivedHeld, ReceivedFacts DEF FrontUpIgnored, ReleaseMeansNothing, Hold, Click, HeldInv, TaskInv
<1>9. CASE FrontUpStops
  BY <1>9, ReceivedHeld, ReceivedFacts DEF FrontUpStops, BeginStop, HeldInv, TaskInv
<1>10. CASE FrontUpSent
  BY <1>10, ReceivedHeld, ReceivedFacts DEF FrontUpSent, HeldInv, TaskInv
<1>11. CASE StoppedForButton
  BY <1>11 DEF StoppedForButton, EndStop, HeldInv, TaskInv
<1>12. CASE StoppedUnannounced
  BY <1>12 DEF StoppedUnannounced, EndStop, HeldInv, TaskInv
<1>13. CASE StoppedForUpdate
  BY <1>13 DEF StoppedForUpdate, EndStop, HeldInv, TaskInv
<1>14. CASE SideButton
  BY <1>14, ReceivedHeld, ReceivedFacts DEF SideButton, HeldInv, TaskInv
<1>15. CASE UiState
  BY <1>15, ReceivedHeld, ReceivedFacts DEF UiState, HeldInv, TaskInv
<1>16. CASE BleConnected
  BY <1>16, ReceivedHeld, ReceivedFacts DEF BleConnected, HeldInv, TaskInv
<1>17. CASE BleDisconnected
  BY <1>17, ReceivedHeld, ReceivedFacts DEF BleDisconnected, LinkLostEnds, HeldInv, TaskInv
<1> QED
  BY <1>1, <1>2, <1>3, <1>4, <1>5, <1>6, <1>7, <1>8, <1>9, <1>10, <1>11, <1>12, <1>13, <1>14, <1>15, <1>16, <1>17

\* The other handlers.
LEMMA TaskHeldToo ==
  ASSUME DInv, HeldInv, BatteryRefresh \/ SleepRefused \/ SleepPrepared \/ SleepAborted \/ SleepStarted \/ OtaBegin \/ OtaProgress \/ OtaDone \/ OtaEnd
  PROVE  HeldInv'
<1> USE DEF DInv, pressVars, recordVars, updateVars, timerVars, linkVars, boardVars, stateVars
<1>1. CASE BatteryRefresh
  BY <1>1, ReceivedHeld, ReceivedFacts DEF BatteryRefresh, HeldInv, TaskInv
<1>2. CASE SleepRefused
  BY <1>2, ReceivedHeld, ReceivedFacts DEF SleepRefused, HeldInv, TaskInv
<1>3. CASE SleepPrepared
  BY <1>3, ReceivedHeld, ReceivedFacts DEF SleepPrepared, Busy, HeldInv, TaskInv
<1>4. CASE SleepAborted
  BY <1>4 DEF SleepAborted, HeldInv, TaskInv
<1>5. CASE SleepStarted
  BY <1>5 DEF SleepStarted, HeldInv, TaskInv
<1>6. CASE OtaBegin
  <2>1. Covered(queue', frontHeld) /\ frontHeld' = frontHeld /\ interactionMode' = Hold
    BY <1>6, ReceivedHeld DEF OtaBegin, HeldInv
  <2>2. task = "idle"
    BY <1>6, ReceivedFacts DEF OtaBegin
  <2>3. ~recording' /\ task' # "starting"
    <3>1. \/ recording' = FALSE /\ task' = "stoppingForUpdate"
          \/ ~recording /\ recording' = recording /\ task' = task
      BY <1>6 DEF OtaBegin, BeginStop
    <3> QED
      BY <2>2, <3>1
  <2> QED
    BY <2>1, <2>3 DEF HeldInv
<1>7. CASE OtaProgress
  BY <1>7, ReceivedHeld, ReceivedFacts DEF OtaProgress, HeldInv, TaskInv
<1>8. CASE OtaDone
  BY <1>8, ReceivedHeld, ReceivedFacts DEF OtaDone, HeldInv, TaskInv
<1>9. CASE OtaEnd
  BY <1>9, ReceivedHeld, ReceivedFacts DEF OtaEnd, OtaEnds, HeldInv, TaskInv
<1> QED
  BY <1>1, <1>2, <1>3, <1>4, <1>5, <1>6, <1>7, <1>8, <1>9

\* What is sent to the queue, when it does not overflow.
LEMMA SentFacts ==
  ASSUME TypeOK, Exhaustion = FALSE, NEW e \in Events, Enqueue(e)
  PROVE  queue' = Append(queue, e)
BY QueueLengthPositive DEF TypeOK, QueueOK, Enqueue, Room, Queued

\* An event that is no press is sent, and the button left as it is.
LEMMA EventHeld ==
  ASSUME TypeOK, HeldInv, Exhaustion = FALSE, NEW type \in EventTypes \ {"FRONT_DOWN"},
         Enqueue(Event(type)), UNCHANGED <<frontHeld, recording, task, interactionMode>>
  PROVE  HeldInv'
<1>1. Event(type) \in Events /\ Event(type).type # "FRONT_DOWN"
  BY EventFacts DEF Event
<1>2. queue' = Append(queue, Event(type)) /\ queue \in Seq(Events)
  BY <1>1, SentFacts DEF TypeOK, QueueOK
<1> QED
  BY <1>1, <1>2, AppendCovered DEF HeldInv

LEMMA ButtonHeld ==
  ASSUME DInv, HeldInv, Exhaustion = FALSE, FrontPressed \/ FrontReleased
  PROVE  HeldInv'
<1> USE DEF DInv, stateVars, recordVars
<1>1. CASE FrontPressed
  BY <1>1, HeldFacts DEF FrontPressed, HeldInv
<1>2. CASE FrontReleased
  <2>1. Release \in Events
    BY EventFacts DEF EventTypes, Release
  <2>2. queue' = Append(queue, Release) /\ queue \in Seq(Events)
    BY <1>2, <2>1, SentFacts DEF FrontReleased, Release, TypeOK, QueueOK
  <2>3. Covered(queue', frontHeld') /\ Awaited(queue', frontHeld')
    BY <2>1, <2>2, AppendRelease
  <2> QED
    BY <1>2, <2>3 DEF FrontReleased, HeldInv
<1> QED
  BY <1>1, <1>2

LEMMA LinkDownHeld ==
  ASSUME DInv, HeldInv, Exhaustion = FALSE, LinkDown
  PROVE  HeldInv'
<1> DEFINE end  == Event("OTA_END")
           lost == Event("BLE_DISCONNECTED")
<1>1. /\ end \in Events /\ end.type # "FRONT_DOWN"
      /\ lost \in Events /\ lost.type # "FRONT_DOWN"
  BY EventFacts DEF EventTypes, Event
<1>2. queue \in Seq(Events) /\ Len(queue) + 2 <= QueueLength
  BY DEF LinkDown, Room, DInv, TypeOK, QueueOK
<1>3. Append(queue, end) \in Seq(Events) /\ Len(Append(queue, end)) = Len(queue) + 1
  BY <1>1, <1>2
<1>4. \/ queue' = Append(queue, lost)
      \/ queue' = Append(Append(queue, end), lost)
  BY <1>2, <1>3, QueueLengthPositive DEF LinkDown, Queued
<1>5. UNCHANGED <<frontHeld, recording, task, interactionMode>>
  BY DEF LinkDown, stateVars, recordVars, boardVars
<1>6. Covered(Append(queue, end), frontHeld)
  BY <1>1, <1>2, AppendCovered DEF HeldInv
<1>7. Covered(queue', frontHeld)
  BY <1>1, <1>2, <1>3, <1>4, <1>6, AppendCovered DEF HeldInv
<1>8. Awaited(queue, frontHeld) => Awaited(queue', frontHeld)
  BY <1>1, <1>2, <1>3, <1>4, AppendCovered
<1> QED
  BY <1>5, <1>7, <1>8 DEF HeldInv

LEMMA RestartHeld ==
  ASSUME NEW held \in BOOLEAN, Restart(held)
  PROVE  HeldInv'
<1>1. interactionMode' = Hold /\ ~recording' /\ task' = "idle" /\ frontHeld' = held
  BY DEF Restart
<1>2. queue' = <<>> \/ held
  BY DEF Restart
<1>3. Covered(queue', frontHeld')
  BY <1>1, <1>2, HeldFacts DEF Covered
<1> QED
  BY <1>1, <1>3 DEF HeldInv

LEMMA AroundHeld ==
  ASSUME DInv, HeldInv, Exhaustion = FALSE, Modes \subseteq {Hold}, Around
  PROVE  HeldInv'
<1> USE DEF DInv, stateVars, recordVars, boardVars
<1>1. CASE FrontPressed \/ FrontReleased
  BY <1>1, ButtonHeld
<1>2. CASE EventQueued
  <2>1. CASE Enqueue(Event("SIDE")) \/ Enqueue(Event("BATTERY_REFRESH"))
    BY <1>2, <2>1, EventHeld DEF EventQueued, EventTypes
  <2>2. CASE \E state \in UiStates : Enqueue(UiStateEvent(state))
    <3> PICK state \in UiStates : Enqueue(UiStateEvent(state))
      BY <2>2
    <3>1. UiStateEvent(state) \in Events /\ UiStateEvent(state).type # "FRONT_DOWN"
      BY EventFacts DEF UiStateEvent
    <3>2. queue' = Append(queue, UiStateEvent(state)) /\ queue \in Seq(Events)
      BY <3>1, SentFacts DEF TypeOK, QueueOK
    <3> QED
      BY <1>2, <3>1, <3>2, AppendCovered DEF EventQueued, HeldInv
  <2> QED
    BY <1>2, <2>1, <2>2 DEF EventQueued
<1>3. CASE ModeChanged
  BY <1>3 DEF ModeChanged, HeldInv
<1>4. CASE LinkUp \/ LinkFailed
  BY <1>4, EventHeld DEF LinkUp, LinkFailed, EventTypes
<1>5. CASE Subscribed \/ DimTimerFired \/ Dimmed \/ SupplyChanged
  BY <1>5 DEF Subscribed, DimTimerFired, Dimmed, SupplyChanged, HeldInv
<1>6. CASE LinkDown
  BY <1>6, LinkDownHeld
<1>7. CASE UpdateStep
  BY <1>7, EventHeld DEF UpdateStep, UpdateEvent, EventTypes
<1>8. CASE SleepTimerFired \/ PmicIrq
  BY <1>8, EventHeld DEF SleepTimerFired, PmicIrq, EventTypes
<1>9. CASE Woken \/ Rebooted
  BY <1>9, RestartHeld DEF Woken, Rebooted, TypeOK, BoardFlagsOK
<1> QED
  BY <1>1, <1>2, <1>3, <1>4, <1>5, <1>6, <1>7, <1>8, <1>9 DEF Around

LEMMA HeldStep ==
  ASSUME DInv, HeldInv, Exhaustion = FALSE, Modes \subseteq {Hold}, [Next]_vars
  PROVE  HeldInv'
<1>1. CASE TaskStep
  BY <1>1, TaskHeld, TaskHeldToo DEF TaskStep
<1>2. CASE Around
  BY <1>2, AroundHeld
<1>3. CASE UNCHANGED vars
  BY <1>3 DEF vars, recordVars, boardVars, HeldInv
<1> QED
  BY <1>1, <1>2, <1>3 DEF Next

(* In hold to talk, and as long as the queue does not overflow, a          *)
(* recording goes on only while the button is held or its release waits,   *)
(* however presses, updates, reconnections and restarts interleave.        *)
THEOREM ReleaseEndsRecording ==
  ASSUME Exhaustion = FALSE, Modes \subseteq {Hold}
  PROVE  Spec => []HeldWhileRecording
<1>1. Init => HeldInv
  BY DEF Init, HeldInv, Covered
<1>2. DInv /\ HeldInv /\ [Next]_vars => HeldInv'
  BY HeldStep
<1>3. DInv /\ HeldInv => HeldWhileRecording
  BY DEF HeldInv, Awaited, Release, HeldWhileRecording
<1> QED
  BY <1>1, <1>2, <1>3, DeviceInvariance, PTL DEF Spec

-----------------------------------------------------------------------------
(***************************************************************************)
(* The update: what waits in the queue against what has been handled.      *)
(***************************************************************************)
Pending(q, type) == \E j \in DOMAIN q : q[j].type = type

\* Nothing is taken for an update once the first n events are handled.
Over(q, upd, n) ==
  /\ \A j \in 1..n :
       q[j].type \in {"OTA_BEGIN", "OTA_PROGRESS"} => \E k \in 1..n : j < k /\ q[k].type = "OTA_END"
  /\ upd => \E k \in 1..n : q[k].type = "OTA_END"

\* ... once the loss of a link is handled.
LossesOver(q, upd) ==
  \A i \in DOMAIN q : q[i].type = "BLE_DISCONNECTED" => Over(q, upd, i - 1)

UpdateInv ==
  awake =>
    /\ ~connected => update = "none"
    /\ update = "none" => Over(queue, otaUpdating, Len(queue))
    /\ LossesOver(queue, otaUpdating)
    /\ update = "active" /\ (recording \/ task = "starting") => Pending(queue, "OTA_BEGIN")

LEMMA TailOver ==
  ASSUME NEW q \in Seq(Events), q # <<>>, NEW n \in 1..Len(q), NEW upd, NEW after,
         Over(q, upd, n),
         after => upd \/ Head(q).type \in {"OTA_BEGIN", "OTA_PROGRESS"},
         Head(q).type = "OTA_END" => ~after
  PROVE  Over(Tail(q), after, n - 1)
<1>1. /\ Head(q) = q[1] /\ Len(q) \in Nat
      /\ \A i \in 1..(n - 1) : Tail(q)[i] = q[i + 1] /\ i + 1 \in 1..n
      /\ 1 \in 1..n
  BY TailFacts
<1>2. ASSUME NEW i \in Nat, NEW k \in 1..n, i < k, i # 0, q[k].type = "OTA_END"
      PROVE  k - 1 \in 1..(n - 1) /\ i - 1 < k - 1 /\ Tail(q)[k - 1].type = "OTA_END"
  <2>1. k - 1 \in 1..(n - 1) /\ k - 1 + 1 = k
    BY <1>1, <1>2
  <2> QED
    BY <1>1, <1>2, <2>1
<1>3. ASSUME NEW i \in 1..(n - 1), Tail(q)[i].type \in {"OTA_BEGIN", "OTA_PROGRESS"}
      PROVE  \E k \in 1..(n - 1) : i < k /\ Tail(q)[k].type = "OTA_END"
  <2>1. PICK k \in 1..n : i + 1 < k /\ q[k].type = "OTA_END"
    BY <1>1, <1>3 DEF Over
  <2>2. k - 1 \in 1..(n - 1) /\ i + 1 - 1 < k - 1 /\ Tail(q)[k - 1].type = "OTA_END"
    BY <1>2, <2>1
  <2> QED
    BY <2>2
<1>4. ASSUME after
      PROVE  \E k \in 1..(n - 1) : Tail(q)[k].type = "OTA_END"
  <2>1. PICK k \in 1..n : q[k].type = "OTA_END"
    BY <1>1, <1>4 DEF Over
  <2>2. 1 < k
    BY <1>1, <1>4, <2>1
  <2> QED
    BY <1>2, <2>1, <2>2
<1> QED
  BY <1>3, <1>4 DEF Over

LEMMA AppendOver ==
  ASSUME NEW q \in Seq(Events), NEW e \in Events, NEW upd
  PROVE  /\ \A n \in 0..Len(q) : Over(q, upd, n) => Over(Append(q, e), upd, n)
         /\ Over(q, upd, Len(q)) /\ e.type \notin {"OTA_BEGIN", "OTA_PROGRESS"}
              => Over(Append(q, e), upd, Len(Append(q, e)))
         /\ e.type = "OTA_END" => Over(Append(q, e), upd, Len(Append(q, e)))
<1>1. /\ Len(q) \in Nat /\ Len(Append(q, e)) = Len(q) + 1
      /\ Append(q, e)[Len(q) + 1] = e
      /\ \A i \in 1..Len(q) : Append(q, e)[i] = q[i]
      /\ \A i \in 1..(Len(q) + 1) : i \in 1..Len(q) \/ i = Len(q) + 1
      /\ \A i \in 1..Len(q) : i \in 1..(Len(q) + 1) /\ i < Len(q) + 1
      /\ Len(q) + 1 \in 1..(Len(q) + 1)
  OBVIOUS
<1>2. \A n \in 0..Len(q) : Over(q, upd, n) => Over(Append(q, e), upd, n)
  <2>1. \A n \in 0..Len(q) : \A i \in 1..n : Append(q, e)[i] = q[i]
    BY <1>1
  <2> QED
    BY <2>1 DEF Over
<1>3. ASSUME Over(q, upd, Len(q)), e.type \notin {"OTA_BEGIN", "OTA_PROGRESS"}
      PROVE  Over(Append(q, e), upd, Len(Append(q, e)))
  BY <1>1, <1>3 DEF Over
<1>4. ASSUME e.type = "OTA_END"
      PROVE  Over(Append(q, e), upd, Len(Append(q, e)))
  <2>1. ASSUME NEW i \in 1..(Len(q) + 1),
               Append(q, e)[i].type \in {"OTA_BEGIN", "OTA_PROGRESS"}
        PROVE  i < Len(q) + 1
    BY <1>1, <1>4, <2>1
  <2> QED
    BY <1>1, <1>4, <2>1 DEF Over
<1> QED
  BY <1>2, <1>3, <1>4

LEMMA PendingFacts ==
  ASSUME NEW q \in Seq(Events)
  PROVE  /\ q # <<>> => \A type : Pending(q, type) /\ Head(q).type # type => Pending(Tail(q), type)
         /\ \A e \in Events : /\ Pending(Append(q, e), e.type)
                              /\ \A type : Pending(q, type) => Pending(Append(q, e), type)
<1>1. ASSUME q # <<>>, NEW type, Pending(q, type), Head(q).type # type
      PROVE  Pending(Tail(q), type)
  <2>1. PICK j \in DOMAIN q : q[j].type = type
    BY <1>1 DEF Pending
  <2>2. j - 1 \in DOMAIN Tail(q) /\ j - 1 + 1 = j
    BY <1>1, <2>1, TailFacts
  <2> QED
    BY <1>1, <2>1, <2>2, TailFacts DEF Pending
<1>2. ASSUME NEW e \in Events
      PROVE  /\ Pending(Append(q, e), e.type)
             /\ \A type : Pending(q, type) => Pending(Append(q, e), type)
  BY AppendFacts DEF Pending
<1> QED
  BY <1>1, <1>2

\* An event is taken out and handled.
LEMMA ReceivedUpdate ==
  ASSUME TypeOK, UpdateInv, NEW type, Receive(type), UNCHANGED <<connected, update>>,
         otaUpdating' => otaUpdating \/ type \in {"OTA_BEGIN", "OTA_PROGRESS"},
         type = "OTA_END" => ~otaUpdating',
         recording' \/ task' = "starting" => update # "active" \/ (recording /\ type # "OTA_BEGIN")
  PROVE  UpdateInv'
<1>1. /\ queue \in Seq(Events) /\ queue # <<>> /\ queue' = Tail(queue) /\ awake
      /\ Head(queue).type = type /\ task = "idle"
  BY DEF TypeOK, QueueOK, Receive
<1>2. Len(queue) \in 1..Len(queue) /\ Len(Tail(queue)) = Len(queue) - 1
  BY <1>1
<1>3. \A n \in 1..Len(queue) : Over(queue, otaUpdating, n) => Over(Tail(queue), otaUpdating', n - 1)
  BY <1>1, TailOver
<1>4. update' = "none" => Over(queue', otaUpdating', Len(queue'))
  BY <1>1, <1>2, <1>3 DEF UpdateInv
<1>5. ASSUME NEW i \in DOMAIN queue', queue'[i].type = "BLE_DISCONNECTED"
      PROVE  Over(queue', otaUpdating', i - 1)
  <2>1. i + 1 \in DOMAIN queue /\ queue[i + 1].type = "BLE_DISCONNECTED" /\ i \in 1..Len(queue)
        /\ i + 1 - 1 = i
    BY <1>1, <1>5, TailFacts
  <2>2. Over(queue, otaUpdating, i)
    BY <1>1, <2>1 DEF UpdateInv, LossesOver
  <2> QED
    BY <1>1, <1>3, <2>1, <2>2
<1>6. update' = "active" /\ (recording' \/ task' = "starting") => Pending(queue', "OTA_BEGIN")
  BY <1>1, PendingFacts DEF UpdateInv
<1> QED
  BY <1>1, <1>4, <1>5, <1>6 DEF UpdateInv, LossesOver

\* A handler goes on behind its wait.
LEMMA WaitedUpdate ==
  ASSUME UpdateInv, UNCHANGED <<queue, update, otaUpdating>>, awake' => awake,
         connected => connected',
         recording' \/ task' = "starting" => recording \/ task = "starting"
  PROVE  UpdateInv'
BY DEF UpdateInv

LEMMA AppendLosses ==
  ASSUME NEW q \in Seq(Events), NEW e \in Events, NEW upd, LossesOver(q, upd),
         e.type = "BLE_DISCONNECTED" => Over(q, upd, Len(q))
  PROVE  LossesOver(Append(q, e), upd)
<1> SUFFICES ASSUME NEW i \in DOMAIN Append(q, e), Append(q, e)[i].type = "BLE_DISCONNECTED"
             PROVE  Over(Append(q, e), upd, i - 1)
  BY DEF LossesOver
<1>1. Len(q) \in Nat /\ i \in 1..(Len(q) + 1)
  BY AppendFacts
<1>2. CASE i \in 1..Len(q)
  <2>1. Over(q, upd, i - 1) /\ i - 1 \in 0..Len(q)
    BY <1>1, <1>2, AppendFacts DEF LossesOver
  <2> QED
    BY <2>1, AppendOver
<1>3. CASE i = Len(q) + 1
  <2>1. i - 1 = Len(q) /\ Len(q) \in 0..Len(q) /\ Over(q, upd, Len(q))
    BY <1>1, <1>3, AppendFacts
  <2> QED
    BY <2>1, AppendOver
<1> QED
  BY <1>1, <1>2, <1>3

\* An event is put into the queue.
LEMMA SentUpdate ==
  ASSUME TypeOK, UpdateInv, NEW e \in Events, queue' = Append(queue, e), awake,
         UNCHANGED <<otaUpdating, recording, task>>,
         ~connected' => ~connected /\ update' = update,
         update' = "none" => \/ e.type = "OTA_END"
                             \/ update = "none" /\ e.type \notin {"OTA_BEGIN", "OTA_PROGRESS"},
         e.type = "BLE_DISCONNECTED" => Over(queue, otaUpdating, Len(queue)),
         update' = "active" => update = "active" \/ e.type = "OTA_BEGIN"
  PROVE  UpdateInv'
<1>1. queue \in Seq(Events) /\ Len(queue) \in Nat
  BY DEF TypeOK, QueueOK
<1>2. update' = "none" => Over(queue', otaUpdating', Len(queue'))
  BY <1>1, AppendOver DEF UpdateInv
<1>3. LossesOver(queue', otaUpdating')
  BY <1>1, AppendLosses DEF UpdateInv
<1>4. update' = "active" /\ (recording' \/ task' = "starting") => Pending(queue', "OTA_BEGIN")
  BY <1>1, PendingFacts DEF UpdateInv
<1> QED
  BY <1>2, <1>3, <1>4 DEF UpdateInv

LEMMA TaskUpdate ==
  ASSUME DInv, UpdateInv, TaskStep
  PROVE  UpdateInv'
<1> USE DEF DInv, pressVars, recordVars, updateVars, timerVars, linkVars, boardVars, BeginStop,
            EndStop
<1>0. task = "announcing" => recording
  BY DEF TaskInv
<1>1. CASE FrontDownStops
  BY <1>1, ReceivedUpdate, ReceivedFacts DEF FrontDownStops
<1>2. CASE FrontDownConfirms
  BY <1>2, ReceivedUpdate, ReceivedFacts DEF FrontDownConfirms, FrontDownBegins
<1>3. CASE FrontDownDenied
  BY <1>3, ReceivedUpdate, ReceivedFacts DEF FrontDownDenied, FrontDownBegins
<1>4. CASE FrontDownStarts
  <2>1. Receive("FRONT_DOWN") /\ update # "active" /\ UNCHANGED <<connected, update, otaUpdating>>
    BY <1>4 DEF FrontDownStarts, FrontDownBegins, StartAllowed, Busy
  <2> QED
    BY <2>1, ReceivedUpdate
<1>5. CASE FrontUpIgnored
  BY <1>5, ReceivedUpdate, ReceivedFacts DEF FrontUpIgnored
<1>6. CASE FrontUpStops
  BY <1>6, ReceivedUpdate, ReceivedFacts DEF FrontUpStops
<1>7. CASE FrontUpSent
  BY <1>7, ReceivedUpdate, ReceivedFacts DEF FrontUpSent
<1>8. CASE SideButton \/ UiState \/ BleConnected \/ BleDisconnected
  BY <1>8, ReceivedUpdate, ReceivedFacts DEF SideButton, UiState, BleConnected, BleDisconnected, LinkLostEnds
<1>9. CASE BatteryRefresh
  BY <1>9, ReceivedUpdate, ReceivedFacts DEF BatteryRefresh
<1>10. CASE SleepRefused \/ SleepPrepared
  BY <1>10, ReceivedUpdate, ReceivedFacts DEF SleepRefused, SleepPrepared
<1>11. CASE OtaBegin
  <2>1. Receive("OTA_BEGIN") /\ UNCHANGED <<connected, update>>
    BY <1>11 DEF OtaBegin
  <2>2. ~recording' /\ task' # "starting"
    <3>1. \/ recording' = FALSE /\ task' = "stoppingForUpdate"
          \/ ~recording /\ recording' = recording /\ task' = task
      BY <1>11 DEF OtaBegin
    <3> QED
      BY <2>1, <3>1, ReceivedFacts
  <2> QED
    BY <2>1, <2>2, ReceivedUpdate
<1>12. CASE OtaProgress
  BY <1>12, ReceivedUpdate, ReceivedFacts DEF OtaProgress
<1>13. CASE OtaDone
  BY <1>13, ReceivedUpdate, ReceivedFacts DEF OtaDone
<1>14. CASE OtaEnd
  BY <1>14, ReceivedUpdate, ReceivedFacts DEF OtaEnd, OtaEnds
<1>15. CASE StartFailed \/ StartSucceeded \/ StartAnnounced
  <2>1. CASE StartFailed
    BY <2>1, WaitedUpdate DEF StartFailed
  <2>2. CASE StartSucceeded
    BY <2>2, WaitedUpdate DEF StartSucceeded
  <2>3. CASE StartAnnounced
    BY <1>0, <2>3, WaitedUpdate DEF StartAnnounced
  <2> QED
    BY <1>15, <2>1, <2>2, <2>3
<1>16. CASE StoppedForButton
  BY <1>16, WaitedUpdate DEF StoppedForButton
<1>17. CASE StoppedUnannounced
  BY <1>17, WaitedUpdate DEF StoppedUnannounced
<1>18. CASE StoppedForUpdate
  BY <1>18, WaitedUpdate DEF StoppedForUpdate
<1>19. CASE SleepAborted
  BY <1>19, WaitedUpdate DEF SleepAborted
<1>20. CASE SleepStarted
  BY <1>20 DEF SleepStarted, UpdateInv
<1> QED
  BY <1>1, <1>2, <1>3, <1>4, <1>5, <1>6, <1>7, <1>8, <1>9, <1>10, <1>11, <1>12, <1>13, <1>14, <1>15, <1>16,
     <1>17, <1>18, <1>19, <1>20 DEF TaskStep

\* An update in progress is over before the loss of its link is handled.
LEMMA LinkDownUpdate ==
  ASSUME DInv, UpdateInv, Exhaustion = FALSE, LinkDown
  PROVE  UpdateInv'
<1> DEFINE end  == Event("OTA_END")
           lost == Event("BLE_DISCONNECTED")
<1>1. /\ end \in Events /\ end.type = "OTA_END"
      /\ lost \in Events /\ lost.type = "BLE_DISCONNECTED"
  BY EventFacts DEF EventTypes, Event
<1> HIDE DEF end, lost
<1>2. /\ queue \in Seq(Events) /\ Len(queue) + 2 <= QueueLength /\ Len(queue) \in Nat
      /\ update \in {"none", "active"} /\ awake
  BY DEF LinkDown, Room, DInv, TypeOK, QueueOK, HostTaskRuns, ValuesOK
<1>3. Append(queue, end) \in Seq(Events) /\ Len(Append(queue, end)) = Len(queue) + 1
  BY <1>1, <1>2
<1>4. PICK q \in {queue, Append(queue, end)} :
        queue' = Append(q, lost) /\ (q = queue => update = "none")
  <2>1. queue' = Queued(IF update = "active" THEN Queued(queue, end) ELSE queue, lost)
    BY DEF LinkDown, end, lost
  <2>2. Queued(queue, end) = Append(queue, end) /\ Queued(queue, lost) = Append(queue, lost)
        /\ Queued(Append(queue, end), lost) = Append(Append(queue, end), lost)
    BY <1>2, <1>3, QueueLengthPositive DEF Queued
  <2> QED
    BY <1>2, <2>1, <2>2
<1>5. q \in Seq(Events) /\ Over(q, otaUpdating, Len(q)) /\ LossesOver(q, otaUpdating)
  BY <1>1, <1>2, <1>3, <1>4, AppendOver, AppendLosses DEF UpdateInv
<1>6. /\ update' = "none" /\ otaUpdating' = otaUpdating
  BY DEF LinkDown, stateVars, updateVars
<1>7. Over(queue', otaUpdating', Len(queue')) /\ LossesOver(queue', otaUpdating')
  BY <1>1, <1>4, <1>5, <1>6, AppendOver, AppendLosses
<1> QED
  BY <1>6, <1>7 DEF UpdateInv

LEMMA RestartUpdate ==
  ASSUME NEW held \in BOOLEAN, Restart(held)
  PROVE  UpdateInv'
<1>1. /\ update' = "none" /\ otaUpdating' = FALSE
      /\ queue' = <<>> \/ queue' = <<Event("FRONT_DOWN")>>
  BY DEF Restart
<1>2. \A i \in DOMAIN queue' : queue'[i].type = "FRONT_DOWN"
  <2>1. CASE queue' = <<>>
    BY <2>1
  <2>2. CASE queue' = <<Event("FRONT_DOWN")>>
    <3>1. \A i \in DOMAIN queue' : queue'[i] = Event("FRONT_DOWN")
      BY <2>2
    <3>2. Event("FRONT_DOWN").type = "FRONT_DOWN"
      BY DEF Event
    <3> QED
      BY <3>1, <3>2
  <2> QED
    BY <1>1, <2>1, <2>2
<1>3. DOMAIN queue' = 1..Len(queue') /\ Len(queue') \in Nat
  BY <1>1
<1>4. Over(queue', otaUpdating', Len(queue'))
  BY <1>1, <1>2, <1>3 DEF Over
<1> QED
  BY <1>1, <1>2, <1>4 DEF UpdateInv, LossesOver

LEMMA AroundUpdate ==
  ASSUME DInv, UpdateInv, Exhaustion = FALSE, Around
  PROVE  UpdateInv'
<1> USE DEF DInv, stateVars, recordVars, updateVars, boardVars, linkVars
<1>1. \A type \in EventTypes : Event(type) \in Events /\ Event(type).type = type
  BY EventFacts DEF Event
<1>2. CASE FrontPressed \/ FrontReleased \/ SleepTimerFired \/ PmicIrq
  <2>1. PICK type \in EventTypes : /\ Enqueue(Event(type)) /\ type \in {"FRONT_DOWN", "FRONT_UP", "ENTER_DEEP_SLEEP", "POWER_IRQ"}
    BY <1>2 DEF FrontPressed, FrontReleased, SleepTimerFired, PmicIrq, EventTypes
  <2>2. awake /\ UNCHANGED <<otaUpdating, recording, task, connected, update>>
    BY <1>2 DEF FrontPressed, FrontReleased, SleepTimerFired, PmicIrq
  <2>3. queue' = Append(queue, Event(type))
    BY <1>1, <2>1, SentFacts
  <2> QED
    BY <1>1, <2>1, <2>2, <2>3, SentUpdate
<1>3. CASE EventQueued
  <2>1. PICK e \in Events : Enqueue(e) /\ e.type \in {"SIDE", "UI_STATE", "BATTERY_REFRESH"}
    <3>1. \A state \in UiStates :
            UiStateEvent(state) \in Events /\ UiStateEvent(state).type = "UI_STATE"
      BY EventFacts DEF UiStateEvent
    <3> QED
      BY <1>1, <1>3, <3>1 DEF EventQueued, EventTypes
  <2>2. queue' = Append(queue, e) /\ awake /\ UNCHANGED <<otaUpdating, recording, task, connected, update>>
    BY <1>3, <2>1, SentFacts DEF EventQueued
  <2> QED
    BY <2>1, <2>2, SentUpdate
<1>4. CASE ModeChanged \/ Subscribed \/ DimTimerFired \/ Dimmed \/ SupplyChanged
  BY <1>4, WaitedUpdate DEF ModeChanged, Subscribed, DimTimerFired, Dimmed, SupplyChanged
<1>5. CASE LinkUp
  BY <1>1, <1>5, SentFacts, SentUpdate DEF LinkUp, EventTypes
<1>6. CASE LinkFailed
  <2>1. Over(queue, otaUpdating, Len(queue)) /\ update = "none"
    BY <1>6 DEF LinkFailed, UpdateInv
  <2> QED
    BY <1>1, <1>6, <2>1, SentFacts, SentUpdate DEF LinkFailed, EventTypes
<1>7. CASE LinkDown
  BY <1>7, LinkDownUpdate
<1>8. CASE UpdateStep
  <2>1. PICK next, type :
          /\ UpdateEvent(next, type) /\ type \in EventTypes /\ type # "BLE_DISCONNECTED"
          /\ next = "none" => type = "OTA_END"
          /\ next = "active" => update = "active" \/ type = "OTA_BEGIN"
    BY <1>8 DEF UpdateStep, EventTypes
  <2>2. /\ Event(type) \in Events /\ Event(type).type = type /\ queue' = Append(queue, Event(type))
        /\ connected /\ awake /\ update' = next
        /\ UNCHANGED <<connected, otaUpdating, recording, task>>
    BY <1>1, <2>1, SentFacts DEF UpdateEvent, HostTaskRuns
  <2> QED
    BY <2>1, <2>2, SentUpdate
<1>9. CASE Woken \/ Rebooted
  BY <1>9, RestartUpdate DEF Woken, Rebooted, TypeOK, BoardFlagsOK
<1> QED
  BY <1>2, <1>3, <1>4, <1>5, <1>6, <1>7, <1>8, <1>9 DEF Around

LEMMA UpdateInvStep ==
  ASSUME DInv, UpdateInv, Exhaustion = FALSE, [Next]_vars
  PROVE  UpdateInv'
<1>1. CASE TaskStep
  BY <1>1, TaskUpdate
<1>2. CASE Around
  BY <1>2, AroundUpdate
<1>3. CASE UNCHANGED vars
  BY <1>3 DEF vars, recordVars, updateVars, linkVars, boardVars, UpdateInv
<1> QED
  BY <1>1, <1>2, <1>3 DEF Next

(* In either mode, and as long as the queue does not overflow, nothing      *)
(* records during an update once its events are handled, and nothing that  *)
(* records is taken for an update after one ended.                         *)
THEOREM UpdateEndsRecording ==
  ASSUME Exhaustion = FALSE
  PROVE  Spec => []UpdateStopsRecording
<1>1. Init => UpdateInv
  <2> SUFFICES ASSUME Init PROVE UpdateInv
    OBVIOUS
  <2>1. queue = <<>> /\ otaUpdating = FALSE /\ update = "none" /\ DOMAIN queue = {} /\ Len(queue) = 0
    BY DEF Init
  <2>2. 1..0 = {}
    OBVIOUS
  <2> QED
    BY <2>1, <2>2 DEF UpdateInv, Over, LossesOver
<1>2. DInv /\ UpdateInv /\ [Next]_vars => UpdateInv'
  BY UpdateInvStep
<1>3. DInv /\ UpdateInv => UpdateStopsRecording
  <2> SUFFICES ASSUME DInv, UpdateInv, awake, queue = <<>>, update # "rebooting"
               PROVE  ~(recording /\ (update = "active" \/ otaUpdating))
    BY DEF UpdateStopsRecording
  <2>1. update \in {"none", "active"} /\ DOMAIN queue = {} /\ Len(queue) = 0 /\ 1..0 = {}
    BY DEF DInv, TypeOK, ValuesOK
  <2>2. CASE update = "none"
    BY <2>1, <2>2 DEF UpdateInv, Over
  <2>3. CASE update = "active"
    BY <2>1, <2>3 DEF UpdateInv, Pending
  <2> QED
    BY <2>1, <2>2, <2>3
<1> QED
  BY <1>1, <1>2, <1>3, DeviceInvariance, PTL DEF Spec

-----------------------------------------------------------------------------
(***************************************************************************)
(* The way to deep sleep: the time is counted, or something is to happen   *)
(* that starts the timer again.                                            *)
(***************************************************************************)
Stopping == {"stoppingForClick", "stoppingForRelease", "stoppingUnannounced", "stoppingForUpdate"}

SleepInv ==
  awake =>
    \/ sleepTimer \/ externalPower \/ frontHeld \/ recording \/ otaUpdating
    \/ task \in Stopping \cup {"sleeping"}
    \/ Pending(queue, "FRONT_UP") \/ Pending(queue, "ENTER_DEEP_SLEEP")

\* The timer was started again, as far as the device is idle.
LEMMA TimerRestarted ==
  ASSUME RestartTimers(recording', otaUpdating'), externalPower' = externalPower
  PROVE  SleepInv'
BY DEF RestartTimers, SleepRuns, SleepInv

LEMMA SleepTimerRestarted ==
  ASSUME sleepTimer' = SleepRuns(recording', otaUpdating', externalPower')
  PROVE  SleepInv'
BY DEF SleepRuns, SleepInv

\* Nothing that keeps the device awake ends, and the event that was taken out
\* is none of those that start the timer.
LEMMA SleepKept ==
  ASSUME TypeOK, SleepInv, UNCHANGED <<sleepTimer, externalPower, frontHeld>>, awake' => awake,
         recording => recording', otaUpdating => otaUpdating',
         task \in Stopping \cup {"sleeping"} => task' = task,
         \/ queue' = queue
         \/ \E e \in Events : queue' = Append(queue, e)
         \/ /\ queue # <<>> /\ queue' = Tail(queue)
            /\ Head(queue).type \notin {"FRONT_UP", "ENTER_DEEP_SLEEP"}
  PROVE  SleepInv'
<1>1. queue \in Seq(Events)
  BY DEF TypeOK, QueueOK
<1>2. \A type \in {"FRONT_UP", "ENTER_DEEP_SLEEP"} : Pending(queue, type) => Pending(queue', type)
  BY <1>1, PendingFacts
<1> QED
  BY <1>2 DEF SleepInv

\* The loss of the link ends a recording without a look at the timers.
LEMMA LossSleeps ==
  ASSUME DInv, HeldInv, UpdateInv, SleepInv, BleDisconnected
  PROVE  SleepInv'
<1>1. /\ Receive("BLE_DISCONNECTED") /\ UNCHANGED <<sleepTimer, externalPower, frontHeld, task, awake>>
  BY DEF BleDisconnected, LinkLostEnds, timerVars, boardVars
<1>2. /\ queue \in Seq(Events) /\ queue # <<>> /\ queue' = Tail(queue) /\ awake
      /\ Head(queue).type = "BLE_DISCONNECTED"
  BY <1>1 DEF Receive, DInv, TypeOK, QueueOK
<1>3. ~otaUpdating
  <2>1. 1 \in DOMAIN queue /\ queue[1].type = "BLE_DISCONNECTED"
    BY <1>2, TailFacts
  <2>2. Over(queue, otaUpdating, 0)
    BY <1>2, <2>1 DEF UpdateInv, LossesOver
  <2>3. 1..0 = {}
    OBVIOUS
  <2> QED
    BY <2>2, <2>3 DEF Over
<1>4. CASE recording
  <2>1. Awaited(queue', frontHeld)
    BY <1>1, <1>4, ReceivedHeld DEF DInv
  <2>2. Release.type = "FRONT_UP"
    BY DEF Release, Event
  <2> QED
    BY <1>1, <2>1, <2>2 DEF SleepInv, Awaited, Pending
<1>5. CASE ~recording
  <2>1. task \in Stopping \cup {"sleeping"} => task' = task
    BY <1>1
  <2> QED
    BY <1>1, <1>2, <1>3, <1>5, SleepKept DEF DInv
<1> QED
  BY <1>4, <1>5

LEMMA TaskSleeps ==
  ASSUME DInv, HeldInv, UpdateInv, SleepInv, TaskStep
  PROVE  SleepInv'
<1> USE DEF DInv, pressVars, recordVars, updateVars, timerVars, linkVars, boardVars, NoteActivity,
            BackToReady
<1>1. CASE FrontDownStops
  BY <1>1 DEF FrontDownStops, BeginStop, SleepInv, Stopping
<1>2. CASE FrontDownConfirms
  BY <1>2, TimerRestarted DEF FrontDownConfirms, FrontDownBegins
<1>3. CASE FrontDownDenied
  BY <1>3, TimerRestarted DEF FrontDownDenied, FrontDownBegins
<1>4. CASE FrontDownStarts
  BY <1>4, TimerRestarted DEF FrontDownStarts, FrontDownBegins
<1>5. CASE StartFailed
  BY <1>5, SleepKept DEF StartFailed, Stopping
<1>6. CASE StartSucceeded
  BY <1>6 DEF StartSucceeded, SleepInv
<1>7. CASE StartAnnounced
  <2>1. task' = "stoppingUnannounced" \/ recording' = recording
    BY <1>7 DEF StartAnnounced, BeginStop
  <2>2. recording
    BY <1>7 DEF StartAnnounced, TaskInv
  <2> QED
    BY <2>1, <2>2 DEF SleepInv, Stopping
<1>8. CASE FrontUpIgnored
  BY <1>8, TimerRestarted DEF FrontUpIgnored
<1>9. CASE FrontUpStops
  BY <1>9 DEF FrontUpStops, BeginStop, SleepInv, Stopping
<1>10. CASE FrontUpSent
  <2>1. recording' = FALSE
    BY <1>10 DEF FrontUpSent, TypeOK, RecordFlagsOK
  <2> QED
    BY <1>10, <2>1, TimerRestarted DEF FrontUpSent
<1>11. CASE StoppedForButton \/ StoppedUnannounced \/ StoppedForUpdate
  <2>1. recording = FALSE
    BY <1>11 DEF StoppedForButton, StoppedUnannounced, StoppedForUpdate, TaskInv, TypeOK, RecordFlagsOK
  <2>2. recording' = FALSE /\ UNCHANGED <<otaUpdating, externalPower>>
    BY <1>11, <2>1 DEF StoppedForButton, StoppedUnannounced, StoppedForUpdate, EndStop
  <2>3. RestartTimers(FALSE, otaUpdating)
    BY <1>11 DEF StoppedForButton, StoppedUnannounced, StoppedForUpdate
  <2> QED
    BY <2>2, <2>3, TimerRestarted
<1>12. CASE SideButton
  BY <1>12, TimerRestarted DEF SideButton
<1>13. CASE UiState
  <2>1. Receive("UI_STATE")
        /\ UNCHANGED <<recording, otaUpdating, externalPower, frontHeld, task, awake>>
    BY <1>13 DEF UiState
  <2>2. CASE UNCHANGED sleepTimer
    BY <2>1, <2>2, SleepKept DEF Receive
  <2>3. CASE RestartTimers(FALSE, otaUpdating) /\ ~recording
    <3>1. recording' = FALSE
      BY <2>1, <2>3 DEF TypeOK, RecordFlagsOK
    <3> QED
      BY <2>1, <2>3, <3>1, TimerRestarted
  <2> QED
    BY <1>13, <2>2, <2>3 DEF UiState
<1>14. CASE BleConnected
  BY <1>14, TimerRestarted DEF BleConnected
<1>15. CASE BleDisconnected
  BY <1>15, LossSleeps
<1>16. CASE BatteryRefresh
  <2>1. /\ UNCHANGED <<recording, otaUpdating, frontHeld, task, awake>> /\ BatteryRead
        /\ queue # <<>> /\ queue' = Tail(queue)
        /\ Head(queue).type \notin {"FRONT_UP", "ENTER_DEEP_SLEEP"}
    BY <1>16 DEF BatteryRefresh, Receive
  <2>2. CASE UNCHANGED <<externalPower, sleepTimer>>
    BY <2>1, <2>2, SleepKept
  <2>3. CASE externalPower' = supply /\ sleepTimer' = SleepRuns(recording, otaUpdating, supply)
    BY <2>1, <2>3, SleepTimerRestarted
  <2>4. CASE externalPower' = supply /\ supply = externalPower /\ sleepTimer' = sleepTimer
    BY <2>1, <2>4, SleepKept
  <2> QED
    BY <2>1, <2>2, <2>3, <2>4 DEF BatteryRead
<1>17. CASE SleepRefused
  BY <1>17, SleepTimerRestarted DEF SleepRefused, RestartSleepTimer
<1>18. CASE SleepPrepared
  BY <1>18 DEF SleepPrepared, SleepInv
<1>19. CASE SleepAborted
  BY <1>19, SleepTimerRestarted DEF SleepAborted, RestartSleepTimer
<1>20. CASE SleepStarted
  BY <1>20 DEF SleepStarted, SleepInv
<1>21. CASE OtaBegin
  BY <1>21 DEF OtaBegin, SleepInv
<1>22. CASE OtaProgress
  BY <1>22 DEF OtaProgress, SleepInv
<1>23. CASE OtaDone
  BY <1>23, SleepKept DEF OtaDone, Receive
<1>24. CASE OtaEnd
  BY <1>24, TimerRestarted DEF OtaEnd, OtaEnds
<1> QED
  BY <1>1, <1>2, <1>3, <1>4, <1>5, <1>6, <1>7, <1>8, <1>9, <1>10, <1>11, <1>12, <1>13, <1>14, <1>15, <1>16,
     <1>17, <1>18, <1>19, <1>20, <1>21, <1>22, <1>23, <1>24 DEF TaskStep

LEMMA AroundSleeps ==
  ASSUME DInv, UpdateInv, SleepInv, Exhaustion = FALSE, Around
  PROVE  SleepInv'
<1> USE DEF DInv, stateVars, recordVars, updateVars, boardVars, linkVars, timerVars
<1>1. \A type \in EventTypes : Event(type) \in Events /\ Event(type).type = type
  BY EventFacts DEF Event
<1>2. queue \in Seq(Events)
  BY DEF TypeOK, QueueOK
<1>3. CASE FrontPressed
  BY <1>3 DEF FrontPressed, SleepInv
<1>4. CASE FrontReleased
  <2>1. queue' = Append(queue, Event("FRONT_UP"))
    BY <1>1, <1>4, SentFacts DEF FrontReleased, EventTypes
  <2>2. Pending(queue', "FRONT_UP")
    BY <1>1, <1>2, <2>1, PendingFacts DEF EventTypes
  <2> QED
    BY <2>2 DEF SleepInv
<1>5. CASE SleepTimerFired
  <2>1. queue' = Append(queue, Event("ENTER_DEEP_SLEEP"))
    BY <1>1, <1>5, SentFacts DEF SleepTimerFired, EventTypes
  <2>2. Pending(queue', "ENTER_DEEP_SLEEP")
    BY <1>1, <1>2, <2>1, PendingFacts DEF EventTypes
  <2> QED
    BY <2>2 DEF SleepInv
<1>6. CASE EventQueued \/ LinkUp \/ LinkFailed \/ UpdateStep \/ PmicIrq
  <2>1. PICK e \in Events : Enqueue(e)
    <3>1. \A state \in UiStates : UiStateEvent(state) \in Events
      BY EventFacts
    <3> QED
      BY <1>1, <1>6, <3>1 DEF EventQueued, LinkUp, LinkFailed, UpdateStep, UpdateEvent, PmicIrq, EventTypes
  <2>2. queue' = Append(queue, e)
    BY <2>1, SentFacts
  <2>3. UNCHANGED <<sleepTimer, externalPower, frontHeld, awake, recording, otaUpdating, task>>
    BY <1>6 DEF EventQueued, LinkUp, LinkFailed, UpdateStep, UpdateEvent, PmicIrq
  <2> QED
    BY <2>2, <2>3, SleepKept
<1>7. CASE ModeChanged \/ Subscribed \/ DimTimerFired \/ Dimmed \/ SupplyChanged
  BY <1>7, SleepKept DEF ModeChanged, Subscribed, DimTimerFired, Dimmed, SupplyChanged
<1>8. CASE LinkDown
  <2>1. UNCHANGED <<sleepTimer, externalPower, frontHeld, awake, recording, otaUpdating, task>>
    BY <1>8 DEF LinkDown
  <2>2. \A type : Pending(queue, type) => Pending(queue', type)
    <3> DEFINE end  == Event("OTA_END")
               lost == Event("BLE_DISCONNECTED")
    <3>1. end \in Events /\ lost \in Events
      BY <1>1 DEF EventTypes
    <3> HIDE DEF end, lost
    <3>2. \A q \in Seq(Events), e \in Events :
            Queued(q, e) \in Seq(Events) /\ \A type : Pending(q, type) => Pending(Queued(q, e), type)
      <4> SUFFICES ASSUME NEW q \in Seq(Events), NEW e \in Events
                   PROVE  /\ Queued(q, e) \in Seq(Events)
                          /\ \A type : Pending(q, type) => Pending(Queued(q, e), type)
        OBVIOUS
      <4>1. Queued(q, e) = q \/ Queued(q, e) = Append(q, e)
        BY DEF Queued
      <4>2. Append(q, e) \in Seq(Events)
        OBVIOUS
      <4> QED
        BY <4>1, <4>2, PendingFacts
    <3>3. queue' = Queued(IF update = "active" THEN Queued(queue, end) ELSE queue, lost)
      BY <1>8 DEF LinkDown, end, lost
    <3> QED
      BY <1>2, <3>1, <3>2, <3>3
  <2> QED
    BY <2>1, <2>2 DEF SleepInv
<1>9. CASE Woken \/ Rebooted
  BY <1>9 DEF Woken, Rebooted, Restart, SleepInv
<1> QED
  BY <1>3, <1>4, <1>5, <1>6, <1>7, <1>8, <1>9 DEF Around

(* In hold to talk, and as long as the queue does not overflow, an idle     *)
(* device on battery power whose button is up counts the time to deep      *)
(* sleep, whatever last stopped its timer.                                 *)
THEOREM IdleDeviceSleeps ==
  ASSUME Exhaustion = FALSE, Modes \subseteq {Hold}
  PROVE  Spec => []IdleSleeps
<1> DEFINE Inv == HeldInv /\ UpdateInv /\ SleepInv
<1>1. Init => Inv
  <2> SUFFICES ASSUME Init PROVE Inv
    OBVIOUS
  <2>1. HeldInv
    BY DEF Init, HeldInv, Covered
  <2>2. queue = <<>> /\ otaUpdating = FALSE /\ update = "none" /\ DOMAIN queue = {} /\ Len(queue) = 0
    BY DEF Init
  <2>3. 1..0 = {}
    OBVIOUS
  <2>4. sleepTimer \/ externalPower
    BY DEF Init
  <2> QED
    BY <2>1, <2>2, <2>3, <2>4 DEF UpdateInv, Over, LossesOver, SleepInv
<1>2. DInv /\ Inv /\ [Next]_vars => Inv'
  <2> SUFFICES ASSUME DInv, Inv, [Next]_vars PROVE Inv'
    OBVIOUS
  <2>1. HeldInv' /\ UpdateInv'
    BY HeldStep, UpdateInvStep
  <2>2. CASE TaskStep
    BY <2>1, <2>2, TaskSleeps
  <2>3. CASE Around
    BY <2>1, <2>3, AroundSleeps
  <2>4. CASE UNCHANGED vars
    BY <2>1, <2>4 DEF vars, recordVars, updateVars, timerVars, boardVars, SleepInv
  <2> QED
    BY <2>2, <2>3, <2>4 DEF Next
<1>3. Inv => IdleSleeps
  BY DEF SleepInv, Stopping, Pending, IdleSleeps
<1> QED
  BY <1>1, <1>2, <1>3, DeviceInvariance, PTL DEF Spec

-----------------------------------------------------------------------------
(***************************************************************************)
(* What the app was told: presses and releases alternate in the queue, so  *)
(* the release that ends an announced recording comes before any press     *)
(* that would make the device forget it.                                   *)
(***************************************************************************)
First(q) ==
  \A k \in DOMAIN q :
    q[k].type = "FRONT_DOWN" => \E j \in DOMAIN q : j < k /\ q[j] = Release

Spaced(q) ==
  \A i \in DOMAIN q : \A k \in DOMAIN q :
    i < k /\ q[i].type = "FRONT_DOWN" /\ q[k].type = "FRONT_DOWN"
      => \E j \in DOMAIN q : i < j /\ j < k /\ q[j] = Release

AnnouncedInv ==
  /\ Spaced(queue)
  /\ recording \/ task = "starting" => First(queue)
  /\ announced # 0 =>
       /\ ready /\ announced = primarySession /\ announced = nextSession - 1
       /\ task \notin {"starting", "announcing", "stoppingUnannounced"}
       /\ task # "stoppingForRelease" => First(queue) /\ Awaited(queue, frontHeld)
  /\ task = "announcing" => primarySession = nextSession - 1

LEMMA TailFirst ==
  ASSUME NEW q \in Seq(Events), q # <<>>
  PROVE  /\ First(q) => Head(q).type # "FRONT_DOWN"
         /\ First(q) /\ Head(q) # Release => First(Tail(q))
         /\ Spaced(q) => Spaced(Tail(q))
         /\ Spaced(q) /\ Head(q).type = "FRONT_DOWN" => First(Tail(q))
<1>1. /\ Head(q) = q[1] /\ 1 \in DOMAIN q /\ DOMAIN q = 1..Len(q) /\ Len(q) \in Nat
      /\ DOMAIN Tail(q) = 1..(Len(q) - 1)
      /\ \A i \in DOMAIN Tail(q) : i + 1 \in DOMAIN q /\ Tail(q)[i] = q[i + 1] /\ 1 < i + 1
  BY TailFacts
<1>2. ASSUME First(q)
      PROVE  Head(q).type # "FRONT_DOWN"
  BY <1>1, <1>2 DEF First
<1>3. ASSUME NEW i \in Nat \ {0}, NEW k \in DOMAIN Tail(q), NEW j \in DOMAIN q,
             i < j, j < k + 1, q[j] = Release
      PROVE  j - 1 \in DOMAIN Tail(q) /\ i - 1 < j - 1 /\ j - 1 < k /\ Tail(q)[j - 1] = Release
  <2>1. j - 1 \in DOMAIN Tail(q) /\ i - 1 < j - 1 /\ Tail(q)[j - 1] = Release
    BY <1>3, TailRelease
  <2>2. j - 1 < k
    BY <1>1, <1>3
  <2> QED
    BY <2>1, <2>2
<1>4. ASSUME NEW k \in DOMAIN Tail(q), Tail(q)[k].type = "FRONT_DOWN",
             \/ First(q) /\ Head(q) # Release
             \/ Spaced(q) /\ Head(q).type = "FRONT_DOWN"
      PROVE  \E j \in DOMAIN Tail(q) : j < k /\ Tail(q)[j] = Release
  <2>1. PICK j \in DOMAIN q : 1 < j /\ j < k + 1 /\ q[j] = Release
    <3>1. CASE First(q) /\ Head(q) # Release
      <4>1. PICK j \in DOMAIN q : j < k + 1 /\ q[j] = Release
        BY <1>1, <1>4, <3>1 DEF First
      <4>2. 1 < j
        BY <1>1, <3>1, <4>1
      <4> QED
        BY <4>1, <4>2
    <3>2. CASE Spaced(q) /\ Head(q).type = "FRONT_DOWN"
      BY <1>1, <1>4, <3>2 DEF Spaced
    <3> QED
      BY <1>4, <3>1, <3>2
  <2>2. j - 1 \in DOMAIN Tail(q) /\ j - 1 < k /\ Tail(q)[j - 1] = Release
    BY <1>3, <2>1
  <2> QED
    BY <2>2
<1>5. ASSUME Spaced(q), NEW i \in DOMAIN Tail(q), NEW k \in DOMAIN Tail(q), i < k,
             Tail(q)[i].type = "FRONT_DOWN", Tail(q)[k].type = "FRONT_DOWN"
      PROVE  \E j \in DOMAIN Tail(q) : i < j /\ j < k /\ Tail(q)[j] = Release
  <2>1. i + 1 < k + 1 /\ i + 1 \in Nat \ {0} /\ i + 1 - 1 = i
    BY <1>1, <1>5
  <2>2. PICK j \in DOMAIN q : i + 1 < j /\ j < k + 1 /\ q[j] = Release
    BY <1>1, <1>5, <2>1 DEF Spaced
  <2>3. j - 1 \in DOMAIN Tail(q) /\ i + 1 - 1 < j - 1 /\ j - 1 < k /\ Tail(q)[j - 1] = Release
    BY <1>3, <2>1, <2>2
  <2> QED
    BY <2>1, <2>3
<1>6. First(q) /\ Head(q) # Release => First(Tail(q))
  BY <1>4 DEF First
<1>7. Spaced(q) /\ Head(q).type = "FRONT_DOWN" => First(Tail(q))
  BY <1>4 DEF First
<1>8. Spaced(q) => Spaced(Tail(q))
  BY <1>5 DEF Spaced
<1> QED
  BY <1>2, <1>6, <1>7, <1>8

LEMMA AppendFirst ==
  ASSUME NEW q \in Seq(Events), NEW e \in Events
  PROVE  /\ First(q) /\ (e.type # "FRONT_DOWN" \/ Awaited(q, FALSE)) => First(Append(q, e))
         /\ Spaced(q) /\ (e.type # "FRONT_DOWN" \/ Covered(q, FALSE)) => Spaced(Append(q, e))
<1>1. /\ Len(q) \in Nat /\ DOMAIN q = 1..Len(q)
      /\ Append(q, e)[Len(q) + 1] = e
      /\ \A i \in DOMAIN q : i \in DOMAIN Append(q, e) /\ Append(q, e)[i] = q[i] /\ i < Len(q) + 1
      /\ \A i \in DOMAIN Append(q, e) : i \in DOMAIN q \/ i = Len(q) + 1
      /\ \A i \in DOMAIN q : ~(Len(q) + 1 < i)
  BY AppendFacts
<1>2. ASSUME First(q), e.type # "FRONT_DOWN" \/ Awaited(q, FALSE)
      PROVE  First(Append(q, e))
  <2> SUFFICES ASSUME NEW k \in DOMAIN Append(q, e), Append(q, e)[k].type = "FRONT_DOWN"
               PROVE  \E j \in DOMAIN Append(q, e) : j < k /\ Append(q, e)[j] = Release
    BY DEF First
  <2>1. CASE k \in DOMAIN q
    BY <1>1, <1>2, <2>1 DEF First
  <2>2. CASE k = Len(q) + 1
    BY <1>1, <1>2, <2>2 DEF Awaited
  <2> QED
    BY <1>1, <2>1, <2>2
<1>3. ASSUME Spaced(q), e.type # "FRONT_DOWN" \/ Covered(q, FALSE)
      PROVE  Spaced(Append(q, e))
  <2> SUFFICES ASSUME NEW i \in DOMAIN Append(q, e), NEW k \in DOMAIN Append(q, e), i < k,
                      Append(q, e)[i].type = "FRONT_DOWN", Append(q, e)[k].type = "FRONT_DOWN"
               PROVE  \E j \in DOMAIN Append(q, e) : i < j /\ j < k /\ Append(q, e)[j] = Release
    BY DEF Spaced
  <2>1. CASE k \in DOMAIN q
    <3>1. i \in DOMAIN q
      BY <1>1, <2>1
    <3>2. PICK j \in DOMAIN q : i < j /\ j < k /\ q[j] = Release
      BY <1>1, <1>3, <2>1, <3>1 DEF Spaced
    <3> QED
      BY <1>1, <3>2
  <2>2. CASE k = Len(q) + 1
    <3>1. i \in DOMAIN q /\ e.type = "FRONT_DOWN"
      BY <1>1, <2>2
    <3>2. PICK j \in DOMAIN q : i < j /\ q[j] = Release
      BY <1>1, <1>3, <3>1 DEF Covered
    <3> QED
      BY <1>1, <2>2, <3>2
  <2> QED
    BY <1>1, <2>1, <2>2
<1> QED
  BY <1>2, <1>3

LEMMA ReceivedOrder ==
  ASSUME TypeOK, AnnouncedInv, NEW type, Receive(type)
  PROVE  /\ Spaced(queue')
         /\ First(queue) /\ type # "FRONT_UP" => First(queue') /\ type # "FRONT_DOWN"
         /\ type = "FRONT_DOWN" => First(queue')
         /\ Awaited(queue, frontHeld) /\ Covered(queue, frontHeld) /\ type # "FRONT_UP"
              => Awaited(queue', frontHeld)
<1>1. /\ queue \in Seq(Events) /\ queue # <<>> /\ queue' = Tail(queue)
      /\ Head(queue).type = type
  BY DEF TypeOK, QueueOK, Receive
<1>2. Release.type = "FRONT_UP"
  BY DEF Release, Event
<1>3. type # "FRONT_UP" => Head(queue) # Release
  BY <1>1, <1>2
<1>4. Spaced(queue)
  BY DEF AnnouncedInv
<1> QED
  BY <1>1, <1>3, <1>4, TailFirst, TailCovered

\* What the app was told, the press and the link are left alone.
LEMMA OrderKept ==
  ASSUME TypeOK, HeldInv, AnnouncedInv,
         UNCHANGED <<announced, primarySession, nextSession, ready, frontHeld>>,
         recording' => recording,
         task' \in {"idle", "sleeping", "stoppingForUpdate"} \/ task' = task,
         task # "stoppingForRelease",
         queue' = queue \/ \E type : Receive(type) /\ type \notin {"FRONT_UP", "FRONT_DOWN"}
  PROVE  AnnouncedInv'
<1>1. /\ Spaced(queue') /\ (First(queue) => First(queue'))
      /\ Awaited(queue, frontHeld) => Awaited(queue', frontHeld)
  <2>1. CASE queue' = queue
    BY <2>1 DEF AnnouncedInv
  <2>2. ASSUME NEW type, Receive(type), type \notin {"FRONT_UP", "FRONT_DOWN"}
        PROVE  /\ Spaced(queue') /\ (First(queue) => First(queue'))
               /\ Awaited(queue, frontHeld) => Awaited(queue', frontHeld)
    BY <2>2, ReceivedOrder DEF HeldInv
  <2> QED
    BY <2>1, <2>2
<1> QED
  BY <1>1 DEF AnnouncedInv

\* The end of a recording that was announced can be sent.
LEMMA EndSent ==
  ASSUME AnnouncedInv, Exhaustion = FALSE, NEW ok \in BOOLEAN, Sent(ok),
         announced' = IF ok THEN AnnouncedEnd(primarySession) ELSE announced
  PROVE  announced' = 0
BY DEF AnnouncedInv, Sent, AnnouncedEnd

LEMMA ButtonOrder ==
  ASSUME DInv, HeldInv, AnnouncedInv, Exhaustion = FALSE,
         \/ FrontDownStops \/ FrontDownConfirms \/ FrontDownDenied \/ FrontDownStarts
         \/ FrontUpIgnored \/ FrontUpStops \/ FrontUpSent
  PROVE  AnnouncedInv'
<1> USE DEF DInv, recordVars, linkVars, boardVars, pressVars
<1>1. CASE FrontDownStops
  BY <1>1 DEF FrontDownStops, HeldInv, Hold, Click
<1>2. CASE FrontDownConfirms \/ FrontDownDenied \/ FrontDownStarts
  <2>1. Receive("FRONT_DOWN") /\ UNCHANGED <<announced, recording>>
        /\ (task' = "starting" \/ task' = task)
    BY <1>2 DEF FrontDownConfirms, FrontDownDenied, FrontDownStarts, FrontDownBegins
  <2>2. task = "idle" /\ Spaced(queue') /\ First(queue') /\ ~First(queue)
    BY <2>1, ReceivedFacts, ReceivedOrder
  <2>3. announced' = 0
    BY <2>1, <2>2 DEF AnnouncedInv
  <2> QED
    BY <2>1, <2>2, <2>3 DEF AnnouncedInv
<1>3. CASE FrontUpIgnored
  <2>1. /\ Receive("FRONT_UP") /\ UNCHANGED <<announced, recording, task>>
        /\ ~recording /\ primarySession = 0
    BY <1>3 DEF FrontUpIgnored, ReleaseMeansNothing, HeldInv, Hold, Click
  <2>2. task = "idle" /\ Spaced(queue')
    BY <2>1, ReceivedFacts, ReceivedOrder
  <2>3. announced' = 0
    BY <2>1 DEF AnnouncedInv
  <2> QED
    BY <2>1, <2>2, <2>3 DEF AnnouncedInv
<1>4. CASE FrontUpStops
  <2>1. /\ Receive("FRONT_UP") /\ recording' = FALSE /\ task' = "stoppingForRelease"
        /\ UNCHANGED <<announced, primarySession, nextSession, ready>>
    BY <1>4 DEF FrontUpStops, BeginStop
  <2>2. Spaced(queue')
    BY <2>1, ReceivedOrder
  <2> QED
    BY <2>1, <2>2 DEF AnnouncedInv
<1>5. CASE FrontUpSent
  <2>1. /\ Receive("FRONT_UP") /\ ~recording /\ UNCHANGED <<recording, task>>
    BY <1>5 DEF FrontUpSent
  <2>2. task = "idle" /\ Spaced(queue')
    BY <2>1, ReceivedFacts, ReceivedOrder
  <2>3. announced' = 0
    BY <1>5, EndSent DEF FrontUpSent
  <2> QED
    BY <2>1, <2>2, <2>3 DEF AnnouncedInv
<1> QED
  BY <1>1, <1>2, <1>3, <1>4, <1>5

LEMMA RecordingOrder ==
  ASSUME DInv, HeldInv, AnnouncedInv, Exhaustion = FALSE,
         \/ StartFailed \/ StartSucceeded \/ StartAnnounced
         \/ StoppedForButton \/ StoppedUnannounced \/ StoppedForUpdate
  PROVE  AnnouncedInv'
<1> USE DEF DInv, recordVars, linkVars, boardVars, pressVars
<1>1. CASE StartFailed
  <2>1. /\ task = "starting" /\ task' = "idle" /\ ~recording
        /\ UNCHANGED <<announced, recording, queue>>
    BY <1>1 DEF StartFailed, TaskInv
  <2>2. announced' = 0
    BY <2>1 DEF AnnouncedInv
  <2> QED
    BY <2>1, <2>2 DEF AnnouncedInv
<1>2. CASE StartSucceeded
  <2>1. /\ task = "starting" /\ task' = "announcing" /\ primarySession' = nextSession - 1
        /\ UNCHANGED <<announced, nextSession, queue>>
    BY <1>2 DEF StartSucceeded
  <2>2. announced' = 0
    BY <2>1 DEF AnnouncedInv
  <2> QED
    BY <2>1, <2>2 DEF AnnouncedInv
<1>3. CASE StartAnnounced
  <2>1. /\ task = "announcing" /\ recording /\ announced = 0 /\ primarySession = nextSession - 1
        /\ UNCHANGED <<primarySession, nextSession, ready, frontHeld, queue>>
    BY <1>3 DEF StartAnnounced, TaskInv, AnnouncedInv
  <2>2. CASE Sent(TRUE) /\ announced' = primarySession /\ task' = "idle" /\ recording' = recording
    <3>1. ready /\ Awaited(queue, frontHeld)
      BY <2>1, <2>2 DEF Sent, HeldInv
    <3> QED
      BY <2>1, <2>2, <3>1 DEF AnnouncedInv
  <2>3. CASE announced' = announced /\ task' = "stoppingUnannounced" /\ recording' = FALSE
    BY <2>1, <2>3 DEF AnnouncedInv
  <2> QED
    BY <1>3, <2>2, <2>3 DEF StartAnnounced, BeginStop
<1>4. CASE StoppedForButton
  <2>1. /\ task' = "idle" /\ ~recording /\ UNCHANGED <<recording, queue>>
    BY <1>4 DEF StoppedForButton, EndStop, TaskInv
  <2>2. announced' = 0
    BY <1>4 DEF StoppedForButton, Sent, AnnouncedEnd, AnnouncedInv
  <2> QED
    BY <2>1, <2>2 DEF AnnouncedInv
<1>5. CASE StoppedUnannounced
  <2>1. /\ task = "stoppingUnannounced" /\ task' = "idle" /\ ~recording
        /\ UNCHANGED <<recording, queue, announced>>
    BY <1>5 DEF StoppedUnannounced, EndStop, TaskInv
  <2>2. announced' = 0
    BY <2>1 DEF AnnouncedInv
  <2> QED
    BY <2>1, <2>2 DEF AnnouncedInv
<1>6. CASE StoppedForUpdate
  <2>1. /\ task' = "idle" /\ ~recording /\ UNCHANGED <<recording, queue>>
    BY <1>6 DEF StoppedForUpdate, EndStop, TaskInv
  <2>2. announced' = 0
    BY <1>6 DEF StoppedForUpdate, Sent, AnnouncedEnd, AnnouncedInv
  <2> QED
    BY <2>1, <2>2 DEF AnnouncedInv
<1> QED
  BY <1>1, <1>2, <1>3, <1>4, <1>5, <1>6

LEMMA OtherOrder ==
  ASSUME DInv, HeldInv, AnnouncedInv,
         \/ SideButton \/ UiState \/ BleConnected \/ BleDisconnected \/ BatteryRefresh
         \/ SleepRefused \/ SleepPrepared \/ SleepAborted \/ SleepStarted
         \/ OtaBegin \/ OtaProgress \/ OtaDone \/ OtaEnd
  PROVE  AnnouncedInv'
<1> USE DEF DInv, recordVars, linkVars, boardVars, pressVars
<1>1. CASE SideButton \/ UiState \/ BleConnected
  BY <1>1, OrderKept, ReceivedFacts DEF SideButton, UiState, BleConnected
<1>2. CASE BleDisconnected
  BY <1>2, OrderKept, ReceivedFacts DEF BleDisconnected, LinkLostEnds
<1>3. CASE BatteryRefresh
  BY <1>3, OrderKept, ReceivedFacts DEF BatteryRefresh
<1>4. CASE SleepRefused
  BY <1>4, OrderKept, ReceivedFacts DEF SleepRefused
<1>5. CASE SleepPrepared
  BY <1>5, OrderKept, ReceivedFacts DEF SleepPrepared
<1>6. CASE SleepAborted
  BY <1>6, OrderKept DEF SleepAborted
<1>7. CASE SleepStarted
  <2>1. /\ task = "sleeping" /\ announced' = 0 /\ ~recording
        /\ UNCHANGED <<task, recording, queue>>
    BY <1>7 DEF SleepStarted, TaskInv
  <2> QED
    BY <2>1 DEF AnnouncedInv
<1>8. CASE OtaBegin
  <2>1. /\ Receive("OTA_BEGIN") /\ UNCHANGED <<announced, primarySession, nextSession, ready, frontHeld>>
    BY <1>8 DEF OtaBegin
  <2>2. (recording' => recording) /\ (task' = "stoppingForUpdate" \/ task' = task)
    <3>1. \/ recording' = FALSE /\ task' = "stoppingForUpdate"
          \/ recording' = recording /\ task' = task
      BY <1>8 DEF OtaBegin, BeginStop
    <3> QED
      BY <3>1
  <2> QED
    BY <2>1, <2>2, OrderKept, ReceivedFacts
<1>9. CASE OtaProgress
  BY <1>9, OrderKept, ReceivedFacts DEF OtaProgress
<1>10. CASE OtaDone
  BY <1>10, OrderKept, ReceivedFacts DEF OtaDone
<1>11. CASE OtaEnd
  BY <1>11, OrderKept, ReceivedFacts DEF OtaEnd, OtaEnds
<1> QED
  BY <1>1, <1>2, <1>3, <1>4, <1>5, <1>6, <1>7, <1>8, <1>9, <1>10, <1>11

\* Nothing but the queue changes, by an event that is no press.
LEMMA QueuedOrder ==
  ASSUME TypeOK, AnnouncedInv, NEW e \in Events, e.type # "FRONT_DOWN",
         queue' = Append(queue, e),
         UNCHANGED <<announced, primarySession, nextSession, ready, recording, task>>,
         frontHeld' = frontHeld \/ Awaited(queue', frontHeld')
  PROVE  AnnouncedInv'
<1>1. queue \in Seq(Events)
  BY DEF TypeOK, QueueOK
<1>2. /\ Spaced(queue')
      /\ First(queue) => First(queue')
  BY <1>1, AppendFirst DEF AnnouncedInv
<1>3. Awaited(queue, frontHeld) => Awaited(queue', frontHeld')
  BY <1>1, AppendCovered
<1> QED
  BY <1>2, <1>3 DEF AnnouncedInv

LEMMA PressOrder ==
  ASSUME TypeOK, HeldInv, AnnouncedInv, Exhaustion = FALSE, FrontPressed
  PROVE  AnnouncedInv'
<1>1. Event("FRONT_DOWN") \in Events
  BY EventFacts DEF EventTypes
<1>2. /\ queue \in Seq(Events) /\ queue' = Append(queue, Event("FRONT_DOWN"))
      /\ frontHeld = FALSE /\ frontHeld' = TRUE
  BY <1>1, SentFacts DEF FrontPressed, TypeOK, QueueOK, BoardFlagsOK
<1>3. UNCHANGED <<announced, primarySession, nextSession, ready, recording, task>>
  BY DEF FrontPressed, stateVars, linkVars, pressVars, recordVars
<1>4. Awaited(queue', frontHeld')
  BY <1>2, HeldFacts
<1>5. Spaced(queue')
  BY <1>1, <1>2, AppendFirst DEF AnnouncedInv, HeldInv
<1>6. First(queue) /\ Awaited(queue, FALSE) => First(queue')
  BY <1>1, <1>2, AppendFirst
<1>7. recording \/ task = "starting" => First(queue')
  BY <1>2, <1>6 DEF AnnouncedInv, HeldInv
<1>8. announced # 0 /\ task # "stoppingForRelease" => First(queue')
  BY <1>2, <1>6 DEF AnnouncedInv
<1> QED
  BY <1>3, <1>4, <1>5, <1>7, <1>8 DEF AnnouncedInv

LEMMA ReleaseOrder ==
  ASSUME TypeOK, AnnouncedInv, Exhaustion = FALSE, FrontReleased
  PROVE  AnnouncedInv'
<1>1. Event("FRONT_UP") \in Events /\ Event("FRONT_UP").type = "FRONT_UP"
  BY EventFacts DEF EventTypes, Event
<1>2. queue \in Seq(Events) /\ queue' = Append(queue, Release) /\ Release \in Events
  BY <1>1, SentFacts DEF FrontReleased, TypeOK, QueueOK, Release
<1>3. Awaited(queue', frontHeld')
  BY <1>2, AppendRelease
<1>4. UNCHANGED <<announced, primarySession, nextSession, ready, recording, task>>
  BY DEF FrontReleased, stateVars, linkVars, pressVars, recordVars
<1>5. Release.type # "FRONT_DOWN"
  BY <1>1 DEF Release
<1> QED
  BY <1>2, <1>3, <1>4, <1>5, QueuedOrder

LEMMA LinkDownOrder ==
  ASSUME DInv, AnnouncedInv, LinkDown
  PROVE  AnnouncedInv'
<1> DEFINE end  == Event("OTA_END")
           lost == Event("BLE_DISCONNECTED")
<1>1. end \in Events /\ lost \in Events /\ end.type = "OTA_END" /\ lost.type = "BLE_DISCONNECTED"
  BY EventFacts DEF EventTypes, Event
<1>2. queue' = Queued(IF update = "active" THEN Queued(queue, end) ELSE queue, lost)
  BY DEF LinkDown, end, lost
<1> HIDE DEF end, lost
<1>3. queue \in Seq(Events)
  BY DEF DInv, TypeOK, QueueOK
<1>4. ASSUME NEW q \in Seq(Events), NEW e \in Events, e.type # "FRONT_DOWN"
      PROVE  /\ Queued(q, e) \in Seq(Events)
             /\ First(q) => First(Queued(q, e))
             /\ Spaced(q) => Spaced(Queued(q, e))
  <2>1. Queued(q, e) = q \/ Queued(q, e) = Append(q, e)
    BY DEF Queued
  <2>2. Append(q, e) \in Seq(Events)
    OBVIOUS
  <2> QED
    BY <1>4, <2>1, <2>2, AppendFirst
<1>5. PICK q \in Seq(Events) : /\ queue' = Queued(q, lost)
                               /\ First(queue) => First(q)
                               /\ Spaced(queue) => Spaced(q)
  <2>1. CASE update = "active"
    BY <1>1, <1>2, <1>3, <1>4, <2>1
  <2>2. CASE update # "active"
    BY <1>2, <1>3, <2>2
  <2> QED
    BY <2>1, <2>2
<1>6. (First(queue) => First(queue')) /\ Spaced(queue')
  BY <1>1, <1>4, <1>5 DEF AnnouncedInv
<1>7. announced' = 0 /\ UNCHANGED <<primarySession, nextSession, recording, task>>
  BY DEF LinkDown, stateVars, pressVars, recordVars
<1> QED
  BY <1>6, <1>7 DEF AnnouncedInv

LEMMA RestartOrder ==
  ASSUME NEW held \in BOOLEAN, Restart(held)
  PROVE  AnnouncedInv'
<1>1. announced' = 0 /\ recording' = FALSE /\ task' = "idle"
  BY DEF Restart
<1>2. queue' = <<>> \/ queue' = <<Event("FRONT_DOWN")>>
  BY DEF Restart
<1>3. \A i \in DOMAIN queue' : \A k \in DOMAIN queue' : ~(i < k)
  <2>1. CASE queue' = <<>>
    BY <2>1
  <2>2. CASE queue' = <<Event("FRONT_DOWN")>>
    <3>1. DOMAIN queue' = 1..1
      BY <2>2
    <3> QED
      BY <3>1
  <2> QED
    BY <1>2, <2>1, <2>2
<1> QED
  BY <1>1, <1>3 DEF AnnouncedInv, Spaced

LEMMA AroundOrder ==
  ASSUME DInv, HeldInv, AnnouncedInv, Exhaustion = FALSE, Around
  PROVE  AnnouncedInv'
<1> USE DEF DInv, stateVars, pressVars, recordVars, boardVars, linkVars
<1>1. \A type \in EventTypes : Event(type) \in Events /\ Event(type).type = type
  BY EventFacts DEF Event
<1>2. CASE FrontPressed
  BY <1>2, PressOrder
<1>3. CASE FrontReleased
  BY <1>3, ReleaseOrder
<1>4. CASE EventQueued \/ LinkUp \/ LinkFailed \/ UpdateStep \/ SleepTimerFired \/ PmicIrq
  <2>1. PICK e \in Events : Enqueue(e) /\ e.type # "FRONT_DOWN"
    <3>1. \A state \in UiStates : /\ UiStateEvent(state) \in Events
                                  /\ UiStateEvent(state).type = "UI_STATE"
      BY EventFacts DEF UiStateEvent
    <3> QED
      BY <1>1, <1>4, <3>1 DEF EventQueued, LinkUp, LinkFailed, UpdateStep, UpdateEvent,
         SleepTimerFired, PmicIrq, EventTypes
  <2>2. queue' = Append(queue, e)
    BY <2>1, SentFacts
  <2>3. UNCHANGED <<announced, primarySession, nextSession, ready, recording, task, frontHeld>>
    BY <1>4 DEF EventQueued, LinkUp, LinkFailed, UpdateStep, UpdateEvent, SleepTimerFired, PmicIrq
  <2> QED
    BY <2>1, <2>2, <2>3, QueuedOrder
<1>5. CASE ModeChanged \/ Subscribed \/ DimTimerFired \/ Dimmed \/ SupplyChanged
  <2>1. /\ UNCHANGED <<announced, primarySession, nextSession, recording, task, frontHeld, queue>>
        /\ ready => ready'
    BY <1>5 DEF ModeChanged, Subscribed, DimTimerFired, Dimmed, SupplyChanged
  <2> QED
    BY <2>1 DEF AnnouncedInv
<1>6. CASE LinkDown
  BY <1>6, LinkDownOrder
<1>7. CASE Woken
  BY <1>7, RestartOrder DEF Woken
<1>8. CASE Rebooted
  BY <1>8, RestartOrder DEF Rebooted, TypeOK, BoardFlagsOK
<1> QED
  BY <1>2, <1>3, <1>4, <1>5, <1>6, <1>7, <1>8 DEF Around

(* In hold to talk, and as long as the queue does not overflow, an app that *)
(* was told of a recording is told of its end before the button's events    *)
(* are through, on whatever connection it was told.                         *)
THEOREM AnnouncedIsEnded ==
  ASSUME Exhaustion = FALSE, Modes \subseteq {Hold}
  PROVE  Spec => []ReleaseAnnounced
<1> DEFINE Inv == HeldInv /\ AnnouncedInv
<1>1. Init => Inv
  <2> SUFFICES ASSUME Init PROVE Inv
    OBVIOUS
  <2>1. HeldInv
    BY DEF Init, HeldInv, Covered
  <2>2. Spaced(queue) /\ announced = 0 /\ recording = FALSE /\ task = "idle"
    BY DEF Init, Spaced
  <2> QED
    BY <2>1, <2>2 DEF AnnouncedInv
<1>2. DInv /\ Inv /\ [Next]_vars => Inv'
  <2> SUFFICES ASSUME DInv, Inv, [Next]_vars PROVE Inv'
    OBVIOUS
  <2>1. HeldInv'
    BY HeldStep
  <2>2. CASE TaskStep
    BY <2>1, <2>2, ButtonOrder, RecordingOrder, OtherOrder DEF TaskStep
  <2>3. CASE Around
    BY <2>1, <2>3, AroundOrder
  <2>4. CASE UNCHANGED vars
    BY <2>1, <2>4 DEF vars, pressVars, recordVars, linkVars, boardVars, AnnouncedInv
  <2> QED
    BY <2>2, <2>3, <2>4 DEF Next
<1>3. Inv => ReleaseAnnounced
  BY DEF AnnouncedInv, Awaited, ReleaseAnnounced
<1> QED
  BY <1>1, <1>2, <1>3, DeviceInvariance, PTL DEF Spec

-----------------------------------------------------------------------------
\* The BLE link.

USE DEF Places, Intervals, Elsewhere, Updated, InRequest, Mid

\* The two places that are no request differ from each other and from those.
LEMMA NoPlaceTwice ==
  /\ Elsewhere # Updated
  /\ \A r \in [at : Places, want : Intervals] : r # Elsewhere /\ r # Updated
<1>1. Elsewhere.at = "elsewhere" /\ Updated.at = "updated"
  OBVIOUS
<1> QED BY <1>1

\* It holds at first.
LEMMA InitHolds ==
  ASSUME BleInit
  PROVE  IInv
<1>1. MaxFaults \in Nat
  BY BleLinkAssumption DEF BleLinkAssumption
<1>2. BleTypeOK
  <2>1. host \in TaskPlaces /\ event \in TaskPlaces \ {Updated}
    BY NoPlaceTwice DEF BleInit, TaskPlaces
  <2>2. faults \in 0..MaxFaults
    BY <1>1 DEF BleInit
  <2> QED BY <2>1, <2>2 DEF BleInit, BleTypeOK
<1>3. RadioHolds /\ MidHolds /\ RestHolds /\ FreshHolds
  BY DEF BleInit, RadioHolds, MidHolds, RestHolds, FreshHolds, Undisturbed
<1> QED BY <1>2, <1>3 DEF IInv

\* A recording is configured for v1 or v2.
LEMMA ProfileVersion ==
  ASSUME NEW version, NEW mtu
  PROVE  TransportProfile(version, mtu).version \in {V1, V2}
BY DEF TransportProfile, V1Profile, V2Profile

\* A failure counts, and only within the bound.
LEMMA FailsCounts ==
  ASSUME NEW inStep, Fails(inStep), faults \in 0..MaxFaults
  PROVE  faults' \in 0..MaxFaults
<1>1. MaxFaults \in Nat
  BY BleLinkAssumption DEF BleLinkAssumption
<1> QED BY <1>1 DEF Fails

\* start_advertising keeps its flags.
LEMMA AdvertisingTypes ==
  ASSUME NEW inStep, NEW armed \in BOOLEAN, BleTypeOK, StartAdvertising(inStep, armed)
  PROVE  /\ advertising' \in BOOLEAN /\ retryArmed' \in BOOLEAN /\ gaveUp' \in BOOLEAN
         /\ faults' \in 0..MaxFaults
BY FailsCounts DEF StartAdvertising, RetryLater, BleTypeOK

\* Advertising has no part in the requests.
LEMMA AdvertisingKeeps ==
  ASSUME IInv, OnSync \/ RetryAdvertising \/ GapConnectFailed \/ MtuExchanged
  PROVE  IInv'
<1> USE DEF IInv
<1>1. BleTypeOK'
  <2>1. CASE OnSync
    <3>1. /\ advertising' \in BOOLEAN /\ retryArmed' \in BOOLEAN /\ gaveUp' \in BOOLEAN
          /\ faults' \in 0..MaxFaults
      <4>1. CASE StartAdvertising(TRUE, retryArmed)
        BY <4>1, AdvertisingTypes DEF BleTypeOK
      <4>2. CASE Fails(TRUE) /\ gaveUp' = TRUE /\ UNCHANGED <<advertising, retryArmed>>
        BY <4>2, FailsCounts DEF BleTypeOK
      <4> QED BY <2>1, <4>1, <4>2 DEF OnSync
    <3> QED BY <2>1, <3>1 DEF OnSync, BleTypeOK, itvlVars, peerVars
  <2>2. CASE RetryAdvertising
    <3>1. /\ advertising' \in BOOLEAN /\ retryArmed' \in BOOLEAN /\ gaveUp' \in BOOLEAN
          /\ faults' \in 0..MaxFaults
      BY <2>2, AdvertisingTypes DEF RetryAdvertising, BleTypeOK
    <3> QED BY <2>2, <3>1 DEF RetryAdvertising, BleTypeOK, itvlVars, peerVars
  <2>3. CASE GapConnectFailed
    <3>1. /\ advertising' \in BOOLEAN /\ retryArmed' \in BOOLEAN /\ gaveUp' \in BOOLEAN
          /\ faults' \in 0..MaxFaults
      BY <2>3, AdvertisingTypes DEF GapConnectFailed, BleTypeOK
    <3> QED BY <2>3, <3>1 DEF GapConnectFailed, BleTypeOK, itvlVars, peerVars
  <2>4. CASE MtuExchanged
    BY <2>4 DEF MtuExchanged, BleTypeOK, itvlVars, advVars
  <2> QED BY <2>1, <2>2, <2>3, <2>4
<1>2. UNCHANGED <<itvlVars, linked, host, event>>
  BY DEF OnSync, RetryAdvertising, GapConnectFailed, MtuExchanged, itvlVars, peerVars
<1>3. MidHolds' /\ RestHolds' /\ FreshHolds'
  BY <1>2 DEF MidHolds, RestHolds, FreshHolds, Undisturbed, itvlVars
<1>4. RadioHolds'
  <2>1. CASE OnSync
    BY <2>1 DEF OnSync, RadioHolds, peerVars
  <2>2. CASE RetryAdvertising
    BY <2>2 DEF RetryAdvertising, StartAdvertising, RadioHolds, peerVars
  <2>3. CASE GapConnectFailed
    BY <2>3 DEF GapConnectFailed, RadioHolds, peerVars
  <2>4. CASE MtuExchanged
    BY <2>4 DEF MtuExchanged, RadioHolds, advVars
  <2> QED BY <2>1, <2>2, <2>3, <2>4
<1> QED BY <1>1, <1>3, <1>4

\* A connection begins with nothing asked and nothing wanted, unless the
\* last request of the one before was disturbed.
LEMMA ConnectKeeps ==
  ASSUME IInv, GapConnect
  PROVE  IInv'
<1> USE DEF IInv
<1>1. BleTypeOK'
  BY DEF StopAdvertising, GapConnect, BleTypeOK, ForgetLink
<1>2. linked' /\ asked' = "none" /\ host = Elsewhere
      /\ UNCHANGED <<itvlTarget, itvlUpdatePending, updating, refused, crossed, host, event>>
  BY DEF StopAdvertising, GapConnect
<1>3. Undisturbed' => itvlTarget' = "none" /\ event'.at \notin Mid
  BY <1>2 DEF StopAdvertising, GapConnect, RadioHolds, FreshHolds, Undisturbed
<1>4. FreshHolds'
  BY <1>2 DEF FreshHolds, Undisturbed
<1>5. MidHolds' /\ RestHolds'
  BY <1>2, <1>3 DEF MidHolds, RestHolds
<1>6. RadioHolds'
  BY DEF StopAdvertising, GapConnect, RadioHolds
<1> QED BY <1>1, <1>4, <1>5, <1>6

\* A lost connection takes the target and the pending request with it; a
\* request of app_event_task that is under way counts as disturbed.
LEMMA DisconnectKeeps ==
  ASSUME IInv, Disconnected \/ HostReset
  PROVE  IInv'
<1> USE DEF IInv
<1>1. CASE UNCHANGED <<itvlVars, peerVars>> /\ HostReset /\ ~linked
  <2>1. BleTypeOK' /\ RadioHolds'
    BY <1>1 DEF HostReset, BleTypeOK, RadioHolds, itvlVars, peerVars, advVars
  <2>2. UNCHANGED <<itvlVars, linked, host, event>>
    BY <1>1 DEF HostReset, peerVars
  <2>3. MidHolds' /\ RestHolds' /\ FreshHolds'
    BY <2>2 DEF MidHolds, RestHolds, FreshHolds, Undisturbed, itvlVars
  <2> QED BY <2>1, <2>3
<1>2. ASSUME NEW inStep, GapDisconnect(inStep), host = Elsewhere,
             UNCHANGED <<host, event>>, synced' \in BOOLEAN, inStep => synced'
      PROVE  IInv'
  <2>1. BleTypeOK'
    <3>1. /\ advertising' \in BOOLEAN /\ retryArmed' \in BOOLEAN /\ gaveUp' \in BOOLEAN
          /\ faults' \in 0..MaxFaults
      BY <1>2, AdvertisingTypes DEF GapDisconnect, BleTypeOK
    <3> QED BY <1>2, <3>1 DEF GapDisconnect, ForgetLink, BleTypeOK
  <2>2. RadioHolds'
    BY <1>2 DEF GapDisconnect, StartAdvertising, RadioHolds
  <2>3. Undisturbed' => event' = Elsewhere
    BY <1>2 DEF GapDisconnect, Undisturbed
  <2>4. FreshHolds' /\ MidHolds' /\ RestHolds'
    BY <1>2, <2>3 DEF GapDisconnect, FreshHolds, MidHolds, RestHolds
  <2> QED BY <2>1, <2>2, <2>4
<1>3. CASE Disconnected
  <2>1. synced \in BOOLEAN /\ (TRUE => synced)
    BY <1>3 DEF Disconnected, GapDisconnect, RadioHolds, BleTypeOK
  <2> QED BY <1>3, <1>2, <2>1 DEF Disconnected
<1>4. CASE HostReset /\ linked
  BY <1>4, <1>2 DEF HostReset
<1> QED BY <1>1, <1>3, <1>4 DEF HostReset

\* A task that is elsewhere turns to a request.
LEMMA TurnsToRequest ==
  ASSUME IInv, TransportWritten \/ UpdateAsks \/ ReadyReceived \/ RecordingStarts
  PROVE  IInv'
<1> USE DEF IInv
<1>1. BleTypeOK'
  <2>1. CASE TransportWritten
    BY <2>1 DEF TransportWritten, BleTypeOK, TaskPlaces, advVars, itvlVars
  <2>2. CASE UpdateAsks
    BY <2>2 DEF UpdateAsks, BleTypeOK, TaskPlaces, advVars, itvlVars, peerVars
  <2>3. CASE ReadyReceived
    BY <2>3 DEF ReadyReceived, BleTypeOK, TaskPlaces, advVars, itvlVars, peerVars
  <2>4. CASE RecordingStarts
    BY <2>4, ProfileVersion DEF RecordingStarts, BleTypeOK, TaskPlaces, advVars, itvlVars
  <2> QED BY <2>1, <2>2, <2>3, <2>4
<1>2. /\ UNCHANGED <<advVars, itvlVars, linked>>
      /\ \/ host = Elsewhere /\ event' = event /\ (host' = host \/ host'.at = "begin")
         \/ event = Elsewhere /\ host' = host /\ (event' = event \/ event'.at = "begin")
  BY DEF TransportWritten, UpdateAsks, ReadyReceived, RecordingStarts, peerVars
<1>3. host' # Updated \/ host = Updated
  BY <1>2
<1>4. RadioHolds'
  BY <1>2 DEF RadioHolds, advVars
<1>5. MidHolds'
  BY <1>2 DEF MidHolds, Undisturbed, itvlVars
<1>6. RestHolds'
  BY <1>2 DEF RestHolds, Undisturbed, itvlVars
<1>7. FreshHolds'
  BY <1>2 DEF FreshHolds, Undisturbed, itvlVars
<1> QED BY <1>1, <1>4, <1>5, <1>6, <1>7

\* One step of a request keeps the types of what it may write.
LEMMA RequestTypes ==
  ASSUME BleTypeOK, NEW STATE asker, NEW STATE other, asker \in TaskPlaces,
         \/ Begins(asker, other) \/ AsksTaken(asker) \/ AsksAlready(asker)
         \/ AsksRefused(asker) \/ Ends(asker)
  PROVE  /\ asker \in [at : Places, want : Intervals]
         /\ itvlTarget' \in Intervals \cup {"none"} /\ asked' \in Intervals \cup {"none"}
         /\ itvlUpdatePending' \in BOOLEAN /\ updating' \in BOOLEAN
         /\ refused' \in BOOLEAN /\ crossed' \in BOOLEAN
<1>1. asker.at \in Places
  BY DEF Begins, AsksTaken, AsksAlready, AsksRefused, Ends
<1>2. asker \in [at : Places, want : Intervals]
  <2>1. Elsewhere.at = "elsewhere" /\ Updated.at = "updated"
    OBVIOUS
  <2> QED BY <1>1, <2>1 DEF TaskPlaces
<1>3. asker.want \in Intervals
  BY <1>2
<1>4. CASE Begins(asker, other)
  <2>1. CASE linked
    <3>1. crossed' \in BOOLEAN
      <4>1. crossed' = (other.at \in Places)
        BY <1>4, <2>1 DEF Begins
      <4>2. (other.at \in Places) \in BOOLEAN
        OBVIOUS
      <4> QED BY <4>1, <4>2, Zenon
    <3> QED BY <1>2, <1>3, <1>4, <2>1, <3>1 DEF Begins, BleTypeOK
  <2>2. CASE ~linked
    BY <1>2, <1>4, <2>2 DEF Begins, BleTypeOK
  <2> QED BY <2>1, <2>2
<1>5. CASE AsksTaken(asker)
  BY <1>2, <1>3, <1>5 DEF AsksTaken, BleTypeOK
<1>6. CASE AsksAlready(asker)
  BY <1>2, <1>6 DEF AsksAlready, BleTypeOK, itvlVars
<1>7. CASE AsksRefused(asker)
  BY <1>2, <1>7 DEF AsksRefused, BleTypeOK
<1>8. CASE Ends(asker)
  <2>1. itvlUpdatePending' \in BOOLEAN
    BY <1>8, Zenon DEF Ends, StoresPending
  <2> QED BY <1>2, <1>8, <2>1 DEF Ends, BleTypeOK
<1> QED BY <1>4, <1>5, <1>6, <1>7, <1>8

\* A step of the host task's request.
LEMMA HostRequestKeeps ==
  ASSUME IInv, HostRequest
  PROVE  IInv'
<1> USE DEF IInv
<1>1. host \in [at : Places, want : Intervals] /\ BleTypeOK'
  <2>1. /\ host \in [at : Places, want : Intervals]
        /\ itvlTarget' \in Intervals \cup {"none"} /\ asked' \in Intervals \cup {"none"}
        /\ itvlUpdatePending' \in BOOLEAN /\ updating' \in BOOLEAN
        /\ refused' \in BOOLEAN /\ crossed' \in BOOLEAN
    BY RequestTypes DEF HostRequest, BleTypeOK
  <2>2. host' \in TaskPlaces
    BY <2>1 DEF HostRequest, AfterBegin, TaskPlaces
  <2> QED BY <2>1, <2>2 DEF HostRequest, BleTypeOK, peerVars, advVars
<1>2. RadioHolds'
  BY DEF HostRequest, RadioHolds, peerVars, advVars
<1>3. UNCHANGED <<linked, event>>
  BY DEF HostRequest, peerVars
<1>4. CASE Begins(host, event) /\ host' = AfterBegin(host)
  <2>1. CASE linked
    <3>1. Undisturbed' => event.at \notin Places
      BY <1>4, <2>1, Zenon DEF Begins, Undisturbed
    <3>2. /\ itvlTarget' = host.want /\ host' = InRequest("ask", host.want)
          /\ UNCHANGED <<itvlUpdatePending, updating, asked>>
      BY <1>4, <2>1 DEF Begins, AfterBegin
    <3>3. host.want \in Intervals
      BY <1>1
    <3> QED BY <1>1, <1>2, <1>3, <2>1, <3>1, <3>2, <3>3 DEF MidHolds, RestHolds, FreshHolds
  <2>2. CASE ~linked
    BY <1>1, <1>2, <1>3, <1>4, <2>2 DEF Begins, AfterBegin, MidHolds, RestHolds, FreshHolds,
       Undisturbed
  <2> QED BY <2>1, <2>2
<1>5. CASE AsksTaken(host) /\ host' = InRequest("taken", host.want)
  BY <1>1, <1>2, <1>3, <1>5 DEF AsksTaken, MidHolds, RestHolds, FreshHolds, Undisturbed
<1>6. CASE AsksAlready(host) /\ host' = InRequest("already", host.want)
  BY <1>1, <1>2, <1>3, <1>6 DEF AsksAlready, MidHolds, RestHolds, FreshHolds, Undisturbed, itvlVars
<1>7. CASE AsksRefused(host) /\ host' = Elsewhere
  BY <1>1, <1>2, <1>7 DEF AsksRefused, MidHolds, RestHolds, FreshHolds, Undisturbed
<1>8. CASE Ends(host) /\ host' = Elsewhere
  <2>1. itvlUpdatePending' <=> host.at = "already"
    BY <1>8, Zenon DEF Ends, StoresPending
  <2>2. /\ host.at \in {"taken", "already"} /\ UNCHANGED <<itvlTarget, updating, asked, refused, crossed>>
    BY <1>8 DEF Ends
  <2> QED BY <1>1, <1>2, <1>3, <1>8, <2>1, <2>2 DEF MidHolds, RestHolds, FreshHolds, Undisturbed
<1> QED BY <1>4, <1>5, <1>6, <1>7, <1>8 DEF HostRequest

\* A step of app_event_task's request.
LEMMA EventRequestKeeps ==
  ASSUME IInv, EventRequest
  PROVE  IInv'
<1> USE DEF IInv
<1>1. event \in [at : Places, want : Intervals] /\ BleTypeOK'
  <2>1. /\ event \in [at : Places, want : Intervals]
        /\ itvlTarget' \in Intervals \cup {"none"} /\ asked' \in Intervals \cup {"none"}
        /\ itvlUpdatePending' \in BOOLEAN /\ updating' \in BOOLEAN
        /\ refused' \in BOOLEAN /\ crossed' \in BOOLEAN
    BY RequestTypes DEF EventRequest, BleTypeOK
  <2>2. event' \in TaskPlaces \ {Updated}
    <3>1. event' \in {Elsewhere} \cup [at : Places, want : Intervals]
      BY <2>1 DEF EventRequest, AfterBegin
    <3> QED BY <3>1, NoPlaceTwice DEF TaskPlaces
  <2> QED BY <2>1, <2>2 DEF EventRequest, BleTypeOK, peerVars, advVars
<1>2. RadioHolds'
  BY DEF EventRequest, RadioHolds, peerVars, advVars
<1>3. UNCHANGED <<linked, host>>
  BY DEF EventRequest, peerVars
<1>4. CASE Begins(event, host) /\ event' = AfterBegin(event)
  <2>1. CASE linked
    <3>1. Undisturbed' => host.at \notin Places
      BY <1>4, <2>1, Zenon DEF Begins, Undisturbed
    <3>2. /\ itvlTarget' = event.want /\ event' = InRequest("ask", event.want)
          /\ UNCHANGED <<itvlUpdatePending, updating, asked>>
      BY <1>4, <2>1 DEF Begins, AfterBegin
    <3>3. event.want \in Intervals
      BY <1>1
    <3> QED BY <1>1, <1>2, <1>3, <2>1, <3>1, <3>2, <3>3 DEF MidHolds, RestHolds, FreshHolds
  <2>2. CASE ~linked
    BY <1>1, <1>2, <1>3, <1>4, <2>2 DEF Begins, AfterBegin, MidHolds, RestHolds, FreshHolds,
       Undisturbed
  <2> QED BY <2>1, <2>2
<1>5. CASE AsksTaken(event) /\ event' = InRequest("taken", event.want)
  BY <1>1, <1>2, <1>3, <1>5 DEF AsksTaken, MidHolds, RestHolds, FreshHolds, Undisturbed
<1>6. CASE AsksAlready(event) /\ event' = InRequest("already", event.want)
  BY <1>1, <1>2, <1>3, <1>6 DEF AsksAlready, MidHolds, RestHolds, FreshHolds, Undisturbed, itvlVars
<1>7. CASE AsksRefused(event) /\ event' = Elsewhere
  BY <1>1, <1>2, <1>7 DEF AsksRefused, MidHolds, RestHolds, FreshHolds, Undisturbed
<1>8. CASE Ends(event) /\ event' = Elsewhere
  <2>1. itvlUpdatePending' <=> event.at = "already"
    BY <1>8, Zenon DEF Ends, StoresPending
  <2>2. /\ event.at \in {"taken", "already"} /\ UNCHANGED <<itvlTarget, updating, asked, refused, crossed>>
    BY <1>8 DEF Ends
  <2> QED BY <1>1, <1>2, <1>3, <1>8, <2>1, <2>2 DEF MidHolds, RestHolds, FreshHolds, Undisturbed
<1> QED BY <1>4, <1>5, <1>6, <1>7, <1>8 DEF EventRequest

\* The end of an update and its event.
LEMMA UpdateEndKeeps ==
  ASSUME IInv, UpdateEnds \/ ConnUpdated
  PROVE  IInv'
<1> USE DEF IInv
<1>1. CASE UpdateEnds
  <2>1. BleTypeOK' /\ RadioHolds'
    <3>1. host' \in TaskPlaces
      BY <1>1 DEF UpdateEnds, TaskPlaces
    <3>2. BleTypeOK'
      <4>1. updating' = FALSE /\ UNCHANGED <<peerVars, advVars, itvlTarget, itvlUpdatePending,
                                             asked, refused, crossed, faults, event>>
        BY <1>1 DEF UpdateEnds
      <4>2. updating' \in BOOLEAN
        BY <4>1, Zenon
      <4>3. event' \in TaskPlaces \ {Updated}
        BY <4>1 DEF BleTypeOK
      <4> QED BY <3>1, <4>1, <4>2, <4>3 DEF BleTypeOK, peerVars, advVars
    <3>3. RadioHolds'
      BY <1>1 DEF UpdateEnds, RadioHolds, peerVars, advVars
    <3> QED BY <3>2, <3>3
  <2>2. MidHolds' /\ RestHolds' /\ FreshHolds'
    BY <1>1 DEF UpdateEnds, MidHolds, RestHolds, FreshHolds, Undisturbed, peerVars
  <2> QED BY <2>1, <2>2
<1>2. CASE ConnUpdated
  <2>1. RadioHolds'
    BY <1>2 DEF ConnUpdated, RadioHolds, peerVars, advVars
  <2>2. BleTypeOK'
    <3>1. crossed' \in BOOLEAN
      BY <1>2, Zenon DEF ConnUpdated
    <3>2. itvlUpdatePending' \in BOOLEAN
      BY <1>2 DEF ConnUpdated, BleTypeOK
    <3>3. host' \in TaskPlaces
      <4>1. itvlTarget = "none" \/ InRequest("begin", itvlTarget) \in [at : Places, want : Intervals]
        BY DEF BleTypeOK
      <4> QED BY <1>2, <4>1 DEF ConnUpdated, TaskPlaces
    <3> QED BY <1>2, <3>1, <3>2, <3>3 DEF ConnUpdated, BleTypeOK, peerVars, advVars
  <2>3. Undisturbed' => Undisturbed /\ event.at # "already"
    BY <1>2, Zenon DEF ConnUpdated, Undisturbed
  <2>4. /\ host = Updated
        /\ UNCHANGED <<itvlTarget, updating, asked, linked, event>>
        /\ \/ ~itvlUpdatePending /\ host' = Elsewhere
           \/ itvlUpdatePending /\ itvlTarget = "none" /\ host' = Elsewhere
           \/ host' = InRequest("begin", itvlTarget)
    BY <1>2 DEF ConnUpdated, peerVars
  <2>5. MidHolds'
    BY <2>3, <2>4 DEF MidHolds
  <2>6. RestHolds'
    BY <2>3, <2>4 DEF RestHolds, FreshHolds
  <2>7. FreshHolds'
    BY <1>2, <2>3, <2>4 DEF ConnUpdated, FreshHolds
  <2> QED BY <2>1, <2>2, <2>5, <2>6, <2>7
<1> QED BY <1>1, <1>2

\* Every step keeps it.
LEMMA StepKeeps ==
  ASSUME IInv, [BleNext]_bleVars
  PROVE  IInv'
<1>1. CASE BleNext
  BY <1>1, AdvertisingKeeps, ConnectKeeps, DisconnectKeeps, TurnsToRequest, HostRequestKeeps,
     EventRequestKeeps, UpdateEndKeeps DEF BleNext, HostTask, AppEventTask
<1>2. CASE UNCHANGED bleVars
  BY <1>2 DEF IInv, BleTypeOK, RadioHolds, MidHolds, RestHolds, FreshHolds, Undisturbed, bleVars,
     advVars, itvlVars, peerVars
<1> QED BY <1>1, <1>2

(* The inductive invariant: what a task in the middle of a request, one     *)
(* that is through, and a connection that has just begun can rely on.       *)
THEOREM LinkInvariance == BleSpec => []IInv
<1>1. BleInit => IInv
  BY InitHolds
<1>2. IInv /\ [BleNext]_bleVars => IInv'
  BY StepKeeps
<1> QED BY <1>1, <1>2, PTL DEF BleSpec

(* The statics of voice_ble.c and the places of the two tasks keep to their *)
(* ranges, and the device never advertises while it is connected.           *)
THEOREM LinkTypes == BleSpec => [](BleTypeOK /\ RadioHolds)
<1>1. IInv => BleTypeOK /\ RadioHolds
  BY DEF IInv
<1> QED BY <1>1, LinkInvariance, PTL

(* Whatever the two tasks asked for in whatever order, the last one to ask  *)
(* is heard (s_itvl_target and s_itvl_update_pending), unless its request   *)
(* failed or the other task got into it.                                    *)
THEOREM LastIsHeard == BleSpec => []LastRequestHeard
<1>1. IInv => LastRequestHeard
  BY DEF IInv, RestHolds, LastRequestHeard, Undisturbed
<1> QED BY <1>1, LinkInvariance, PTL
=============================================================================
