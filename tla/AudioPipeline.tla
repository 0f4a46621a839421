--------------------------- MODULE AudioPipeline ---------------------------
(***************************************************************************)
(* firmware/components/audio_pipeline/audio_pipeline.c: a recording is     *)
(* captured and encoded by one task, audio_task, which hands packets       *)
(* through a bounded queue to another, tx_task, which bundles them and     *)
(* gives them to voice_ble.  A third task, app_event_task of main.c,       *)
(* starts and stops recordings.  Each runs until a point where another     *)
(* task can see or change what it uses next.                               *)
(***************************************************************************)
EXTENDS VoiceBleAudio

CONSTANTS
  QueueDepth,  \* TX_QUEUE_DEPTH
  MaxRetries,  \* TX_MAX_RETRIES
  MaxSessions, \* bound: recordings started
  MaxFrames    \* bound: packets captured in a recording

ASSUME PipelineAssumption ==
  /\ QueueDepth \in Nat \ {0}
  /\ MaxRetries \in Nat \ {0}
  /\ MaxSessions \in Nat
  /\ MaxFrames \in Nat

VARIABLES
  running,      \* s_running
  sessionId,    \* s_session_id of audio_pipeline.c
  seq,          \* s_seq
  queue,        \* s_tx_queue
  profile,      \* s_transport_profile
  resources,    \* the codec, encoder and I2S channel exist
  audioTask,    \* where audio_task is; "none" when s_audio_task is NULL
  txTask,       \* where tx_task is; "none" when s_tx_task is NULL
  bundle, stopping, endSeq, retries,   \* tx_task's locals
  caller,       \* where app_event_task is in starting a recording
  nextSession   \* s_session_id of main.c

captureVars == <<running, sessionId, seq, audioTask>>
txVars      == <<txTask, bundle, stopping, endSeq, retries>>
startVars   == <<profile, resources, caller, nextSession>>
pipelineVars == <<captureVars, queue, txVars, startVars>>

PipelineInit ==
  /\ running = FALSE
  /\ sessionId = 0
  /\ seq = 0
  /\ queue = <<>>
  /\ profile = V1Profile
  /\ resources = FALSE
  /\ audioTask = "none"
  /\ txTask = "none"
  /\ bundle = <<>> /\ stopping = FALSE /\ endSeq = 0 /\ retries = 0
  /\ caller = "idle"
  /\ nextSession = 1

TasksExited == audioTask = "none" /\ txTask = "none"

\* Queue entries.
Frame == [session |-> sessionId, seq |-> seq, flags |-> IF seq = 0 THEN {START} ELSE {}]
Sentinel == [session |-> sessionId, seq |-> seq, flags |-> {END}]
IsSentinel(entry) == entry.flags = {END}

-----------------------------------------------------------------------------
\* app_event_task: start_recording (main.c) and audio_pipeline_start.

\* start_recording looks at the link, takes a session id, and then spends
\* time on power locks and the start sound.
StartRequested ==
  /\ caller = "idle"
  /\ ~running
  /\ IsReady
  /\ nextSession <= MaxSessions
  /\ nextSession' = nextSession + 1
  /\ caller' = "starting"
  /\ UNCHANGED <<captureVars, queue, txVars, profile, resources, bleVars>>

\* wait_for_tasks_to_exit gives up on the previous recording.
StartTimedOut ==
  /\ caller = "starting"
  /\ ~TasksExited
  /\ caller' = "idle"
  /\ UNCHANGED <<captureVars, queue, txVars, profile, resources, nextSession, bleVars>>

PreviousSessionGone == TasksExited

\* configure_transport_profile, with its fallback to v1, then the session's
\* resources; a failure among those releases the ones already made.  The
\* version and the MTU are read in one step.
StartConfigured ==
  /\ caller = "starting"
  /\ PreviousSessionGone
  /\ profile' = TransportProfile(transportVersion, attMtu)
  /\ IF transportVersion = V2 /\ profile'.version = V1
     THEN SetTransportVersion(V1)
     ELSE UNCHANGED <<transportVersion, audioSessionId, ackedSeq>>
  /\ \/ resources' = TRUE /\ caller' = "configured"
     \/ UNCHANGED resources /\ caller' = "idle"
  /\ UNCHANGED <<captureVars, queue, txVars, nextSession,
                 connected, audioSubscribed, stateSubscribed, attMtu, ackInHand, crossed,
                 air, control>>

\* xQueueReset and the first store of voice_ble_begin_audio_session.
StartSession ==
  /\ caller = "configured"
  /\ queue' = <<>>
  /\ sessionId' = nextSession - 1
  /\ seq' = 0
  /\ audioSessionId' = nextSession - 1
  /\ caller' = "begun"
  /\ UNCHANGED <<running, audioTask, txVars, profile, resources, nextSession,
                 linkVars, ackedSeq, ackInHand, crossed, air, control>>

\* Its second store, s_running, and the creation of tx_task.
StartTxTask ==
  /\ caller = "begun"
  /\ ackedSeq' = 0
  /\ crossed' = FALSE
  /\ \/ /\ running' = TRUE
        /\ txTask' = "receive"
        /\ caller' = "txStarted"
        /\ UNCHANGED resources
     \/ /\ resources' = FALSE
        /\ caller' = "idle"
        /\ UNCHANGED <<running, txTask>>
  /\ UNCHANGED <<sessionId, seq, audioTask, queue, bundle, stopping, endSeq, retries,
                 profile, nextSession, linkVars, audioSessionId, ackInHand, air, control>>

\* The creation of audio_task; when it fails the caller stands in for it and
\* queues the sentinel that ends tx_task.
StartAudioTask ==
  /\ caller = "txStarted"
  /\ caller' = "idle"
  /\ \/ audioTask' = "loop" /\ UNCHANGED <<running, queue>>
     \/ /\ running' = FALSE
        /\ queue' = Append(queue, Sentinel)
        /\ UNCHANGED audioTask
  /\ UNCHANGED <<sessionId, seq, txVars, profile, resources, nextSession, bleVars>>

\* Slip: the caller queues the sentinel while audio_task may still be at work.
StopWithSentinel ==
  /\ caller = "idle"
  /\ running
  /\ running' = FALSE
  /\ queue' = Append(queue, Sentinel)
  /\ UNCHANGED <<sessionId, seq, audioTask, txVars, startVars, bleVars>>

\* audio_pipeline_stop
Stop ==
  /\ caller = "idle"
  /\ running
  /\ running' = FALSE
  /\ UNCHANGED <<sessionId, seq, audioTask, queue, txVars, startVars, bleVars>>

Caller ==
  \/ StartRequested
  \/ StartTimedOut
  \/ StartConfigured
  \/ StartSession
  \/ StartTxTask
  \/ StartAudioTask
  \/ Stop

-----------------------------------------------------------------------------
\* audio_task

\* The loop's condition is read before a frame's worth of audio is awaited.
AudioLoop ==
  /\ audioTask = "loop"
  /\ audioTask' = IF running THEN "reading" ELSE "closing"
  /\ UNCHANGED <<running, sessionId, seq, queue, txVars, startVars, bleVars>>

\* The codec or the encoder fails; the loop goes round without a packet.
AudioReadFailed ==
  /\ audioTask = "reading"
  /\ audioTask' = "loop"
  /\ UNCHANGED <<running, sessionId, seq, queue, txVars, startVars, bleVars>>

AudioEnqueued ==
  /\ audioTask = "reading"
  /\ seq < MaxFrames
  /\ Len(queue) < QueueDepth
  /\ queue' = Append(queue, Frame)
  /\ seq' = seq + 1
  /\ audioTask' = "loop"
  /\ UNCHANGED <<running, sessionId, txVars, startVars, bleVars>>

AudioQueueFull ==
  /\ audioTask = "reading"
  /\ seq < MaxFrames
  /\ Len(queue) = QueueDepth
  /\ audioTask' = "overflow"
  /\ UNCHANGED <<running, sessionId, seq, queue, txVars, startVars, bleVars>>

\* Slip: the new packet goes where the discarded one was.
OverflowedAtFront == IF queue = <<>> THEN <<Frame>> ELSE <<Frame>> \o Tail(queue)

\* The oldest packet, if tx_task has left one, makes room.
Overflowed == IF queue = <<>> THEN <<Frame>> ELSE Append(Tail(queue), Frame)

AudioOverflowed ==
  /\ audioTask = "overflow"
  /\ queue' = Overflowed
  /\ seq' = seq + 1
  /\ audioTask' = "loop"
  /\ UNCHANGED <<running, sessionId, txVars, startVars, bleVars>>

\* Slip: the sentinel is queued without waiting and is lost on a full queue.
AudioClosedWithoutWaiting ==
  /\ audioTask = "closing"
  /\ queue' = IF Len(queue) < QueueDepth THEN Append(queue, Sentinel) ELSE queue
  /\ audioTask' = "exiting"
  /\ UNCHANGED <<running, sessionId, seq, txVars, startVars, bleVars>>

\* xQueueSend(sentinel, portMAX_DELAY)
AudioClosed ==
  /\ audioTask = "closing"
  /\ Len(queue) < QueueDepth
  /\ queue' = Append(queue, Sentinel)
  /\ audioTask' = "exiting"
  /\ UNCHANGED <<running, sessionId, seq, txVars, startVars, bleVars>>

AudioExited ==
  /\ audioTask = "exiting"
  /\ audioTask' = "none"
  /\ UNCHANGED <<running, sessionId, seq, queue, txVars, startVars, bleVars>>

AudioTask ==
  \/ AudioLoop
  \/ AudioReadFailed
  \/ AudioEnqueued
  \/ AudioQueueFull
  \/ AudioOverflowed
  \/ AudioClosed
  \/ AudioExited

-----------------------------------------------------------------------------
\* tx_task

\* send_audio_bundle starts with the window on v2 and goes straight to the
\* notification on v1.
SendStart == IF profile.version = V2 THEN "window" ELSE "notify"

TakeSentinel ==
  /\ IsSentinel(Head(queue))
  /\ queue' = Tail(queue)
  /\ endSeq' = Head(queue).seq
  /\ UNCHANGED <<bundle, retries>>

TakeFrame ==
  /\ ~IsSentinel(Head(queue))
  /\ queue' = Tail(queue)
  /\ bundle' = Append(bundle, Head(queue))
  /\ txTask' = IF Len(bundle) + 1 < profile.bundleSize THEN "collect" ELSE SendStart
  /\ UNCHANGED <<stopping, endSeq, retries>>

TxReceive ==
  /\ txTask = "receive"
  /\ queue # <<>>
  /\ \/ TakeFrame
     \/ TakeSentinel /\ txTask' = "end" /\ UNCHANGED stopping
  /\ UNCHANGED <<captureVars, startVars, bleVars>>

TxCollect ==
  /\ txTask = "collect"
  /\ queue # <<>>
  /\ \/ TakeFrame
     \/ TakeSentinel /\ txTask' = SendStart /\ stopping' = TRUE
  /\ UNCHANGED <<captureVars, startVars, bleVars>>

TxCollectTimedOut ==
  /\ txTask = "collect"
  /\ queue = <<>>
  /\ txTask' = SendStart
  /\ UNCHANGED <<captureVars, queue, startVars, bundle, stopping, endSeq, retries, bleVars>>

\* The bundle as voice_ble gets it: all of it on v2, its first packet on v1.
BundlePackets ==
  [i \in 1..(IF profile.version = V2 THEN Len(bundle) ELSE 1) |->
     [seq |-> bundle[i].seq, flags |-> bundle[i].flags, len |-> OpusPacketBytes(profile)]]

BundleDone ==
  /\ bundle' = <<>>
  /\ retries' = 0
  /\ txTask' = IF stopping THEN "end" ELSE "receive"

\* A failed attempt is repeated from the start, MaxRetries times in all.
BundleFailed ==
  \/ /\ retries + 1 < MaxRetries
     /\ retries' = retries + 1
     /\ txTask' = SendStart
     /\ UNCHANGED bundle
  \/ retries + 1 = MaxRetries /\ BundleDone

\* Slip: the window is judged by the first packet of the bundle.
BundleWindowOpenAtFirst ==
  WindowOpen(bundle[1].session, bundle[1].seq, profile.maxInflight)

BundleWindowOpen ==
  WindowOpen(bundle[1].session, bundle[Len(bundle)].seq + 1, profile.maxInflight)

TxWindowOpen ==
  /\ txTask = "window"
  /\ BundleWindowOpen
  /\ txTask' = "notify"
  /\ UNCHANGED <<captureVars, queue, startVars, bundle, stopping, endSeq, retries, bleVars>>

TxWindowFailed ==
  /\ txTask = "window"
  /\ ~BundleWindowOpen
  /\ BundleFailed
  /\ UNCHANGED <<captureVars, queue, startVars, stopping, endSeq, bleVars>>

TxNotified ==
  /\ txTask = "notify"
  /\ CanNotify(bundle[1].seq, BundlePackets)
  /\ Notify(bundle[1].session, bundle[1].seq, BundlePackets)
  /\ BundleDone
  /\ UNCHANGED <<captureVars, queue, startVars, stopping, endSeq, linkVars, windowVars, control>>

\* The link is down, the encoder refuses, or NimBLE has no buffer.
TxNotifyFailed ==
  /\ txTask = "notify"
  /\ BundleFailed
  /\ UNCHANGED <<captureVars, queue, startVars, stopping, endSeq, bleVars>>

\* voice_ble_send_audio chooses the form of the end marker by the version it
\* reads; voice_ble_send_audio_packets reads the version again.
TxEndFormed ==
  /\ txTask = "end"
  /\ bundle' = IF transportVersion = V2 THEN <<>>
               ELSE << [session |-> sessionId, seq |-> endSeq, flags |-> {END}] >>
  /\ txTask' = "endNotify"
  /\ UNCHANGED <<captureVars, queue, startVars, stopping, endSeq, retries, bleVars>>

EndPackets == [i \in DOMAIN bundle |-> [seq |-> endSeq, flags |-> {END}, len |-> 0]]
EndEnvelope == IF bundle = <<>> THEN {END} ELSE {}

TxEndNotified ==
  /\ txTask = "endNotify"
  /\ CanNotify(endSeq, EndPackets)
  /\ air' = Append(air, EncodedAudio(transportVersion, sessionId, endSeq, EndEnvelope, EndPackets))
  /\ txTask' = "await"
  /\ bundle' = <<>>
  /\ retries' = 0
  /\ UNCHANGED <<captureVars, queue, startVars, stopping, endSeq, linkVars, windowVars, control>>

TxEndFailed ==
  /\ txTask = "endNotify"
  /\ bundle' = <<>>
  /\ \/ retries + 1 < MaxRetries /\ retries' = retries + 1 /\ txTask' = "end"
     \/ retries + 1 = MaxRetries /\ retries' = 0 /\ txTask' = "await"
  /\ UNCHANGED <<captureVars, queue, startVars, stopping, endSeq, bleVars>>

CaptureIgnored == TRUE      \* slip: tx_task does not wait for audio_task
CaptureGone == audioTask = "none"

TxExited ==
  /\ txTask = "await"
  /\ CaptureGone
  /\ resources' = FALSE
  /\ txTask' = "none"
  /\ stopping' = FALSE
  /\ endSeq' = 0
  /\ UNCHANGED <<captureVars, queue, bundle, retries, profile, caller, nextSession, bleVars>>

TxTask ==
  \/ TxReceive
  \/ TxCollect
  \/ TxCollectTimedOut
  \/ TxWindowOpen
  \/ TxWindowFailed
  \/ TxNotified
  \/ TxNotifyFailed
  \/ TxEndFormed
  \/ TxEndNotified
  \/ TxEndFailed
  \/ TxExited
=============================================================================
