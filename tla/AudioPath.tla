----------------------------- MODULE AudioPath -----------------------------
(***************************************************************************)
(* The audio path end to end: AudioPipeline and VoiceBleAudio on the       *)
(* device, the radio between, and the app's BleCentral, which negotiates   *)
(* the transport, acknowledges every v2 notification and passes its frames *)
(* on.                                                                     *)
(***************************************************************************)
EXTENDS AudioPipeline, FiniteSets

Sessions == 0..MaxSessions

VARIABLES
  controlKnown,  \* the app discovered control_rx on this connection
  heard,         \* heard[s]: what onAudioFrame was given of recording s
  recorded       \* recorded[s]: packets captured; a history of s_seq

hostVars == <<controlKnown, heard>>
vars == <<pipelineVars, bleVars, hostVars, recorded>>

\* Of one recording: the frame after the last one received, the first frame
\* never received, and whether the end marker came.
Unheard == [next |-> 0, prefix |-> 0, ended |-> FALSE]

Init ==
  /\ LinkInit
  /\ PipelineInit
  /\ controlKnown = FALSE
  /\ heard = [s \in Sessions |-> Unheard]
  /\ recorded = [s \in Sessions |-> 0]

-----------------------------------------------------------------------------
\* BleCentral

\* didDiscoverCharacteristics, on control_rx: the app asks for v2.
ControlDiscovered ==
  /\ connected
  /\ ~controlKnown
  /\ controlKnown' = TRUE
  /\ control' = Append(control, VersionWrite(V2))
  /\ UNCHANGED <<linkVars, windowVars, air, heard>>

\* What the frames of one notification make of a recording.
Heard(audio) ==
  [heard EXCEPT ![audio.session] =
     [next   |-> AcknowledgedNextSeq(audio),
      prefix |-> IF audio.first = @.prefix THEN AcknowledgedNextSeq(audio) ELSE @.prefix,
      ended  |-> @.ended \/ END \in audio.flags]]

\* didUpdateValueFor, on audio_tx.  The ACK is a write without response,
\* which CoreBluetooth may drop.
AudioReceived ==
  LET audio == Head(air)
  IN  /\ air # <<>>
      /\ air' = Tail(air)
      /\ heard' = IF Parsable(audio) THEN Heard(audio) ELSE heard
      /\ \/ /\ Parsable(audio) /\ audio.version = V2 /\ controlKnown
            /\ control' = Append(control, AckWrite(audio.session, AcknowledgedNextSeq(audio)))
         \/ UNCHANGED control
      /\ UNCHANGED <<linkVars, windowVars, controlKnown>>

Host == ControlDiscovered \/ AudioReceived

-----------------------------------------------------------------------------
Connected    == GapConnect /\ UNCHANGED hostVars
Disconnected == GapDisconnect /\ controlKnown' = FALSE /\ UNCHANGED heard

Record == recorded' = [recorded EXCEPT ![sessionId'] = seq']

CallerStep   == Caller /\ UNCHANGED hostVars /\ Record
AudioStep    == AudioTask /\ UNCHANGED hostVars /\ Record
TxStep       == TxTask /\ UNCHANGED hostVars /\ Record
HostTaskStep == HostTask /\ UNCHANGED <<pipelineVars, hostVars, recorded>>
AppStep      == (Connected \/ Disconnected \/ Host) /\ UNCHANGED <<pipelineVars, recorded>>

Next == CallerStep \/ AudioStep \/ TxStep \/ HostTaskStep \/ AppStep

Spec == Init /\ [][Next]_vars

\* The scheduler runs both audio tasks; their waits end, by an event or by a
\* timeout.  Nothing is assumed of the link, the app or the caller.
Fairness == WF_vars(AudioStep) /\ WF_vars(TxStep)

FairSpec == Spec /\ Fairness

-----------------------------------------------------------------------------
Entry == [session : Sessions, seq : 0..MaxFrames, flags : {{}, {START}, {END}}]

Profile ==
  [version : {V1, V2}, bundleSize : 1..MaxBundle, packetBudget : Nat, bitrate : Nat,
   maxInflight : Nat]

Notification ==
  [version : {V1, V2}, session : Sessions, first : 0..MaxFrames,
   flags : SUBSET {START, END}, lens : Seq(Nat)]

ControlWrite ==
  [type : {"audio_transport"}, version : {V1, V2}]
    \cup [type : {"audio_ack"}, session : Sessions, next : Nat]

\* The link and the window.
LinkTypeOK ==
  /\ connected \in BOOLEAN /\ audioSubscribed \in BOOLEAN /\ stateSubscribed \in BOOLEAN
  /\ attMtu \in Nat
  /\ transportVersion \in {V1, V2}
  /\ audioSessionId \in Sessions
  /\ ackedSeq \in Nat
  /\ ackInHand \in SUBSET [next : Nat, of : Sessions]
  /\ crossed \in BOOLEAN

\* The radio and the app.
HostTypeOK ==
  /\ air \in Seq(Notification)
  /\ control \in Seq(ControlWrite)
  /\ controlKnown \in BOOLEAN
  /\ heard \in [Sessions -> [next : 0..MaxFrames, prefix : 0..MaxFrames, ended : BOOLEAN]]

\* The pipeline.
PipelineTypeOK ==
  /\ running \in BOOLEAN
  /\ sessionId \in Sessions
  /\ seq \in 0..MaxFrames
  /\ queue \in Seq(Entry) /\ Len(queue) <= QueueDepth
  /\ profile \in Profile
  /\ resources \in BOOLEAN
  /\ audioTask \in {"none", "loop", "reading", "overflow", "closing", "exiting"}
  /\ txTask \in {"none", "receive", "collect", "window", "notify", "end", "endNotify", "await"}
  /\ bundle \in Seq(Entry) /\ Len(bundle) <= profile.bundleSize
  /\ stopping \in BOOLEAN
  /\ endSeq \in 0..MaxFrames
  /\ retries \in 0..(MaxRetries - 1)
  /\ caller \in {"idle", "starting", "configured", "begun", "txStarted"}
  /\ nextSession \in 1..(MaxSessions + 1)
  /\ recorded \in [Sessions -> 0..MaxFrames]

(* The values the variables range over; the queue and the array            *)
(* bundle[TX_V2_MAX_BUNDLE] are never written past their ends.             *)
TypeOK == LinkTypeOK /\ HostTypeOK /\ PipelineTypeOK

NextFrame(audio) == audio.first + Len(audio.lens)

\* The v2 bundles of the current recording that wait in the Bluetooth stack.
InFlight ==
  {i \in DOMAIN air : /\ air[i].version = V2
                      /\ air[i].session = sessionId
                      /\ air[i].lens # <<>>}

(* docs/protocol.md: "The firmware permits only two bundles beyond the     *)
(* latest ACK".  The v2 bundles of a recording that wait in the Bluetooth  *)
(* stack never span more than the window, through retries, drops and       *)
(* reconnections, unless an ACK of an earlier window was stored in this    *)
(* recording's.                                                            *)
AirWithinWindow ==
  txTask # "none" /\ profile.version = V2 /\ ~crossed =>
    \A i, j \in InFlight : NextFrame(air[j]) - air[i].first <= profile.maxInflight

(* Same sentence, of every recording the link carries as v2 bundles.  Does *)
(* not hold: a recording configured before the app asked for v2 is sent in *)
(* v2 bundles without the window (audio_pipeline.c:372).                   *)
TwoBundlesInFlight ==
  txTask # "none" =>
    \A i, j \in InFlight :
      NextFrame(air[j]) - air[i].first <= MaxBundle * AckWindowBatches

(* docs/protocol.md: "the ACK proves that CoreBluetooth delivered it to    *)
(* the app".  What the window counts as acknowledged of a recording, the   *)
(* app has been given.  Between the two stores of begin_audio_session the  *)
(* counter still belongs to the previous recording; and voice_ble.c:412    *)
(* compares and stores apart, so that an ACK of the previous recording may *)
(* be stored when the next has begun, which is excepted.                   *)
AckedWasHeard == caller # "begun" /\ ~crossed => ackedSeq <= heard[audioSessionId].next

(* Same sentence, without the exception, of a recording that is being      *)
(* sent: the window never opens by more than the app was given.  Does not  *)
(* hold (voice_ble.c:412).                                                 *)
AckProvesDelivery ==
  txTask # "none" /\ audioSessionId = sessionId => ackedSeq <= heard[sessionId].next

(* docs/protocol.md: next_seq is the "first sequence not yet received".    *)
(* Does not hold: the app computes it from the latest bundle alone         *)
(* (BleProtocol.swift:21), which passes over frames the device gave up.    *)
AckIsCumulative ==
  \A i \in DOMAIN control :
    control[i].type = "audio_ack" => control[i].next <= heard[control[i].session].prefix

(* The end marker is decided only when capture is over, so no frame is     *)
(* captured after it, and it carries the number of captured frames.        *)
EndClosesCapture ==
  txTask \in {"end", "endNotify", "await"} \/ stopping =>
    audioTask \in {"exiting", "none"} /\ caller \notin {"begun", "txStarted"} /\ endSeq = seq

(* When tx_task is gone it has taken everything out of the queue: no frame *)
(* or sentinel is left for the next recording to find.                     *)
QueueDrained == txTask = "none" => queue = <<>>

(* tx_task works on the recording that owns s_session_id only: no packet   *)
(* is sent under the wrong session.                                        *)
OneSession ==
  /\ \A i \in DOMAIN queue : queue[i].session = sessionId
  /\ \A i \in DOMAIN bundle : bundle[i].session = sessionId

(* The codec and the encoder exist as long as audio_task may use them, and *)
(* are released when both tasks are gone and no start is under way.        *)
ResourcesOwned ==
  /\ audioTask # "none" => resources
  /\ resources => ~TasksExited \/ caller \in {"configured", "begun"}

(* Once stopped, a recording's tasks end: wait_for_tasks_to_exit succeeds  *)
(* if it is given the time.                                                *)
StopCompletes == ~running /\ ~TasksExited ~> TasksExited

(* The device may still add frames to the recording of s_session_id. *)
Capturing ==
  audioTask \in {"loop", "reading", "overflow"} \/ caller \in {"begun", "txStarted"}

(* The app hears what AudioStream promises. *)
Stream == INSTANCE AudioStream WITH
            current <- sessionId, captured <- recorded, open <- Capturing,
            heard <- [s \in Sessions |-> [next |-> heard[s].next, ended |-> heard[s].ended]]

StreamDelivered == Stream!StreamSpec

-----------------------------------------------------------------------------
\* What the tasks rely on of one another; with TypeOK, an inductive invariant.

\* A start proceeds only when the previous recording's tasks are gone, and
\* tx_task waits for audio_task.
TasksInv ==
  /\ caller \in {"configured", "begun"} => TasksExited /\ resources
  /\ caller = "txStarted" => audioTask = "none" /\ txTask = "receive" /\ queue = <<>>
  /\ audioTask # "none" => txTask \notin {"none"}
  /\ resources <=> ~TasksExited \/ caller \in {"configured", "begun"}
  /\ audioTask = "overflow" => seq < MaxFrames

\* The sentinel is queued when capture is over, once, and
\* makes tx_task finish.
NoSentinel(entries) == \A i \in DOMAIN entries : ~IsSentinel(entries[i])

SentinelTaken == stopping \/ txTask \in {"end", "endNotify", "await"}

SentinelInv ==
  /\ txTask = "none" => queue = <<>> /\ ~stopping
  /\ SentinelTaken => /\ queue = <<>>
                      /\ audioTask \in {"exiting", "none"} /\ caller # "txStarted"
                      /\ endSeq = seq
  /\ audioTask \in {"loop", "reading", "overflow", "closing"} => NoSentinel(queue)
  /\ /\ audioTask \in {"exiting", "none"}
     /\ txTask # "none" /\ caller # "txStarted" /\ ~SentinelTaken
     => queue # <<>> /\ IsSentinel(Last(queue))

\* What tx_task holds at each of its steps.
BundleInv ==
  /\ txTask \in {"none", "receive", "end", "await"} => bundle = <<>>
  /\ txTask = "collect" => Len(bundle) \in 1..(profile.bundleSize - 1) /\ ~stopping
  /\ txTask \in {"window", "notify"} => bundle # <<>>
  /\ txTask \in {"collect", "window", "notify"} => NoSentinel(bundle)
  /\ txTask = "window" => profile.version = V2
  /\ txTask = "receive" => ~stopping
  /\ txTask = "endNotify" => Len(bundle) <= 1

\* Frames move on in the order of their numbers: from audio_task to the queue,
\* from the queue to the bundle.
Ascending(entries) ==
  \A i, j \in DOMAIN entries : i < j => entries[i].seq < entries[j].seq

Before(entries, later) ==
  \A i \in DOMAIN entries, j \in DOMAIN later : entries[i].seq < later[j].seq

\* Of a recording that has captured n frames.
Numbered(entries, n) ==
  \A i \in DOMAIN entries :
    entries[i].seq <= n /\ (IsSentinel(entries[i]) <=> entries[i].seq = n)

OrderInv ==
  /\ Ascending(queue)
  /\ Numbered(queue, seq)
  /\ txTask \in {"collect", "window", "notify"} =>
       Ascending(bundle) /\ Numbered(bundle, seq) /\ Before(bundle, queue)

\* No notification claims frames that were not captured.
AirInv == \A i \in DOMAIN air : NextFrame(air[i]) <= MaxFrames \/ IsEmptyEnd(air[i])

IInv ==
  /\ TypeOK
  /\ TasksInv
  /\ SentinelInv
  /\ BundleInv
  /\ OneSession
  /\ OrderInv
  /\ AirInv

-----------------------------------------------------------------------------
\* What the radio holds; with IInv, an inductive invariant as well.

\* Nothing was heard of a recording.
Silent(s) == heard[s].next = 0 /\ ~heard[s].ended

\* The end marker of the recording of s_session_id was sent or given up.
EndSent == txTask \in {"none", "await"} /\ ~Capturing

\* Recordings are numbered upwards; a new one finds nothing of its number.
SessionsInv ==
  /\ recorded[sessionId] = seq
  /\ \A s \in Sessions : s > sessionId => recorded[s] = 0 /\ Silent(s)
  /\ sessionId < nextSession
  /\ caller \in {"starting", "configured"} => sessionId < nextSession - 1
  /\ caller = "begun" => \A i \in DOMAIN air : air[i].session # sessionId

\* A notification claims what was captured, and an end marker all of it.
Genuine(audio) ==
  /\ audio.session <= sessionId
  /\ IsEmptyEnd(audio) => /\ audio.first = recorded[audio.session]
                          /\ audio.session = sessionId => EndSent
  /\ ~IsEmptyEnd(audio) => /\ audio.lens # <<>>
                           /\ END \notin audio.flags
                           /\ NextFrame(audio) <= recorded[audio.session]

\* It lies ahead of everything that was heard.
Unheeded(audio) ==
  /\ heard[audio.session].next <= audio.first
  /\ ~heard[audio.session].ended
  /\ \A s \in Sessions : s > audio.session => Silent(s)

\* Notifications wait in the order of their frames, an end marker last.
Precedes(earlier, later) ==
  \/ earlier.session < later.session
  \/ /\ earlier.session = later.session
     /\ ~IsEmptyEnd(earlier)
     /\ NextFrame(earlier) <= later.first

RadioInv ==
  /\ \A i \in DOMAIN air : Genuine(air[i]) /\ Unheeded(air[i])
  /\ \A i, j \in DOMAIN air : i < j => Precedes(air[i], air[j])
  /\ heard[sessionId].ended => EndSent

\* Frame n of the recording of s_session_id comes after all that was sent.
AheadOf(n) ==
  /\ heard[sessionId].next <= n
  /\ \A i \in DOMAIN air :
       air[i].session = sessionId /\ ~IsEmptyEnd(air[i]) => NextFrame(air[i]) <= n

\* The numbers of what is not sent yet, and of the next frame.
Held == IF txTask \in {"collect", "window", "notify"}
        THEN {bundle[i].seq : i \in DOMAIN bundle} ELSE {}
Unsent == {seq} \cup {queue[i].seq : i \in DOMAIN queue} \cup Held

AheadInv == \A n \in Unsent : AheadOf(n)

StreamInv == SessionsInv /\ RadioInv /\ AheadInv

-----------------------------------------------------------------------------
\* What keeps the window; with the two above, an inductive invariant.

\* The app writes nothing that is not so.
ControlInv ==
  \A i \in DOMAIN control :
    /\ control[i].type = "audio_transport" => control[i].version = V2
    /\ control[i].type = "audio_ack" => control[i].next <= heard[control[i].session].next

\* An ACK that is being stored is of the window it was compared with.
HandInv == \A ack \in ackInHand : ack.next <= heard[ack.of].next

\* With v2's profile, nothing is in flight when the link speaks v1, and a
\* bundle past the window has room.
WindowInv ==
  /\ ~connected => air = <<>>
  /\ profile.version = V2 => profile.bundleSize <= profile.maxInflight
  /\ profile.version = V2 /\ txTask # "none" =>
       /\ transportVersion = V1 => InFlight = {}
       /\ txTask = "notify" /\ ~crossed =>
            \A i \in InFlight : bundle[Len(bundle)].seq + 1 - air[i].first <= profile.maxInflight
       /\ txTask = "endNotify" /\ bundle # <<>> => InFlight = {}

WInv == ControlInv /\ HandInv /\ AckedWasHeard /\ WindowInv /\ AirWithinWindow
=============================================================================
