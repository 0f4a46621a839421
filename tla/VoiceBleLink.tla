---------------------------- MODULE VoiceBleLink ----------------------------
(***************************************************************************)
(* firmware/components/voice_ble/voice_ble.c: being found and being asked  *)
(* for a faster or slower connection.  Advertising is started and retried  *)
(* by the NimBLE host task alone.  The connection interval is requested by *)
(* two tasks: the host task (a write of the app, the end of an earlier     *)
(* update) and app_event_task (a "ready" UI state, a recording), with two  *)
(* plain statics between them, so a request is one step per access.        *)
(*                                                                         *)
(* NimBLE is external: it runs at most one update of the parameters at a   *)
(* time, ends each with BLE_GAP_EVENT_CONN_UPDATE, and after a reset       *)
(* synchronizes again.  Only one connection is configured, so a connection *)
(* begins when the last one's events are through.  The audio window of the *)
(* link is in VoiceBleAudio, the update that asks for intervals in         *)
(* FirmwareUpdate.  What other models of the device have too (Init, Next,  *)
(* Spec, ...) is called BleInit, BleNext, BleSpec, ... here.               *)
(***************************************************************************)
EXTENDS AudioTransport, FiniteSets

CONSTANTS
  Mtus,       \* the ATT MTUs an exchange may end with
  MaxFaults,  \* bound: calls of NimBLE that fail for no reason of the device's
  MaxSeq      \* bound: sequence numbers of the bundles ProfileCarries tries

DefaultMtu == 23

ASSUME BleLinkAssumption ==
  /\ Mtus \subseteq Nat
  /\ MaxFaults \in Nat /\ MaxSeq \in Nat

VARIABLES
  \* voice_ble.c
  linked, attMtu, transportVersion,     \* s_connected, s_att_mtu, s_audio_transport_version
  itvlTarget, itvlUpdatePending,        \* s_itvl_target, s_itvl_update_pending
  retryArmed,                           \* s_adv_retry_callout
  \* NimBLE
  synced,      \* host and controller are in step
  advertising, \* ble_gap_adv_active()
  updating,    \* an update of the connection parameters is under way
  asked,       \* the interval of the last update that was taken on, or "none"
  faults,
  \* the two tasks
  host, event, \* where each is in a request
  profile,     \* what the recording being started was configured with
  \* history
  gaveUp,      \* the last start_advertising failed before it could arm the retry
  refused,     \* the last request failed
  crossed      \* the other task got between the steps of the last request

advVars  == <<synced, advertising, retryArmed, gaveUp>>
itvlVars == <<itvlTarget, itvlUpdatePending, updating, asked, refused, crossed>>
peerVars == <<linked, attMtu, transportVersion>>
bleVars == <<advVars, itvlVars, peerVars, faults, host, event, profile>>

NotConfigured == [version |-> 0]

\* A task's place: elsewhere, or in voice_ble_request_<want>_interval, before
\* the check, before ble_gap_update_params, or before the store that follows
\* when that returned 0 or BLE_HS_EALREADY.  The host task is "updated" when
\* an update ended and its event is about to be handled.
Elsewhere == [at |-> "elsewhere"]
Updated   == [at |-> "updated"]
InRequest(place, want) == [at |-> place, want |-> want]

Places    == {"begin", "ask", "taken", "already"}
Intervals == {"fast", "slow"}
TaskPlaces == {Elsewhere, Updated} \cup [at : Places, want : Intervals]

BleTypeOK ==
  /\ linked \in BOOLEAN /\ attMtu \in Mtus \cup {DefaultMtu}
  /\ transportVersion \in {V1, V2}
  /\ itvlTarget \in Intervals \cup {"none"} /\ asked \in Intervals \cup {"none"}
  /\ itvlUpdatePending \in BOOLEAN /\ updating \in BOOLEAN
  /\ synced \in BOOLEAN /\ advertising \in BOOLEAN /\ retryArmed \in BOOLEAN
  /\ gaveUp \in BOOLEAN /\ refused \in BOOLEAN /\ crossed \in BOOLEAN
  /\ faults \in 0..MaxFaults
  /\ host \in TaskPlaces /\ event \in TaskPlaces \ {Updated}

\* voice_ble_init is through; NimBLE calls on_sync.
BleInit ==
  /\ linked = FALSE /\ attMtu = DefaultMtu /\ transportVersion = V1
  /\ itvlTarget = "none" /\ itvlUpdatePending = FALSE
  /\ retryArmed = FALSE /\ synced = FALSE /\ advertising = FALSE
  /\ updating = FALSE /\ asked = "none" /\ faults = 0
  /\ host = Elsewhere /\ event = Elsewhere /\ profile = NotConfigured
  /\ gaveUp = FALSE /\ refused = FALSE /\ crossed = FALSE

\* A call of NimBLE fails, which it always does while out of step.
Fails(inStep) ==
  IF inStep THEN faults < MaxFaults /\ faults' = faults + 1 ELSE UNCHANGED faults

-----------------------------------------------------------------------------
\* Advertising, on the host task.

\* Slip: the retry is not armed when ble_gap_adv_start fails.
LeftUnarmed(armed) == retryArmed' = armed /\ gaveUp' = FALSE
\* What follows a failed ble_gap_adv_start.
RetryLater(armed) == retryArmed' = TRUE /\ gaveUp' = FALSE

\* start_advertising, not connected and not advertising.  A failure of one
\* of the two calls before ble_gap_adv_start only returns.
StartAdvertising(inStep, armed) ==
  \/ /\ inStep
     /\ advertising' = TRUE /\ retryArmed' = armed /\ gaveUp' = FALSE
     /\ UNCHANGED faults
  \/ /\ Fails(inStep)
     /\ advertising' = FALSE
     /\ \/ RetryLater(armed)
        \/ retryArmed' = armed /\ gaveUp' = TRUE

OnSync ==
  /\ host = Elsewhere
  /\ ~synced /\ synced' = TRUE
  /\ \/ StartAdvertising(TRUE, retryArmed)
     \* ble_hs_id_infer_auto fails
     \/ Fails(TRUE) /\ gaveUp' = TRUE /\ UNCHANGED <<advertising, retryArmed>>
  /\ UNCHANGED <<itvlVars, peerVars, host, event, profile>>

\* adv_retry_callout_cb; start_advertising looks at the same two flags.
RetryAdvertising ==
  /\ host = Elsewhere
  /\ retryArmed
  /\ IF ~linked /\ ~advertising
     THEN StartAdvertising(synced, FALSE)
     ELSE retryArmed' = FALSE /\ UNCHANGED <<advertising, gaveUp, faults>>
  /\ UNCHANGED <<synced, itvlVars, peerVars, host, event, profile>>

-----------------------------------------------------------------------------
\* The connection, on the host task.

ForgetLink ==
  /\ attMtu' = DefaultMtu
  /\ transportVersion' = V1

\* NimBLE stops advertising when a central connects; stop_advertising, for
\* the case that it has not, comes to the same.
StopAdvertising == advertising' = FALSE

GapConnect ==
  /\ host = Elsewhere
  /\ advertising /\ StopAdvertising
  /\ linked' = TRUE
  /\ ForgetLink
  /\ asked' = "none"
  /\ UNCHANGED <<synced, retryArmed, gaveUp, faults, itvlTarget, itvlUpdatePending, updating,
                 refused, crossed, host, event, profile>>

\* The connection could not be established.
GapConnectFailed ==
  /\ host = Elsewhere
  /\ advertising
  /\ StartAdvertising(TRUE, retryArmed)
  /\ UNCHANGED <<synced, itvlVars, peerVars, host, event, profile>>

\* BLE_GAP_EVENT_DISCONNECT.  app_event_task may be inside a request.
GapDisconnect(inStep) ==
  /\ linked
  /\ linked' = FALSE
  /\ ForgetLink
  /\ itvlTarget' = "none" /\ itvlUpdatePending' = FALSE
  /\ updating' = FALSE
  /\ crossed' = (crossed \/ event # Elsewhere)
  /\ StartAdvertising(inStep, retryArmed)
  /\ UNCHANGED <<asked, refused>>

Disconnected ==
  /\ host = Elsewhere
  /\ GapDisconnect(TRUE)
  /\ UNCHANGED <<synced, host, event, profile>>

\* NimBLE resets itself: it ends the connection or the advertising, calls
\* on_reset, which only logs, and later on_sync.
HostReset ==
  /\ host = Elsewhere
  /\ synced /\ synced' = FALSE
  /\ IF linked
     THEN GapDisconnect(FALSE)
     ELSE /\ advertising' = FALSE
          /\ UNCHANGED <<retryArmed, gaveUp, faults, itvlVars, peerVars>>
  /\ UNCHANGED <<host, event, profile>>

MtuExchanged ==
  /\ host = Elsewhere
  /\ linked /\ attMtu = DefaultMtu
  /\ attMtu' \in Mtus
  /\ UNCHANGED <<linked, transportVersion, advVars, itvlVars, faults, host, event, profile>>

\* ble_control_cb: audio_transport; v2 goes on to ask for a fast interval.
TransportWritten ==
  /\ host = Elsewhere
  /\ linked
  /\ \E v \in {V1, V2} :
       /\ transportVersion' = v
       /\ host' = IF v = V2 THEN InRequest("begin", "fast") ELSE host
  /\ UNCHANGED <<linked, attMtu, advVars, itvlVars, faults, event, profile>>

\* ota_begin asks for a fast interval, ota_abort and ota_send_error for a
\* slow one.
UpdateAsks ==
  /\ host = Elsewhere
  /\ linked
  /\ \E want \in Intervals : host' = InRequest("begin", want)
  /\ UNCHANGED <<peerVars, advVars, itvlVars, faults, event, profile>>

-----------------------------------------------------------------------------
\* What makes app_event_task ask.

\* apply_app_ui_state("ready").
ReadyReceived ==
  /\ event = Elsewhere
  /\ event' = InRequest("begin", IF transportVersion >= V2 THEN "fast" ELSE "slow")
  /\ UNCHANGED <<peerVars, advVars, itvlVars, faults, host, profile>>

\* audio_pipeline_start: configure_transport_profile, whose fallback to v1
\* is the link's too, and unless the codec fails the request.
RecordingStarts ==
  /\ event = Elsewhere
  /\ LET configured == TransportProfile(transportVersion, attMtu)
     IN  /\ transportVersion' = IF transportVersion = V2 THEN configured.version ELSE V1
         /\ \/ profile' = configured /\ event' = InRequest("begin", "fast")
            \/ UNCHANGED <<profile, event>>
  /\ UNCHANGED <<linked, attMtu, advVars, itvlVars, faults, host>>

-----------------------------------------------------------------------------
\* A request: voice_ble_request_fast_interval and _slow_interval.  The task is
\* host or event, and other is the other one.

\* Without a connection the request returns; with one the target is stored.
Begins(task, other) ==
  /\ task.at = "begin"
  /\ IF linked
     THEN /\ itvlTarget' = task.want
          /\ refused' = FALSE
          /\ crossed' = (other.at \in Places)
     ELSE UNCHANGED <<itvlTarget, refused, crossed>>
  /\ UNCHANGED <<itvlUpdatePending, updating, asked>>

AfterBegin(task) == IF linked THEN InRequest("ask", task.want) ELSE Elsewhere

\* ble_gap_update_params: one update at a time; it may fail.
AsksTaken(task) ==
  /\ task.at = "ask"
  /\ linked /\ ~updating
  /\ updating' = TRUE /\ asked' = task.want
  /\ UNCHANGED <<itvlTarget, itvlUpdatePending, refused, crossed>>

AsksAlready(task) ==
  /\ task.at = "ask"
  /\ linked /\ updating
  /\ UNCHANGED itvlVars

AsksRefused(task) ==
  /\ task.at = "ask"
  /\ linked => ~updating
  /\ refused' = TRUE
  /\ UNCHANGED <<itvlTarget, itvlUpdatePending, updating, asked, crossed>>

\* Slip: a request that has to wait is forgotten.
ForgetsWaiting(task) == itvlUpdatePending' = FALSE
\* s_itvl_update_pending, after BLE_HS_EALREADY and after 0.
StoresPending(task) == itvlUpdatePending' = (task.at = "already")

Ends(task) ==
  /\ task.at \in {"taken", "already"}
  /\ StoresPending(task)
  /\ UNCHANGED <<itvlTarget, updating, asked, refused, crossed>>

HostRequest ==
  /\ \/ Begins(host, event)  /\ host' = AfterBegin(host)
     \/ AsksTaken(host)      /\ host' = InRequest("taken", host.want)
     \/ AsksAlready(host)    /\ host' = InRequest("already", host.want)
     \/ AsksRefused(host)    /\ host' = Elsewhere
     \/ Ends(host)           /\ host' = Elsewhere
  /\ UNCHANGED <<peerVars, advVars, faults, event, profile>>

\* The profile is of use to the recording's tasks, in AudioPath.
EventRequest ==
  /\ \/ Begins(event, host)  /\ event' = AfterBegin(event)
     \/ AsksTaken(event)     /\ event' = InRequest("taken", event.want)
     \/ AsksAlready(event)   /\ event' = InRequest("already", event.want)
     \/ AsksRefused(event)   /\ event' = Elsewhere
     \/ Ends(event)          /\ event' = Elsewhere
  /\ profile' = IF event' = Elsewhere THEN NotConfigured ELSE profile
  /\ UNCHANGED <<peerVars, advVars, faults, host>>

\* NimBLE ends the update, whatever the central made of it, ...
UpdateEnds ==
  /\ host = Elsewhere
  /\ updating /\ updating' = FALSE
  /\ host' = Updated
  /\ UNCHANGED <<peerVars, advVars, itvlTarget, itvlUpdatePending, asked, refused, crossed,
                 faults, event, profile>>

\* ... and BLE_GAP_EVENT_CONN_UPDATE asks again if a request had to wait.
ConnUpdated ==
  /\ host = Updated
  /\ IF itvlUpdatePending
     THEN /\ itvlUpdatePending' = FALSE
          /\ host' = IF itvlTarget = "none" THEN Elsewhere ELSE InRequest("begin", itvlTarget)
     ELSE /\ host' = Elsewhere
          /\ UNCHANGED itvlUpdatePending
  /\ crossed' = (crossed \/ event.at = "already")
  /\ UNCHANGED <<itvlTarget, updating, asked, refused, peerVars, advVars, faults, event, profile>>

-----------------------------------------------------------------------------
HostTask ==
  \/ OnSync \/ RetryAdvertising
  \/ GapConnect \/ GapConnectFailed \/ Disconnected \/ HostReset \/ MtuExchanged
  \/ TransportWritten \/ UpdateAsks
  \/ HostRequest \/ UpdateEnds \/ ConnUpdated

AppEventTask == ReadyReceived \/ RecordingStarts \/ EventRequest

BleNext == HostTask \/ AppEventTask

BleSpec == BleInit /\ [][BleNext]_bleVars

(* The host task gets on with what it has begun, the callout comes due, and *)
(* NimBLE synchronizes.  No central has to connect, and no task to ask.     *)
BleFairSpec ==
  /\ BleSpec
  /\ WF_bleVars(HostRequest) /\ WF_bleVars(ConnUpdated)
  /\ WF_bleVars(RetryAdvertising) /\ WF_bleVars(OnSync)

-----------------------------------------------------------------------------
(* The device is always found again after a lost, failed or reset           *)
(* connection, also when advertising does not start at first: it keeps      *)
(* coming back to advertising or to a connection.  The code gives up when   *)
(* one of the calls that prepare the advertising fails, or the address      *)
(* cannot be inferred; nothing then tries again.                            *)
Discoverable == []<>(advertising \/ linked \/ gaveUp)

(* Two tasks ask for intervals while an earlier update is under way, and    *)
(* the last one to ask is heard: once nobody is asking and no update is     *)
(* under way, what NimBLE was last asked for is what was last wanted.       *)
(* Excepted is a request that failed, which nobody repeats, and one that    *)
(* the other task got into: the two statics are not guarded.                *)
LastRequestHeard ==
  /\ linked /\ ~updating
  /\ host = Elsewhere /\ event = Elsewhere
  /\ ~refused /\ ~crossed
  => asked = itvlTarget

\* The bundles a recording can make with its profile: ascending sequence
\* numbers, with a hole wherever its full queue discarded a packet, and
\* packets no longer than the encoder's buffer.
Packet(seq, len) ==
  [seq |-> seq, flags |-> IF seq = 0 THEN {START} ELSE {}, len |-> len]

Bundles(p) ==
  {[i \in 1..Cardinality(S) |->
      Packet(CHOOSE n \in S : Cardinality({m \in S : m < n}) = i - 1, len)] :
     S \in {T \in SUBSET (0..MaxSeq) : Cardinality(T) \in 1..p.bundleSize},
     len \in {1, OpusPacketBytes(p), p.packetBudget}}

HasHole(bundle) == bundle[Len(bundle)].seq # bundle[1].seq + Len(bundle) - 1

\* What the app hears of a bundle: nothing when either side refuses it.
Heard(p, mtu, bundle) ==
  LET audio == EncodedAudio(p.version, 1, bundle[1].seq, {}, bundle)
  IN  IF /\ Encodable(p.version, bundle[1].seq, bundle, AttPayloadCapacity(mtu))
         /\ Parsable(audio)
      THEN BatchFrames(audio) ELSE <<>>

(* A recording's profile suits its link, at each MTU next to one where the  *)
(* bundle size changes: every v2 bundle without a hole fits, and what the   *)
(* encoder accepts the app hears as the packets that were put in, with the  *)
(* same numbers, lengths and start flag, although v2 sends only the first   *)
(* number and one flags byte.  A v1 packet may be too long for a small MTU. *)
ProfileCarries ==
  [][profile' \notin {profile, NotConfigured} =>
       \A bundle \in Bundles(profile') :
         LET heard == Heard(profile', attMtu, bundle)
         IN  \/ heard = bundle /\ ~HasHole(bundle)
             \/ heard = <<>> /\ (HasHole(bundle) \/ profile'.version = V1)]_bleVars

-----------------------------------------------------------------------------
\* An inductive invariant that implies LastRequestHeard.

Mid == {"ask", "taken", "already"}
Undisturbed == ~refused /\ ~crossed

\* A task in the middle of a request is alone there and has set the target.
MidHolds ==
  Undisturbed =>
    /\ ~(host.at \in Mid /\ event.at \in Mid)
    /\ \A task \in {host, event} :
         /\ task.at \in Mid => itvlTarget = task.want
         /\ task.at = "taken" => asked = itvlTarget
         /\ task.at = "already" => updating \/ host = Updated

\* Otherwise the target was asked for, or it waits for the end of an update,
\* or the host task is about to ask.
RestHolds ==
  Undisturbed /\ linked /\ host.at \notin Mid /\ event.at \notin Mid =>
    \/ asked = itvlTarget
    \/ itvlUpdatePending /\ (updating \/ host = Updated)
    \/ host.at = "begin" /\ host.want = itvlTarget

\* A connection begins without a target.
FreshHolds ==
  Undisturbed =>
    /\ linked /\ itvlTarget = "none" => asked = "none"
    /\ ~linked => /\ itvlTarget = "none" /\ ~itvlUpdatePending
                     /\ host.at \notin Mid /\ event.at \notin Mid

\* The device advertises or is connected, and only while NimBLE is in step.
RadioHolds ==
  /\ ~(advertising /\ linked)
  /\ advertising \/ linked => synced

IInv == BleTypeOK /\ RadioHolds /\ MidHolds /\ RestHolds /\ FreshHolds
=============================================================================
