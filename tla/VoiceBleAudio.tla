--------------------------- MODULE VoiceBleAudio ---------------------------
(***************************************************************************)
(* The audio side of firmware/components/voice_ble/voice_ble.c: what the   *)
(* NimBLE host task keeps about the connection, the negotiated transport   *)
(* and the acknowledgement window, and the questions the transmit task     *)
(* asks of it.  The radio is one ordered channel per direction; both are   *)
(* emptied by a disconnection.                                             *)
(*                                                                         *)
(* The app unsubscribes only by disconnecting, so a subscription is only   *)
(* ever gained; and the MTU is exchanged once, and stays below what        *)
(* CONFIG_BT_NIMBLE_ATT_PREFERRED_MTU allows, so a notification that fits  *)
(* the MTU also fits the frame buffer.                                     *)
(***************************************************************************)
EXTENDS AudioTransport

CONSTANT Mtus  \* the ATT MTUs an exchange may end with

DefaultMtu == 23

ASSUME LinkAssumption == Mtus \subseteq Nat

VARIABLES
  connected, audioSubscribed, stateSubscribed,   \* s_connected, ...
  attMtu, transportVersion,                      \* s_att_mtu, s_audio_transport_version
  audioSessionId, ackedSeq,                      \* s_audio_session_id, s_audio_acked_seq
  ackInHand,  \* {[next, of]} while next_seq has been compared, with the window
              \* of recording "of", and not yet stored
  crossed,    \* an ACK that was compared with an earlier window was stored in
              \* this recording's; a history
  air,        \* audio notifications NimBLE accepted and the app has not seen
  control     \* writes to control_rx that the device has not seen

linkVars == <<connected, audioSubscribed, stateSubscribed, attMtu, transportVersion>>
windowVars == <<audioSessionId, ackedSeq, ackInHand, crossed>>
bleVars == <<linkVars, windowVars, air, control>>

VersionWrite(v)    == [type |-> "audio_transport", version |-> v]
AckWrite(s, next)  == [type |-> "audio_ack", session |-> s, next |-> next]

LinkInit ==
  /\ connected = FALSE
  /\ audioSubscribed = FALSE
  /\ stateSubscribed = FALSE
  /\ attMtu = DefaultMtu
  /\ transportVersion = V1
  /\ audioSessionId = 0
  /\ ackedSeq = 0
  /\ ackInHand = {}
  /\ crossed = FALSE
  /\ air = <<>>
  /\ control = <<>>

-----------------------------------------------------------------------------
\* What the transmit task asks.

IsReady == connected /\ audioSubscribed /\ stateSubscribed

\* voice_ble_wait_for_audio_window returns ESP_OK.  Otherwise it returns an
\* error: at once without a ready link or with another session, and after
\* its timeout when the window stays closed.
WindowOpen(session, next, maxInflight) ==
  \/ transportVersion < V2
  \/ /\ IsReady
     /\ session = audioSessionId
     /\ ackedSeq >= next \/ next - ackedSeq <= maxInflight

\* voice_ble_send_audio_packets gets as far as handing NimBLE a frame.
CanNotify(first, packets) ==
  /\ IsReady
  /\ Encodable(transportVersion, first, packets, AttPayloadCapacity(attMtu))

Notify(session, first, packets) ==
  air' = Append(air, EncodedAudio(transportVersion, session, first, {}, packets))

\* The three stores of voice_ble_set_audio_transport_version.
SetTransportVersion(v) ==
  /\ transportVersion' = v
  /\ audioSessionId' = 0
  /\ ackedSeq' = 0

-----------------------------------------------------------------------------
\* The NimBLE host task.  Its callbacks run one after the other.

ForgetLink ==
  /\ audioSubscribed' = FALSE
  /\ stateSubscribed' = FALSE
  /\ attMtu' = DefaultMtu
  /\ SetTransportVersion(V1)

GapConnect ==
  /\ ~connected
  /\ ackInHand = {}
  /\ connected' = TRUE
  /\ ForgetLink
  /\ UNCHANGED <<ackInHand, crossed, air, control>>

GapDisconnect ==
  /\ connected
  /\ ackInHand = {}
  /\ connected' = FALSE
  /\ ForgetLink
  /\ air' = <<>>
  /\ control' = <<>>
  /\ UNCHANGED <<ackInHand, crossed>>

SubscribeAudio ==
  /\ connected /\ ~audioSubscribed
  /\ ackInHand = {}
  /\ audioSubscribed' = TRUE
  /\ UNCHANGED <<connected, stateSubscribed, attMtu, transportVersion, windowVars, air, control>>

SubscribeState ==
  /\ connected /\ ~stateSubscribed
  /\ ackInHand = {}
  /\ stateSubscribed' = TRUE
  /\ UNCHANGED <<connected, audioSubscribed, attMtu, transportVersion, windowVars, air, control>>

MtuExchanged ==
  /\ connected /\ attMtu = DefaultMtu
  /\ ackInHand = {}
  /\ attMtu' \in Mtus
  /\ UNCHANGED <<connected, audioSubscribed, stateSubscribed, transportVersion, windowVars, air, control>>

NextWrite(type) ==
  /\ ackInHand = {}
  /\ control # <<>>
  /\ Head(control).type = type
  /\ control' = Tail(control)

ControlVersion ==
  /\ NextWrite("audio_transport")
  /\ SetTransportVersion(Head(control).version)
  /\ UNCHANGED <<connected, audioSubscribed, stateSubscribed, attMtu, ackInHand, crossed, air>>

\* Slip: the session of the ACK is not compared.
AckAcceptedOfAnySession(ack) == ack.next >= ackedSeq

\* The comparison in control_access_cb.
AckAccepted(ack) == ack.session = audioSessionId /\ ack.next >= ackedSeq

ControlAckRejected ==
  /\ NextWrite("audio_ack")
  /\ ~AckAccepted(Head(control))
  /\ UNCHANGED <<linkVars, windowVars, air>>

ControlAck ==
  /\ NextWrite("audio_ack")
  /\ AckAccepted(Head(control))
  /\ ackInHand' = {[next |-> Head(control).next, of |-> audioSessionId]}
  /\ UNCHANGED <<linkVars, audioSessionId, ackedSeq, crossed, air>>

\* The store that follows it; other tasks may have run in between.
ControlAckStored ==
  /\ \E ack \in ackInHand :
       /\ ackedSeq' = ack.next
       /\ crossed' = (crossed \/ ack.of # audioSessionId)
  /\ ackInHand' = {}
  /\ UNCHANGED <<linkVars, audioSessionId, air, control>>

HostTask ==
  \/ SubscribeAudio
  \/ SubscribeState
  \/ MtuExchanged
  \/ ControlVersion
  \/ ControlAckRejected
  \/ ControlAck
  \/ ControlAckStored
=============================================================================
