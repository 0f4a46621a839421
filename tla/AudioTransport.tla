--------------------------- MODULE AudioTransport ---------------------------
(***************************************************************************)
(* The framing of one BLE audio notification, in both directions:          *)
(*   - firmware/components/audio_transport/audio_transport.c sizes and     *)
(*     encodes it,                                                         *)
(*   - configure_transport_profile (audio_pipeline.c) picks, when a        *)
(*     recording starts, how many Opus packets share a notification,       *)
(*   - BleProtocol.parseAudioBatch (macOS) takes it apart again.           *)
(* Opus payloads are abstracted to their length in bytes.                  *)
(***************************************************************************)
EXTENDS Integers, Sequences, SequencesExt

CONSTANTS MaxBundle,        \* TX_V2_MAX_BUNDLE
          AckWindowBatches  \* TX_V2_ACK_WINDOW_BATCHES

ASSUME TransportAssumption ==
  /\ MaxBundle \in 2..255            \* the loop counter is a uint8_t
  /\ AckWindowBatches \in Nat \ {0}

V1 == 1
V2 == 2
HeaderSize  == 16
AttOverhead == 3

\* The two flag bits; a flags byte is a subset of them.
START == "start"
END   == "end"

-----------------------------------------------------------------------------
\* Sizes (audio_transport.c).

AttPayloadCapacity(mtu) == IF mtu > AttOverhead THEN mtu - AttOverhead ELSE 0

\* A v2 payload spends one length byte per packet besides the header.
Framing(count) == HeaderSize + count

\* The bytes each of count equal packets may have in one v2 notification.
V2PacketBudget(mtu, count) ==
  IF count = 0 \/ AttPayloadCapacity(mtu) <= Framing(count)
  THEN 0
  ELSE (AttPayloadCapacity(mtu) - Framing(count)) \div count

-----------------------------------------------------------------------------
\* Encoding. A packet is [seq, flags, len].

PayloadLen(version, packets) ==
  FoldSeq(LAMBDA p, sum : p.len + sum,
          IF version = V2 THEN Len(packets) ELSE 0, packets)

ContiguousUnchecked(first, packets) == TRUE     \* slip: the check is left out
Contiguous(first, packets) ==
  \A i \in DOMAIN packets : packets[i].seq = first + i - 1

\* Whether audio_transport_encode returns AUDIO_TRANSPORT_OK; the callers
\* treat every other result alike.
Encodable(version, first, packets, capacity) ==
  /\ capacity >= HeaderSize
  /\ version \in {V1, V2}
  /\ version = V1 => Len(packets) = 1
  /\ Contiguous(first, packets)
  /\ version = V2 => \A i \in DOMAIN packets : packets[i].len <= 255
  /\ PayloadLen(version, packets) <= 65535
  /\ HeaderSize + PayloadLen(version, packets) <= capacity

\* The notification: flags are the union of the envelope's and the packets'.
EncodedAudio(version, session, first, envelope, packets) ==
  [version |-> version, session |-> session, first |-> first,
   flags   |-> envelope \cup UNION {packets[i].flags : i \in DOMAIN packets},
   lens    |-> [i \in DOMAIN packets |-> packets[i].len]]

-----------------------------------------------------------------------------
\* Decoding (BleProtocol.parseAudioBatch).

\* The guards that make the parser return nil for a frame of ours.
Parsable(audio) ==
  audio.version = V2 =>
    /\ audio.lens = <<>> => END \in audio.flags
    /\ \A i \in DOMAIN audio.lens : audio.lens[i] > 0

IsEmptyEnd(audio) ==
  /\ END \in audio.flags
  /\ \A i \in DOMAIN audio.lens : audio.lens[i] = 0

BatchCount(audio) == IF IsEmptyEnd(audio) THEN 0 ELSE Len(audio.lens)

\* AudioBatch.acknowledgedNextSeq
AcknowledgedNextSeq(audio) == audio.first + BatchCount(audio)

\* The frames handed to onAudioFrame: an empty end marker is one frame, the
\* start flag belongs to the first packet and the end flag to the last one.
BatchFrames(audio) ==
  IF audio.lens = <<>>
  THEN << [seq |-> audio.first, flags |-> audio.flags, len |-> 0] >>
  ELSE [i \in DOMAIN audio.lens |->
         [seq   |-> audio.first + i - 1,
          flags |-> {f \in audio.flags : \/ f = START /\ i = 1
                                         \/ f = END /\ i = Len(audio.lens)},
          len   |-> audio.lens[i]]]

-----------------------------------------------------------------------------
\* The profile of one recording (audio_pipeline.c).

FrameMs       == 60
V1Bitrate     == 20000
V2MinBitrate  == 7000
V2MaxBitrate  == 12000
MaxPacketSize == 220

V2Bitrate(mtu, bundle) == ((V2PacketBudget(mtu, bundle) - 1) * 8 * 1000) \div FrameMs

\* The conditions under which the loop does not skip a bundle size.
V2Carries(mtu, bundle) ==
  /\ V2PacketBudget(mtu, bundle) \in 2..255
  /\ V2Bitrate(mtu, bundle) >= V2MinBitrate

V1Profile ==
  [version |-> V1, bundleSize |-> 1, packetBudget |-> MaxPacketSize,
   bitrate |-> V1Bitrate, maxInflight |-> 1]

V2Profile(mtu, bundle) ==
  [version      |-> V2,
   bundleSize   |-> bundle,
   packetBudget |-> V2PacketBudget(mtu, bundle),
   bitrate      |-> IF V2Bitrate(mtu, bundle) < V2MaxBitrate
                    THEN V2Bitrate(mtu, bundle) ELSE V2MaxBitrate,
   maxInflight  |-> bundle * AckWindowBatches]

\* The loop counts down from MaxBundle, so it stops at the largest size.
LoopStopsAt(mtu, bundle) ==
  /\ V2Carries(mtu, bundle)
  /\ \A larger \in 2..MaxBundle : larger > bundle => ~V2Carries(mtu, larger)

TransportProfile(linkVersion, mtu) ==
  IF linkVersion = V2 /\ \E bundle \in 2..MaxBundle : LoopStopsAt(mtu, bundle)
  THEN V2Profile(mtu, CHOOSE bundle \in 2..MaxBundle : LoopStopsAt(mtu, bundle))
  ELSE V1Profile

\* libopus without VBR: every packet of a session has the same length, the
\* bytes the bitrate gives to a frame or the buffer's size if that is less.
OpusPacketBytes(profile) ==
  LET bytes == (profile.bitrate * FrameMs) \div 8000
  IN  IF bytes < profile.packetBudget THEN bytes ELSE profile.packetBudget
=============================================================================
