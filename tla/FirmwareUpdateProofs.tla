------------------------ MODULE FirmwareUpdateProofs ------------------------
(***************************************************************************)
(* Proofs about FirmwareUpdate, for every number of updates, size of the   *)
(* image, progress step, window and number of faults.                      *)
(*                                                                         *)
(* UInv is the inductive invariant.  The device's half, about the spare    *)
(* partition and its handle, needs only that the writes in flight name an  *)
(* update; the client's half, about what the user is told, needs only what *)
(* the events in flight say.                                               *)
(***************************************************************************)
EXTENDS FirmwareUpdate, TLAPS

\* While a transfer is active the spare partition holds the chunks of it that
\* are counted as written, in order.
SlotHolds ==
  ota.active =>
    /\ ota.transfer \in Updates /\ ota.size = ImageChunks
    /\ Len(slot) = ota.written
    /\ \A i \in 1..ota.written : slot[i] = [of |-> ota.transfer, offset |-> i - 1]

\* A sender that writes knows for which update.
TargetKnown ==
  \A u \in Updates :
    sender[u] \in {"begin", "beginning", "data", "ending"} => target[u] \in Updates

\* An event on its way that says done is of an image that was made to boot.
DoneInstalled ==
  \A i \in 1..Len(toApp) : toApp[i].event = "done" => toApp[i].transfer \in installed

DeviceInv == DeviceOK /\ HandleOwned /\ SlotHolds /\ BootsSentImage
LinkInv == LinkOK /\ DoneInstalled
ClientInv == SenderOK /\ SessionOK /\ TargetKnown /\ SuccessIsInstalled
UInv == DeviceInv /\ LinkInv /\ ClientInv /\ HistoryOK

-----------------------------------------------------------------------------
LEMMA Numbers ==
  /\ MaxUpdates \in Nat \ {0} /\ ImageChunks \in Nat \ {0} /\ MaxFaults \in Nat
  /\ ProgressStep \in Nat \ {0} /\ InFlight \in Nat
BY UpdateAssumption

LEMMA NoneIsNoUpdate == None \notin Updates /\ Updates \subseteq Nat
BY Numbers DEF None, Updates

LEMMA QueueTail ==
  ASSUME NEW S, NEW s \in Seq(S), s # <<>>
  PROVE  /\ Head(s) \in S /\ Head(s) = s[1] /\ 1 \in 1..Len(s)
         /\ Tail(s) \in Seq(S)
         /\ \A i \in 1..Len(Tail(s)) : i + 1 \in 1..Len(s) /\ Tail(s)[i] = s[i + 1]
OBVIOUS

LEMMA QueueAppend ==
  ASSUME NEW S, NEW s \in Seq(S), NEW e \in S
  PROVE  /\ Append(s, e) \in Seq(S)
         /\ Len(s) \in Nat /\ Len(Append(s, e)) = Len(s) + 1
         /\ \A i \in 1..Len(Append(s, e)) :
              \/ i \in 1..Len(s) /\ Append(s, e)[i] = s[i]
              \/ i = Len(s) + 1 /\ Append(s, e)[i] = e
OBVIOUS

\* An event is sent: the queue to the client keeps its type, and what it says
\* of done images holds if the event says nothing or the truth.
LEMMA SendKeepsLink ==
  ASSUME LinkInv, NEW event \in OtaEvents, Sends(event), installed \subseteq installed',
         event.event = "done" => event.transfer \in installed'
  PROVE  toApp' \in Seq(OtaEvents) /\ DoneInstalled'
<1>1. toApp' = Append(toApp, event) /\ toApp \in Seq(OtaEvents)
  BY DEF Sends, LinkInv, LinkOK
<1>2. ASSUME NEW i \in 1..Len(toApp'), toApp'[i].event = "done"
      PROVE  toApp'[i].transfer \in installed'
  <2>1. CASE i \in 1..Len(toApp) /\ toApp'[i] = toApp[i]
    BY <1>2, <2>1 DEF LinkInv, DoneInstalled
  <2>2. CASE toApp'[i] = event
    BY <1>2, <2>2
  <2> QED
    BY <1>1, <2>1, <2>2, QueueAppend
<1>3. toApp' \in Seq(OtaEvents)
  BY <1>1, QueueAppend
<1> QED
  BY <1>2, <1>3 DEF DoneInstalled

LEMMA NotifyKeepsLink ==
  ASSUME LinkInv, HistoryOK, NEW event \in OtaEvents, Notifies(event),
         installed \subseteq installed',
         event.event = "done" => event.transfer \in installed'
  PROVE  /\ toApp' \in Seq(OtaEvents) /\ DoneInstalled'
         /\ faults' \in 0..MaxFaults /\ lost' \in BOOLEAN
<1>1. CASE Works /\ Sends(event)
  BY <1>1, SendKeepsLink DEF Works, Sends, HistoryOK
<1>2. CASE Fails /\ lost' = TRUE /\ UNCHANGED toApp
  <2>1. faults' \in 0..MaxFaults
    BY <1>2, Numbers DEF Fails, HistoryOK
  <2> QED
    BY <1>2, <2>1 DEF LinkInv, LinkOK, DoneInstalled
<1> QED
  BY <1>1, <1>2 DEF Notifies

LEMMA FailsKeeps == HistoryOK /\ Fails => faults' \in 0..MaxFaults
BY Numbers DEF HistoryOK, Fails

LEMMA EventTypes ==
  /\ Error \in OtaEvents /\ Error.event # "done"
  /\ \A u \in Updates : /\ Event("done", u, 0) \in OtaEvents
                        /\ Event("done", u, 0).event = "done" /\ Event("done", u, 0).transfer = u
  /\ \A u \in Transfers, n \in 0..ImageChunks :
       Event("progress", u, n) \in OtaEvents /\ Event("progress", u, n).event # "done"
BY Numbers DEF Error, Event, OtaEvents, Transfers, None

-----------------------------------------------------------------------------
\* The device.

LEMMA ReceivedFacts ==
  ASSUME LinkInv, NEW kind, Receives(kind)
  PROVE  /\ Write \in WriteRequests /\ Write.transfer \in Updates
         /\ toDevice' \in Seq(WriteRequests) /\ connected' \in BOOLEAN
<1>1. toDevice \in Seq(WriteRequests) /\ toDevice # <<>> /\ toDevice' = Tail(toDevice)
  BY DEF Receives, LinkInv, LinkOK
<1>2. Write \in WriteRequests /\ toDevice' \in Seq(WriteRequests)
  BY <1>1, QueueTail DEF Write
<1>3. connected' \in BOOLEAN
  BY DEF Receives, LinkInv, LinkOK
<1> QED
  BY <1>2, <1>3 DEF WriteRequests

\* What a step of the device leaves to the client.
LEMMA ClientKept ==
  ASSUME ClientInv, HistoryOK, LinkInv, NEW kind, Receives(kind),
         UNCHANGED reply \/ Answer(TRUE) \/ Answer(FALSE),
         installed \subseteq installed', installed' \subseteq Updates,
         faults' \in 0..MaxFaults, lost' \in BOOLEAN
  PROVE  ClientInv' /\ HistoryOK'
<1>1. Write \in WriteRequests
  BY ReceivedFacts
<1>2. reply' \in [Updates -> {"none", "success", "refused"}]
  BY <1>1 DEF ClientInv, SenderOK, Answer, WriteRequests, Transfers
<1>3. SenderOK' /\ SessionOK'
  BY <1>2 DEF ClientInv, SenderOK, SessionOK, Receives
<1>4. TargetKnown' /\ SuccessIsInstalled'
  BY DEF ClientInv, TargetKnown, SuccessIsInstalled, Receives
<1>5. HistoryOK'
  BY DEF HistoryOK, Receives
<1> QED
  BY <1>3, <1>4, <1>5 DEF ClientInv

LEMMA NoMemoryKeeps ==
  ASSUME UInv, NoMemory
  PROVE  UInv'
<1> PICK kind \in {"begin", "data", "end", "abort"} : Receives(kind)
  BY DEF NoMemory
<1>1. Sends(Error) /\ Answer(FALSE) /\ Fails /\ UNCHANGED <<deviceVars, installed, strayed>>
  BY DEF NoMemory
<1>2. faults' \in 0..MaxFaults /\ lost' \in BOOLEAN /\ installed' \subseteq Updates
  BY <1>1, FailsKeeps DEF UInv, HistoryOK, Sends
<1>3. LinkInv'
  BY <1>1, SendKeepsLink, EventTypes, ReceivedFacts DEF UInv, LinkInv, LinkOK
<1>4. ClientInv' /\ HistoryOK'
  BY <1>1, <1>2, ClientKept DEF UInv
<1>5. DeviceInv'
  BY <1>1 DEF UInv, DeviceInv, DeviceOK, HandleOwned, Open, SlotHolds, BootsSentImage, deviceVars
<1> QED
  BY <1>3, <1>4, <1>5 DEF UInv

LEMMA OtaBeginKeeps ==
  ASSUME UInv, OtaBegin
  PROVE  UInv'
<1> Receives("begin")
  BY DEF OtaBegin
<1>1. Write.transfer \in Updates /\ toDevice' \in Seq(WriteRequests) /\ connected' \in BOOLEAN
  BY ReceivedFacts DEF UInv
<1>2. UNCHANGED <<boot, device, installed, strayed>>
  BY DEF OtaBegin
<1>3. BootsSentImage'
  BY <1>2 DEF UInv, DeviceInv, BootsSentImage
<1>4. Open \in Nat /\ handles = Open + strayed /\ strayed \in Nat
  BY DEF UInv, DeviceInv, DeviceOK, HandleOwned, Open
<1>5. CASE /\ Works /\ Answer(TRUE)
           /\ UNCHANGED <<toApp, lost>>
           /\ ota' = [active |-> TRUE, transfer |-> Write.transfer, size |-> ImageChunks,
                      written |-> 0, next |-> ProgressStep]
           /\ handles' = handles - Open + 1
           /\ slot' = <<>>
  <2>1. LinkInv'
    BY <1>1, <1>2, <1>5 DEF UInv, LinkInv, LinkOK, DoneInstalled
  <2>2. ClientInv' /\ HistoryOK'
    BY <1>2, <1>5, ClientKept DEF UInv, HistoryOK, Works
  <2>3. HandleOwned'
    BY <1>2, <1>4, <1>5 DEF HandleOwned, Open
  <2>4. slot' \in Seq(Chunk) /\ Len(slot') = 0
    BY <1>5
  <2>5. DeviceOK'
    BY <1>1, <1>2, <1>4, <1>5, <2>4, Numbers DEF UInv, DeviceInv, DeviceOK, Transfers
  <2>6. SlotHolds'
    BY <1>1, <1>5, <2>4 DEF SlotHolds
  <2> QED
    BY <1>3, <2>1, <2>2, <2>3, <2>5, <2>6 DEF UInv, DeviceInv
<1>6. CASE /\ Fails /\ Sends(Error) /\ Answer(FALSE)
           /\ ota' = Cleared
           /\ handles' = handles - Open
           /\ UNCHANGED slot
  <2>1. LinkInv'
    BY <1>1, <1>2, <1>6, SendKeepsLink, EventTypes DEF UInv, LinkInv, LinkOK
  <2>2. ClientInv' /\ HistoryOK'
    BY <1>2, <1>6, ClientKept, FailsKeeps DEF UInv, HistoryOK, Sends
  <2>3. HandleOwned' /\ SlotHolds'
    BY <1>2, <1>4, <1>6 DEF HandleOwned, SlotHolds, Open, Cleared
  <2>4. DeviceOK'
    BY <1>2, <1>4, <1>6, Numbers DEF UInv, DeviceInv, DeviceOK, Cleared, Transfers
  <2> QED
    BY <1>3, <2>1, <2>2, <2>3, <2>4 DEF UInv, DeviceInv
<1> QED
  BY <1>5, <1>6 DEF OtaBegin

\* A chunk at the expected offset lengthens what the slot holds of the transfer.
LEMMA ChunkHolds ==
  ASSUME DeviceInv, NEW write \in WriteRequests,
         Active(write.transfer), OffsetExpected(write.offset),
         slot' = Append(slot, [of |-> write.transfer, offset |-> write.offset]),
         ota'.active = ota.active, ota'.transfer = ota.transfer, ota'.size = ota.size,
         ota'.written = ota.written + 1
  PROVE  SlotHolds' /\ slot' \in Seq(Chunk) /\ Len(slot') <= ImageChunks
<1> DEFINE chunk == [of |-> write.transfer, offset |-> write.offset]
<1>1. chunk \in Chunk
  BY DEF Chunk, WriteRequests
<1>2. slot \in Seq(Chunk) /\ ota.written \in 0..ImageChunks
  BY DEF DeviceInv, DeviceOK
<1>3. /\ ota.active /\ ota.transfer \in Updates /\ ota.size = ImageChunks
      /\ Len(slot) = ota.written
      /\ \A i \in 1..ota.written : slot[i] = [of |-> ota.transfer, offset |-> i - 1]
      /\ ota.written < ImageChunks
      /\ chunk = [of |-> ota.transfer, offset |-> ota.written]
  BY DEF DeviceInv, SlotHolds, Active, OffsetExpected
<1>4. slot' \in Seq(Chunk) /\ Len(slot') = ota.written + 1
  BY <1>1, <1>2, <1>3, QueueAppend
<1>5. ASSUME NEW i \in 1..(ota.written + 1)
      PROVE  slot'[i] = [of |-> ota.transfer, offset |-> i - 1]
  <2>1. CASE i \in 1..Len(slot) /\ slot'[i] = slot[i]
    BY <1>3, <2>1
  <2>2. CASE i = Len(slot) + 1 /\ slot'[i] = chunk
    BY <1>2, <1>3, <2>2
  <2> QED
    BY <1>1, <1>2, <1>4, <1>5, <2>1, <2>2, QueueAppend
<1> HIDE DEF chunk
<1>6. Len(slot') <= ImageChunks
  BY <1>2, <1>3, <1>4, Numbers
<1> QED
  BY <1>3, <1>4, <1>5, <1>6 DEF SlotHolds

LEMMA OtaWriteDataKeeps ==
  ASSUME UInv, OtaWriteData
  PROVE  UInv'
<1> Receives("data")
  BY DEF OtaWriteData
<1>1. Write \in WriteRequests /\ toDevice' \in Seq(WriteRequests) /\ connected' \in BOOLEAN
  BY ReceivedFacts DEF UInv
<1>2. UNCHANGED <<handles, boot, device, reply, installed, strayed>>
  BY DEF OtaWriteData
<1>3. BootsSentImage'
  BY <1>2 DEF UInv, DeviceInv, BootsSentImage
<1> DEFINE Linked == /\ toApp' \in Seq(OtaEvents) /\ DoneInstalled'
                     /\ faults' \in 0..MaxFaults /\ lost' \in BOOLEAN
<1> DEFINE Stored == DeviceOK' /\ HandleOwned' /\ SlotHolds'
<1>4. ASSUME /\ Notifies(Error)
             /\ UNCHANGED <<ota, slot>>
      PROVE  Linked /\ Stored
  <2>1. Linked
    BY <1>2, <1>4, NotifyKeepsLink, EventTypes DEF UInv
  <2>2. Stored
    BY <1>2, <1>4 DEF UInv, DeviceInv, DeviceOK, HandleOwned, SlotHolds, Open
  <2> QED
    BY <2>1, <2>2
<1>5. ASSUME /\ Fails /\ Sends(Error)
             /\ UNCHANGED <<ota, slot>>
      PROVE  Linked /\ Stored
  <2>1. Linked
    BY <1>2, <1>5, SendKeepsLink, EventTypes, FailsKeeps DEF UInv, HistoryOK, Sends
  <2>2. Stored
    BY <1>2, <1>5 DEF UInv, DeviceInv, DeviceOK, HandleOwned, SlotHolds, Open
  <2> QED
    BY <2>1, <2>2
<1>6. ASSUME /\ Active(Write.transfer) /\ OffsetExpected(Write.offset)
             /\ LET written == ota.written + 1
                IN  /\ ota' = [ota EXCEPT !.written = written,
                                 !.next = IF written >= @ THEN @ + ProgressStep ELSE @]
                    /\ IF ProgressDue(written)
                       THEN Notifies(Event("progress", ota.transfer, written))
                       ELSE Works /\ UNCHANGED <<toApp, lost>>
             /\ slot' = Append(slot, [of |-> Write.transfer, offset |-> Write.offset])
      PROVE  Linked /\ Stored
  <2>1. /\ ota.written \in 0..(ImageChunks - 1) /\ ota.next \in 0..(ImageChunks + ProgressStep)
        /\ ota.transfer \in Transfers
    BY <1>6, Numbers DEF UInv, DeviceInv, DeviceOK, OffsetExpected, Active, SlotHolds
  <2>2. Linked
    <3>1. CASE Notifies(Event("progress", ota.transfer, ota.written + 1))
      <4>1. ota.written + 1 \in 0..ImageChunks
        BY <2>1, Numbers
      <4> QED
        BY <1>2, <2>1, <3>1, <4>1, NotifyKeepsLink, EventTypes DEF UInv
    <3>2. CASE Works /\ UNCHANGED <<toApp, lost>>
      BY <1>2, <3>2 DEF UInv, LinkInv, LinkOK, HistoryOK, DoneInstalled, Works
    <3> QED
      BY <1>6, <3>1, <3>2
  <2>3. /\ ota'.active = ota.active /\ ota'.transfer = ota.transfer /\ ota'.size = ota.size
        /\ ota'.written = ota.written + 1
        /\ ota'.next = IF ota.written + 1 >= ota.next THEN ota.next + ProgressStep ELSE ota.next
        /\ ota' = [active |-> ota.active, transfer |-> ota.transfer, size |-> ota.size,
                   written |-> ota'.written, next |-> ota'.next]
    BY <1>6 DEF UInv, DeviceInv, DeviceOK
  <2>4. SlotHolds' /\ slot' \in Seq(Chunk) /\ Len(slot') <= ImageChunks
    BY <1>1, <1>6, <2>3, ChunkHolds DEF UInv
  <2>5. HandleOwned'
    BY <1>2, <2>3 DEF UInv, DeviceInv, HandleOwned, Open
  <2>6. ota'.written \in 0..ImageChunks /\ ota'.next \in 0..(ImageChunks + ProgressStep)
    BY <2>1, <2>3, Numbers
  <2>7. DeviceOK'
    BY <1>2, <2>3, <2>4, <2>6 DEF UInv, DeviceInv, DeviceOK
  <2> QED
    BY <2>2, <2>4, <2>5, <2>7
<1>7. Linked /\ Stored
  BY <1>4, <1>5, <1>6 DEF OtaWriteData
<1>8. ClientInv' /\ HistoryOK'
  BY <1>2, <1>7, ClientKept DEF UInv, HistoryOK
<1> QED
  BY <1>1, <1>3, <1>7, <1>8 DEF UInv, DeviceInv, LinkInv, LinkOK

\* What the slot holds of a complete transfer is its image.
LEMMA CompleteIsImage ==
  ASSUME DeviceInv, NEW transfer, Endable(transfer)
  PROVE  transfer \in Updates /\ slot = Image(transfer)
<1>1. /\ slot \in Seq(Chunk) /\ Len(slot) = ImageChunks
      /\ transfer \in Updates
      /\ \A i \in 1..ImageChunks : slot[i] = [of |-> transfer, offset |-> i - 1]
  BY DEF DeviceInv, DeviceOK, SlotHolds, Endable, Active
<1>2. slot = [i \in 1..ImageChunks |-> slot[i]]
  BY <1>1
<1> QED
  BY <1>1, <1>2 DEF Image

LEMMA OtaFinishKeeps ==
  ASSUME UInv, OtaFinish
  PROVE  UInv'
<1> Receives("end")
  BY DEF OtaFinish
<1>1. Write.transfer \in Updates /\ toDevice' \in Seq(WriteRequests) /\ connected' \in BOOLEAN
  BY ReceivedFacts DEF UInv
<1>2. CASE /\ ~Endable(Write.transfer)
           /\ Notifies(Error) /\ Answer(FALSE)
           /\ UNCHANGED <<deviceVars, installed, strayed>>
  <2>1. /\ toApp' \in Seq(OtaEvents) /\ DoneInstalled'
        /\ faults' \in 0..MaxFaults /\ lost' \in BOOLEAN
    BY <1>2, NotifyKeepsLink, EventTypes DEF UInv
  <2>2. DeviceInv'
    BY <1>2 DEF UInv, DeviceInv, DeviceOK, HandleOwned, Open, SlotHolds, BootsSentImage, deviceVars
  <2>3. ClientInv' /\ HistoryOK'
    BY <1>2, <2>1, ClientKept DEF UInv, HistoryOK
  <2> QED
    BY <1>1, <2>1, <2>2, <2>3 DEF UInv, LinkInv, LinkOK
<1>3. ASSUME Endable(Write.transfer), ota' = Cleared, handles' = handles - 1,
             UNCHANGED <<slot, strayed>>, device' \in {"running", "rebooting"},
             boot' = boot \/ boot' = slot
      PROVE  DeviceInv'
  <2>1. HandleOwned' /\ SlotHolds'
    BY <1>3 DEF UInv, DeviceInv, DeviceOK, HandleOwned, SlotHolds, Open, Cleared, Endable, Active
  <2>2. handles' \in Nat
    BY <1>3 DEF UInv, DeviceInv, DeviceOK, HandleOwned, Open, Endable, Active
  <2>3. DeviceOK'
    BY <1>3, <2>2, Numbers DEF UInv, DeviceInv, DeviceOK, Cleared, Transfers
  <2>4. BootsSentImage'
    <3>1. CASE boot' = boot
      BY <3>1 DEF UInv, DeviceInv, BootsSentImage
    <3>2. CASE boot' = slot
      <4>1. boot' = Image(Write.transfer) /\ Write.transfer \in Updates
        BY <1>3, <3>2, CompleteIsImage DEF UInv
      <4> QED
        BY <4>1 DEF BootsSentImage, Image
    <3> QED
      BY <1>3, <3>1, <3>2
  <2> QED
    BY <2>1, <2>3, <2>4 DEF DeviceInv
<1>4. CASE /\ Endable(Write.transfer)
           /\ Fails /\ Sends(Error) /\ Answer(FALSE)
           /\ ota' = Cleared
           /\ handles' = handles - 1
           /\ UNCHANGED <<slot, boot, device, installed, strayed>>
  <2>1. /\ toApp' \in Seq(OtaEvents) /\ DoneInstalled'
        /\ faults' \in 0..MaxFaults /\ lost' \in BOOLEAN
    BY <1>4, SendKeepsLink, EventTypes, FailsKeeps DEF UInv, HistoryOK, Sends
  <2>2. device' \in {"running", "rebooting"}
    BY <1>4 DEF UInv, DeviceInv, DeviceOK
  <2>3. DeviceInv'
    BY <1>3, <1>4, <2>2
  <2>4. ClientInv' /\ HistoryOK'
    BY <1>4, <2>1, ClientKept DEF UInv, HistoryOK
  <2> QED
    BY <1>1, <2>1, <2>3, <2>4 DEF UInv, LinkInv, LinkOK
<1>5. CASE /\ Endable(Write.transfer)
           /\ Notifies(Event("done", Write.transfer, 0))
           /\ ota' = Cleared
           /\ handles' = handles - 1
           /\ boot' = slot
           /\ device' = "rebooting"
           /\ installed' = installed \cup {Write.transfer}
           /\ UNCHANGED <<slot, reply, strayed>>
  <2>1. /\ toApp' \in Seq(OtaEvents) /\ DoneInstalled'
        /\ faults' \in 0..MaxFaults /\ lost' \in BOOLEAN
    BY <1>1, <1>5, NotifyKeepsLink, EventTypes DEF UInv
  <2>2. DeviceInv'
    BY <1>3, <1>5
  <2>3. ClientInv' /\ HistoryOK'
    BY <1>1, <1>5, <2>1, ClientKept DEF UInv, HistoryOK
  <2> QED
    BY <1>1, <2>1, <2>2, <2>3 DEF UInv, LinkInv, LinkOK
<1> QED
  BY <1>2, <1>4, <1>5 DEF OtaFinish

LEMMA OtaAbortKeeps ==
  ASSUME UInv, OtaAbort
  PROVE  UInv'
<1> Receives("abort")
  BY DEF OtaAbort
<1>1. toDevice' \in Seq(WriteRequests) /\ connected' \in BOOLEAN
  BY ReceivedFacts DEF UInv
<1>2. LinkInv'
  BY <1>1 DEF OtaAbort, UInv, LinkInv, LinkOK, DoneInstalled
<1>3. ClientInv' /\ HistoryOK'
  BY ClientKept DEF OtaAbort, UInv, HistoryOK, Works
<1>4. HandleOwned' /\ handles' \in Nat /\ strayed' \in Nat
  BY DEF OtaAbort, UInv, DeviceInv, DeviceOK, HandleOwned, AbortedHandles, Active, Open, Cleared
<1>5. DeviceOK'
  BY <1>4, Numbers DEF OtaAbort, UInv, DeviceInv, DeviceOK, Cleared, Transfers
<1>6. SlotHolds' /\ BootsSentImage'
  BY DEF OtaAbort, UInv, DeviceInv, SlotHolds, BootsSentImage, Cleared
<1> QED
  BY <1>2, <1>3, <1>4, <1>5, <1>6 DEF UInv, DeviceInv

\* The link is lost, with what is on its way.
LEMMA LostLink ==
  ASSUME LinkInv, LinkLost, UNCHANGED installed
  PROVE  LinkInv'
<1> <<>> \in Seq(WriteRequests) /\ <<>> \in Seq(OtaEvents)
  OBVIOUS
<1>1. LinkOK'
  <2>1. connected' \in BOOLEAN /\ toDevice' \in Seq(WriteRequests)
    BY DEF LinkLost
  <2>2. toApp' = <<>> \/ toApp' = toApp
    BY DEF LinkLost
  <2> QED
    BY <2>1, <2>2 DEF LinkInv, LinkOK
<1>2. CASE toApp' = <<>>
  BY <1>1, <1>2 DEF LinkInv, DoneInstalled
<1>3. CASE toApp' = toApp
  BY <1>1, <1>3 DEF LinkInv, DoneInstalled
<1> QED
  BY <1>2, <1>3 DEF LinkLost

LEMMA LostTransfer ==
  ASSUME DeviceInv, LinkLost, UNCHANGED <<slot, boot>>, device' \in {"running", "rebooting"},
         \/ handles' = handles - Open /\ strayed' = strayed
         \/ handles' = 0 /\ strayed' = 0
  PROVE  DeviceInv'
<1>1. HandleOwned' /\ handles' \in Nat /\ strayed' \in Nat
  BY DEF LinkLost, DeviceInv, DeviceOK, HandleOwned, Open, Cleared
<1>2. DeviceOK'
  BY <1>1, Numbers DEF LinkLost, DeviceInv, DeviceOK, Cleared, Transfers
<1>3. SlotHolds' /\ BootsSentImage'
  BY DEF LinkLost, DeviceInv, SlotHolds, BootsSentImage, Cleared
<1> QED
  BY <1>1, <1>2, <1>3 DEF DeviceInv

LEMMA ClientUnchanged ==
  ASSUME ClientInv, UNCHANGED <<clientVars, installed>>
  PROVE  ClientInv'
BY DEF ClientInv, SenderOK, SessionOK, TargetKnown, SuccessIsInstalled, clientVars, senderVars

LEMMA LinkDropsKeeps ==
  ASSUME UInv, LinkDrops
  PROVE  UInv'
<1>1. LinkInv' /\ DeviceInv'
  BY LostLink, LostTransfer DEF UInv, DeviceInv, DeviceOK, LinkDrops, HandleFreedAtDrop, historyVars
<1>2. ClientInv' /\ HistoryOK'
  BY ClientUnchanged, FailsKeeps DEF UInv, LinkDrops, HistoryOK, historyVars
<1> QED
  BY <1>1, <1>2 DEF UInv

LEMMA RestartKeeps ==
  ASSUME UInv, Restart
  PROVE  UInv'
<1>1. LinkInv' /\ DeviceInv'
  BY LostLink, LostTransfer DEF UInv, Restart
<1>2. ClientInv' /\ HistoryOK'
  BY ClientUnchanged DEF UInv, Restart, HistoryOK
<1> QED
  BY <1>1, <1>2 DEF UInv

LEMMA DeviceStepKeeps == UInv /\ DeviceStep => UInv'
BY NoMemoryKeeps, OtaBeginKeeps, OtaWriteDataKeeps, OtaFinishKeeps, OtaAbortKeeps, RestartKeeps
   DEF DeviceStep

-----------------------------------------------------------------------------
\* The client.

LEMMA DeviceUnchanged ==
  ASSUME DeviceInv, UNCHANGED <<deviceVars, strayed>>
  PROVE  DeviceInv'
BY DEF DeviceInv, DeviceOK, HandleOwned, Open, SlotHolds, BootsSentImage, deviceVars

LEMMA LinkUnchanged ==
  ASSUME LinkInv, UNCHANGED <<linkVars, installed>>
  PROVE  LinkInv'
BY DEF LinkInv, LinkOK, DoneInstalled, linkVars

LEMMA HistoryUnchanged ==
  ASSUME HistoryOK, UNCHANGED faults \/ Fails, UNCHANGED historyVars
  PROVE  HistoryOK'
BY FailsKeeps DEF HistoryOK, historyVars

\* A write that is of an update joins what is on its way to the device.
LEMMA WriteKeepsLink ==
  ASSUME LinkInv, SenderOK, NEW u \in Updates, target[u] \in Updates,
         NEW kind \in {"begin", "data", "end", "abort"}, NEW offset \in 0..ImageChunks,
         Writes(kind, u, offset), UNCHANGED <<connected, toApp, installed>>
  PROVE  LinkInv'
<1> DEFINE write == [kind |-> kind, transfer |-> target[u], offset |-> offset, sender |-> u]
<1>1. write \in WriteRequests
  BY DEF WriteRequests, Transfers
<1>2. toDevice \in Seq(WriteRequests) /\ toDevice' = (IF connected THEN Append(toDevice, write)
                                                    ELSE toDevice)
  BY DEF LinkInv, LinkOK, Writes
<1> HIDE DEF write
<1>3. toDevice' \in Seq(WriteRequests)
  BY <1>1, <1>2, QueueAppend
<1> QED
  BY <1>3 DEF LinkInv, LinkOK, DoneInstalled

LEMMA SenderMoves ==
  ASSUME SenderOK, TargetKnown, NEW u \in Updates, NEW place \in Places,
         SenderGoes(u, place), UNCHANGED target,
         place \in {"begin", "beginning", "data", "ending"} => target[u] \in Updates
  PROVE  sender' \in [Updates -> Places] /\ TargetKnown'
BY DEF SenderOK, TargetKnown, SenderGoes

\* Who finishes an update successfully has heard of its image.
LEMMA FinishFacts ==
  ASSUME SessionOK, SuccessIsInstalled, UNCHANGED installed,
         NEW v \in Transfers, NEW outcome \in {"updated", "failed", "cancelled"},
         Finish(v, outcome), outcome = "updated" => v \in installed
  PROVE  /\ told' \in [Updates -> {"none", "updated", "failed", "cancelled"}]
         /\ session' \in Transfers /\ dialog' \in BOOLEAN
         /\ SuccessIsInstalled'
<1>1. CASE session = v /\ v # None
  <2>1. v \in Updates /\ told' = [told EXCEPT ![v] = outcome]
    BY <1>1 DEF Finish, Transfers
  <2>2. session' = None /\ dialog' = FALSE
    BY <1>1 DEF Finish, FinishDialog
  <2> QED
    BY <2>1, <2>2 DEF SessionOK, SuccessIsInstalled, Transfers
<1>2. CASE ~(session = v /\ v # None)
  BY <1>2 DEF Finish, SessionOK, SuccessIsInstalled
<1> QED
  BY <1>1, <1>2

LEMMA FailsAtOnceFacts ==
  ASSUME ClientInv, NEW u \in Updates, FailsAtOnce(u), UNCHANGED <<target, installed>>
  PROVE  /\ told' \in [Updates -> {"none", "updated", "failed", "cancelled"}]
         /\ session' \in Transfers /\ dialog' \in BOOLEAN
         /\ SuccessIsInstalled'
         /\ sender' \in [Updates -> Places] /\ TargetKnown'
<1>1. sender' \in [Updates -> Places] /\ TargetKnown'
  BY SenderMoves DEF ClientInv, FailsAtOnce, Places
<1>2. told' = [told EXCEPT ![u] = "failed"] /\ session' = session /\ dialog' = FALSE
  BY DEF FailsAtOnce, FinishDialog
<1> QED
  BY <1>1, <1>2 DEF ClientInv, SessionOK, SuccessIsInstalled

\* The client's invariant, from what a step of it may change.
LEMMA ClientFrom ==
  ASSUME ClientInv,
         UNCHANGED <<ready, cancelling, cancelled, crashed, confirmed, closed, reply, sent>>,
         target' \in [Updates -> Transfers],
         told' \in [Updates -> {"none", "updated", "failed", "cancelled"}],
         session' \in Transfers, dialog' \in BOOLEAN,
         sender' \in [Updates -> Places],
         TargetKnown', SuccessIsInstalled'
  PROVE  ClientInv'
BY DEF ClientInv, SenderOK, SessionOK

LEMMA DownloadKeeps ==
  ASSUME UInv, NEW u \in Updates,
         StartFirmwareUpdate(u) \/ DownloadOtaFailed(u) \/ UpdateFirmware(u)
  PROVE  UInv'
<1>1. DeviceInv' /\ LinkInv' /\ HistoryOK'
  BY DeviceUnchanged, LinkUnchanged, HistoryUnchanged
     DEF UInv, StartFirmwareUpdate, DownloadOtaFailed, UpdateFirmware, historyVars
<1>2. CASE StartFirmwareUpdate(u)
  <2>1. sender' \in [Updates -> Places] /\ TargetKnown'
    BY <1>2, SenderMoves DEF UInv, ClientInv, StartFirmwareUpdate, UpdateFirmwareFromLatest, Places
  <2> QED
    BY <1>1, <1>2, <2>1 DEF UInv, ClientInv, SenderOK, SessionOK, SuccessIsInstalled,
                            StartFirmwareUpdate, ShowDialog, historyVars
<1>3. CASE DownloadOtaFailed(u)
  BY <1>1, <1>3, FailsAtOnceFacts, ClientFrom
     DEF UInv, ClientInv, SenderOK, DownloadOtaFailed, historyVars
<1>4. CASE UpdateFirmware(u) /\ FailsAtOnce(u)
  BY <1>1, <1>4, FailsAtOnceFacts, ClientFrom
     DEF UInv, ClientInv, SenderOK, UpdateFirmware, historyVars
<1>5. CASE UpdateFirmware(u) /\ ~FailsAtOnce(u)
  <2>1. session' = u /\ SenderGoes(u, "launch") /\ UNCHANGED <<told, dialog>>
    BY <1>5 DEF UpdateFirmware
  <2>2. sender' \in [Updates -> Places] /\ TargetKnown'
    BY <1>5, <2>1, SenderMoves DEF UInv, ClientInv, UpdateFirmware, Places
  <2> QED
    BY <1>1, <1>5, <2>1, <2>2 DEF UInv, ClientInv, SenderOK, SessionOK, SuccessIsInstalled,
                                  UpdateFirmware, historyVars, Transfers
<1> QED
  BY <1>2, <1>3, <1>4, <1>5

LEMMA LaunchKeeps ==
  ASSUME UInv, NEW u \in Updates, LaunchUpdate(u) \/ WriteToClosed(u)
  PROVE  UInv'
<1>1. DeviceInv' /\ LinkInv' /\ HistoryOK'
  BY DeviceUnchanged, LinkUnchanged, HistoryUnchanged
     DEF UInv, LaunchUpdate, WriteToClosed, historyVars
<1>2. CASE session # None /\ LaunchUpdate(u)
  <2>1. session \in Updates
    BY <1>2 DEF UInv, ClientInv, SessionOK, Transfers
  <2>2. target' = [target EXCEPT ![u] = session] /\ sender' = [sender EXCEPT ![u] = "begin"]
        /\ UNCHANGED crashed
    BY <1>2 DEF LaunchUpdate, SenderGoes
  <2>3. SenderOK' /\ SessionOK'
    BY <1>2, <2>1, <2>2 DEF UInv, ClientInv, SenderOK, SessionOK, LaunchUpdate, Places, Transfers
  <2>4. TargetKnown'
    BY <2>1, <2>2 DEF UInv, ClientInv, SenderOK, TargetKnown
  <2>5. SuccessIsInstalled'
    BY <1>2 DEF UInv, ClientInv, SuccessIsInstalled, LaunchUpdate, historyVars
  <2> QED
    BY <1>1, <2>3, <2>4, <2>5 DEF UInv, ClientInv
<1>3. CASE (session = None /\ LaunchUpdate(u)) \/ WriteToClosed(u)
  BY <1>1, <1>3 DEF UInv, ClientInv, SenderOK, SessionOK, TargetKnown, SuccessIsInstalled,
                    LaunchUpdate, WriteToClosed, senderVars, historyVars
<1> QED
  BY <1>2, <1>3

\* BEGIN or END is written, with response.
LEMMA WriteWithResponse ==
  ASSUME UInv, NEW u \in Updates, WriteBegin(u) \/ WriteEnd(u)
  PROVE  UInv'
<1>1. DeviceInv' /\ HistoryOK'
  BY DeviceUnchanged, HistoryUnchanged DEF UInv, WriteBegin, WriteEnd, historyVars
<1>2. sender[u] \in {"begin", "data"} /\ target[u] \in Updates
  BY DEF UInv, ClientInv, TargetKnown, WriteBegin, WriteEnd, SenderIn
<1>3. PICK kind \in {"begin", "end"} : Writes(kind, u, 0)
  BY DEF WriteBegin, WriteEnd
<1>4. LinkInv'
  BY <1>2, <1>3, WriteKeepsLink, Numbers DEF UInv, ClientInv, WriteBegin, WriteEnd, historyVars
<1>5. PICK place \in {"beginning", "ending"} : SenderGoes(u, place)
  BY DEF WriteBegin, WriteEnd
<1>6. sender' \in [Updates -> Places] /\ TargetKnown'
  BY <1>2, <1>5, SenderMoves DEF UInv, ClientInv, WriteBegin, WriteEnd, Places
<1>7. reply' \in [Updates -> {"none", "success", "refused"}]
  BY DEF UInv, ClientInv, SenderOK, WriteBegin, WriteEnd
<1>8. SenderOK' /\ SessionOK' /\ SuccessIsInstalled'
  BY <1>6, <1>7 DEF UInv, ClientInv, SenderOK, SessionOK, SuccessIsInstalled, WriteBegin, WriteEnd,
                    historyVars
<1> QED
  BY <1>1, <1>4, <1>6, <1>8 DEF UInv, ClientInv

LEMMA AnsweredKeeps ==
  ASSUME UInv, NEW u \in Updates, BeginAnswered(u) \/ EndAnswered(u)
  PROVE  UInv'
<1>1. PICK place \in {"beginning", "ending"}, next \in {"data", "over"} : Answered(u, place, next)
  BY DEF BeginAnswered, EndAnswered
<1>2. DeviceInv' /\ LinkInv' /\ HistoryOK'
  BY <1>1, DeviceUnchanged, LinkUnchanged, HistoryUnchanged DEF UInv, Answered, historyVars
<1>3. target[u] \in Updates
  BY <1>1 DEF UInv, ClientInv, TargetKnown, Answered, SenderIn
<1>4. /\ told' \in [Updates -> {"none", "updated", "failed", "cancelled"}]
      /\ session' \in Transfers /\ dialog' \in BOOLEAN /\ SuccessIsInstalled'
  <2>1. CASE Finish(target[u], "failed")
    BY <1>1, <1>3, <2>1, FinishFacts DEF UInv, ClientInv, Answered, historyVars, Transfers
  <2>2. CASE UNCHANGED <<told, session, dialog>>
    BY <1>1, <2>2 DEF UInv, ClientInv, SessionOK, SuccessIsInstalled, Answered, historyVars
  <2> QED
    BY <1>1, <2>1, <2>2 DEF Answered
<1>5. PICK goal \in {"data", "over"} : SenderGoes(u, goal)
  BY <1>1 DEF Answered
<1>6. sender' \in [Updates -> Places] /\ TargetKnown'
  BY <1>1, <1>3, <1>5, SenderMoves DEF UInv, ClientInv, Answered, Places
<1>7. reply' \in [Updates -> {"none", "success", "refused"}]
  BY <1>1 DEF UInv, ClientInv, SenderOK, Answered
<1>8. SenderOK' /\ SessionOK'
  BY <1>1, <1>4, <1>6, <1>7 DEF UInv, ClientInv, SenderOK, SessionOK, Answered
<1> QED
  BY <1>2, <1>4, <1>6, <1>8 DEF UInv, ClientInv

LEMMA WriteDataKeeps ==
  ASSUME UInv, NEW u \in Updates, WriteData(u)
  PROVE  UInv'
<1>1. DeviceInv' /\ HistoryOK'
  BY DeviceUnchanged, HistoryUnchanged DEF UInv, WriteData, Works, historyVars
<1>2. target[u] \in Updates /\ sent[u] \in 0..(ImageChunks - 1)
  BY Numbers DEF UInv, ClientInv, SenderOK, TargetKnown, WriteData, SenderIn, ChunkLeft
<1>3. CASE /\ Writes("data", u, sent[u])
           /\ sent' = [sent EXCEPT ![u] = @ + 1]
           /\ UNCHANGED <<sender, told, session, dialog>>
  <2>1. sent[u] \in 0..ImageChunks /\ sent[u] + 1 \in 0..ImageChunks
    BY <1>2, Numbers
  <2>2. LinkInv'
    BY <1>2, <1>3, <2>1, WriteKeepsLink DEF UInv, ClientInv, WriteData, historyVars
  <2>3. sent' \in [Updates -> 0..ImageChunks]
    BY <1>3, <2>1 DEF UInv, ClientInv, SenderOK
  <2>4. ClientInv'
    BY <1>3, <2>3 DEF UInv, ClientInv, SenderOK, SessionOK, TargetKnown, SuccessIsInstalled,
                      WriteData, historyVars
  <2> QED
    BY <1>1, <2>2, <2>4 DEF UInv
<1>4. CASE /\ SenderGoes(u, "over") /\ Finish(target[u], "failed")
           /\ UNCHANGED <<toDevice, sent>>
  <2>1. LinkInv'
    BY <1>4, LinkUnchanged DEF UInv, WriteData, linkVars, historyVars
  <2>2. /\ told' \in [Updates -> {"none", "updated", "failed", "cancelled"}]
        /\ session' \in Transfers /\ dialog' \in BOOLEAN /\ SuccessIsInstalled'
    BY <1>2, <1>4, FinishFacts DEF UInv, ClientInv, WriteData, historyVars, Transfers
  <2>3. sender' \in [Updates -> Places] /\ TargetKnown'
    BY <1>4, SenderMoves DEF UInv, ClientInv, WriteData, Places
  <2>4. ClientInv'
    BY <1>4, <2>2, <2>3, ClientFrom DEF UInv, ClientInv, SenderOK, WriteData
  <2> QED
    BY <1>1, <2>1, <2>4 DEF UInv
<1> QED
  BY <1>3, <1>4 DEF WriteData

LEMMA SenderStops ==
  ASSUME UInv, NEW u \in Updates, SenderCancelled(u) \/ FinalWaitTimedOut(u)
  PROVE  UInv'
<1>1. DeviceInv' /\ LinkInv' /\ HistoryOK'
  BY DeviceUnchanged, LinkUnchanged, HistoryUnchanged
     DEF UInv, SenderCancelled, FinalWaitTimedOut, historyVars
<1>2. sender' \in [Updates -> Places] /\ TargetKnown'
  BY SenderMoves DEF UInv, ClientInv, SenderCancelled, FinalWaitTimedOut, Places
<1>3. /\ told' \in [Updates -> {"none", "updated", "failed", "cancelled"}]
      /\ session' \in Transfers /\ dialog' \in BOOLEAN /\ SuccessIsInstalled'
  <2>1. CASE SenderCancelled(u)
    BY <2>1 DEF UInv, ClientInv, SessionOK, SuccessIsInstalled, SenderCancelled, historyVars
  <2>2. CASE FinalWaitTimedOut(u)
    <3>1. target[u] \in Transfers
      BY DEF UInv, ClientInv, SenderOK
    <3> QED
      BY <2>2, <3>1, FinishFacts DEF UInv, ClientInv, FinalWaitTimedOut, historyVars
  <2> QED
    BY <2>1, <2>2
<1>4. ClientInv'
  BY <1>2, <1>3, ClientFrom DEF UInv, ClientInv, SenderOK, SenderCancelled, FinalWaitTimedOut
<1> QED
  BY <1>1, <1>4 DEF UInv

\* The first event on its way to the client: what it may be, and what is left.
LEMMA HeardFacts ==
  ASSUME LinkInv, HistoryOK, toApp # <<>>, toApp' = Tail(toApp),
         UNCHANGED <<connected, toDevice, installed>>
  PROVE  /\ LinkInv' /\ Head(toApp) \in OtaEvents
         /\ Head(toApp).event = "done" => Head(toApp).transfer \in installed
         /\ Head(toApp).event = "done" => Head(toApp).transfer # None
<1>1. toApp \in Seq(OtaEvents)
  BY DEF LinkInv, LinkOK
<1>2. /\ Head(toApp) \in OtaEvents /\ Head(toApp) = toApp[1] /\ 1 \in 1..Len(toApp)
      /\ toApp' \in Seq(OtaEvents)
      /\ \A i \in 1..Len(toApp') : i + 1 \in 1..Len(toApp) /\ toApp'[i] = toApp[i + 1]
  BY <1>1, QueueTail
<1>3. Head(toApp).event = "done" => Head(toApp).transfer \in installed
  BY <1>2 DEF LinkInv, DoneInstalled
<1>4. DoneInstalled'
  BY <1>2 DEF LinkInv, DoneInstalled
<1> QED
  BY <1>2, <1>3, <1>4, NoneIsNoUpdate DEF LinkInv, LinkOK, HistoryOK

LEMMA OtaStateEventKeeps ==
  ASSUME UInv, OtaStateEvent
  PROVE  UInv'
<1> DEFINE event == Head(toApp)
<1>1. DeviceInv' /\ HistoryOK'
  BY DeviceUnchanged, HistoryUnchanged DEF UInv, OtaStateEvent, historyVars
<1>2. /\ LinkInv' /\ event \in OtaEvents
      /\ event.event = "done" => event.transfer \in installed /\ event.transfer # None
  BY HeardFacts DEF UInv, OtaStateEvent, historyVars
<1>3. /\ UNCHANGED <<ready, senderVars, cancelled, cancelling, crashed, installed>>
      /\ confirmed' = IF OfThisUpdate(event) /\ event.event = "progress"
                      THEN [confirmed EXCEPT ![session] = event.written] ELSE confirmed
      /\ IF OfThisUpdate(event) /\ event.event \in {"done", "error"}
         THEN Finish(session, IF event.event = "done" THEN "updated" ELSE "failed")
         ELSE UNCHANGED <<told, session, dialog>>
  BY DEF OtaStateEvent, historyVars
<1>4. event.written \in 0..ImageChunks
  BY <1>2 DEF OtaEvents
<1> HIDE DEF event
<1>5. OfThisUpdate(event) => session \in Updates /\ event.transfer \in {session, None}
  BY DEF OfThisUpdate, UInv, ClientInv, SessionOK, Transfers
<1>6. confirmed' \in [Updates -> 0..ImageChunks]
  BY <1>3, <1>4, <1>5 DEF UInv, ClientInv, SessionOK
<1>7. /\ told' \in [Updates -> {"none", "updated", "failed", "cancelled"}]
      /\ session' \in Transfers /\ dialog' \in BOOLEAN /\ SuccessIsInstalled'
  <2>1. CASE OfThisUpdate(event) /\ event.event = "done"
    <3>1. session \in installed /\ session \in Transfers
      BY <1>2, <1>5, <2>1 DEF Transfers
    <3>2. Finish(session, "updated")
      BY <1>3, <2>1
    <3> QED
      BY <1>3, <3>1, <3>2, FinishFacts DEF UInv, ClientInv
  <2>2. CASE OfThisUpdate(event) /\ event.event = "error"
    <3>1. Finish(session, "failed") /\ session \in Transfers
      BY <1>3, <1>5, <2>2 DEF Transfers
    <3> QED
      BY <1>3, <3>1, FinishFacts DEF UInv, ClientInv
  <2>3. CASE UNCHANGED <<told, session, dialog>>
    BY <1>3, <2>3 DEF UInv, ClientInv, SessionOK, SuccessIsInstalled
  <2> QED
    BY <1>3, <2>1, <2>2, <2>3
<1>8. ClientInv'
  BY <1>3, <1>6, <1>7 DEF UInv, ClientInv, SenderOK, SessionOK, TargetKnown, senderVars
<1> QED
  BY <1>1, <1>2, <1>8 DEF UInv

LEMMA CancelKeeps ==
  ASSUME UInv, CancelFirmwareUpdate
  PROVE  UInv'
<1>1. DeviceInv' /\ LinkInv'
  BY DeviceUnchanged, LinkUnchanged DEF UInv, CancelFirmwareUpdate
<1>2. HistoryOK'
  BY DEF UInv, HistoryOK, CancelFirmwareUpdate
<1>3. cancelling' \in Transfers /\ cancelled' \subseteq Updates /\ dialog' \in BOOLEAN
  BY DEF UInv, ClientInv, SessionOK, CancelFirmwareUpdate, CancelPressed, Transfers
<1>4. ClientInv'
  BY <1>3 DEF UInv, ClientInv, SenderOK, SessionOK, TargetKnown, SuccessIsInstalled,
              CancelFirmwareUpdate, senderVars
<1> QED
  BY <1>1, <1>2, <1>4 DEF UInv

LEMMA AbortKeeps ==
  ASSUME UInv, AbortAndFinish
  PROVE  UInv'
<1> DEFINE abort == [kind |-> "abort", transfer |-> cancelling, offset |-> 0, sender |-> None]
<1>1. DeviceInv' /\ HistoryOK'
  BY DeviceUnchanged, HistoryUnchanged DEF UInv, AbortAndFinish, historyVars
<1>2. cancelling \in Updates /\ cancelling \in Transfers
  BY DEF UInv, ClientInv, SessionOK, AbortAndFinish, Transfers
<1>3. LinkInv'
  <2>1. abort \in WriteRequests
    BY <1>2, Numbers DEF WriteRequests, Transfers
  <2>2. toDevice' = (IF connected THEN Append(toDevice, abort) ELSE toDevice)
        /\ UNCHANGED <<connected, toApp, installed>>
    BY DEF AbortAndFinish, historyVars
  <2> HIDE DEF abort
  <2>3. toDevice' \in Seq(WriteRequests)
    BY <2>1, <2>2, QueueAppend DEF UInv, LinkInv, LinkOK
  <2> QED
    BY <2>2, <2>3 DEF UInv, LinkInv, LinkOK, DoneInstalled
<1>4. /\ told' \in [Updates -> {"none", "updated", "failed", "cancelled"}]
      /\ session' \in Transfers /\ dialog' \in BOOLEAN /\ SuccessIsInstalled'
  BY <1>2, FinishFacts DEF UInv, ClientInv, AbortAndFinish, historyVars
<1>5. ClientInv'
  BY <1>4 DEF UInv, ClientInv, SenderOK, SessionOK, TargetKnown, AbortAndFinish, senderVars,
              Transfers
<1> QED
  BY <1>1, <1>3, <1>5 DEF UInv

LEMMA DisconnectedKeeps ==
  ASSUME UInv, HandleDeviceDisconnected \/ Reconnected
  PROVE  UInv'
<1>1. DeviceInv' /\ HistoryOK'
  BY DeviceUnchanged, HistoryUnchanged
     DEF UInv, HandleDeviceDisconnected, Reconnected, historyVars
<1>2. CASE HandleDeviceDisconnected
  <2>1. LinkInv'
    BY <1>2, LinkUnchanged DEF UInv, HandleDeviceDisconnected, historyVars
  <2>2. /\ told' \in [Updates -> {"none", "updated", "failed", "cancelled"}]
        /\ session' \in Transfers /\ dialog' \in BOOLEAN /\ SuccessIsInstalled'
    BY <1>2, FinishFacts DEF UInv, ClientInv, SessionOK, HandleDeviceDisconnected,
                             UpdateInterrupted, historyVars
  <2>3. closed' \subseteq Updates
    BY <1>2 DEF UInv, ClientInv, SenderOK, HandleDeviceDisconnected
  <2>4. ClientInv'
    BY <1>2, <2>2, <2>3 DEF UInv, ClientInv, SenderOK, SessionOK, TargetKnown,
                            HandleDeviceDisconnected
  <2> QED
    BY <1>1, <2>1, <2>4 DEF UInv
<1>3. CASE Reconnected
  <2>1. LinkInv'
    BY <1>3 DEF UInv, LinkInv, LinkOK, DoneInstalled, Reconnected, historyVars
  <2>2. ClientInv'
    BY <1>3 DEF UInv, ClientInv, SenderOK, SessionOK, TargetKnown, SuccessIsInstalled,
                Reconnected, senderVars, historyVars
  <2> QED
    BY <1>1, <2>1, <2>2 DEF UInv
<1> QED
  BY <1>2, <1>3

-----------------------------------------------------------------------------
LEMMA InitUInv == Init => UInv
<1> SUFFICES ASSUME Init PROVE UInv
  OBVIOUS
<1>1. DeviceOK
  <2>1. ota \in [active : BOOLEAN, transfer : Transfers, size : {0, ImageChunks},
                written : 0..ImageChunks, next : 0..(ImageChunks + ProgressStep)]
    BY Numbers DEF Init, Cleared, Transfers
  <2>2. <<>> \in Seq(Chunk) /\ Len(<<>>) <= ImageChunks
    BY Numbers
  <2> QED
    BY <2>1, <2>2 DEF Init, DeviceOK
<1>2. HandleOwned /\ SlotHolds /\ BootsSentImage
  BY DEF Init, HandleOwned, Open, SlotHolds, BootsSentImage, Cleared
<1>3. LinkInv
  <2>1. <<>> \in Seq(WriteRequests) /\ <<>> \in Seq(OtaEvents) /\ Len(<<>>) = 0
    OBVIOUS
  <2> QED
    BY <2>1 DEF Init, LinkInv, LinkOK, DoneInstalled
<1> 0 \in 0..ImageChunks /\ 0 \in 0..MaxFaults
  BY Numbers
<1>4. ClientInv
  <2>1. SenderOK
    BY DEF Init, SenderOK, Places, Transfers
  <2>2. ready \in BOOLEAN /\ dialog \in BOOLEAN /\ crashed \in BOOLEAN
    BY DEF Init
  <2>3. SessionOK
    BY <2>2 DEF Init, SessionOK, Transfers
  <2>4. TargetKnown /\ SuccessIsInstalled
    BY DEF Init, TargetKnown, SuccessIsInstalled
  <2> QED
    BY <2>1, <2>3, <2>4 DEF ClientInv
<1>5. HistoryOK
  <2>1. lost \in BOOLEAN
    BY DEF Init
  <2> QED
    BY <2>1 DEF Init, HistoryOK
<1> QED
  BY <1>1, <1>2, <1>3, <1>4, <1>5 DEF UInv, DeviceInv

LEMMA SenderStepKeeps ==
  ASSUME UInv, NEW u \in Updates, SenderStep(u)
  PROVE  UInv'
BY DownloadKeeps, LaunchKeeps, WriteWithResponse, AnsweredKeeps, WriteDataKeeps, SenderStops
   DEF SenderStep

LEMMA NextUInv == UInv /\ [Next]_vars => UInv'
<1> SUFFICES ASSUME UInv, [Next]_vars PROVE UInv'
  OBVIOUS
<1>1. CASE DeviceStep \/ LinkDrops
  BY <1>1, DeviceStepKeeps, LinkDropsKeeps
<1>2. CASE ClientStep
  BY <1>2, SenderStepKeeps, OtaStateEventKeeps, AbortKeeps, DisconnectedKeeps DEF ClientStep
<1>3. CASE User
  BY <1>3, CancelKeeps, DownloadKeeps DEF User
<1>4. CASE Reconnected
  BY <1>4, DisconnectedKeeps
<1>5. CASE UNCHANGED vars
  <2>1. UNCHANGED <<deviceVars, linkVars, clientVars, faults, historyVars>>
    BY <1>5 DEF vars
  <2> QED
    BY <2>1, DeviceUnchanged, LinkUnchanged, ClientUnchanged, HistoryUnchanged
       DEF UInv, historyVars
<1> QED
  BY <1>1, <1>2, <1>3, <1>4, <1>5 DEF Next

(* The inductive invariant: the spare partition holds what is counted, the *)
(* writes in flight name updates, and the events in flight do not lie.     *)
THEOREM UpdateInvariance == Spec => []UInv
<1> QED
  BY InitUInv, NextUInv, PTL DEF Spec

(* Every variable of the update keeps to its range, the device's counters  *)
(* and the client's offsets included.                                      *)
THEOREM UpdateTypes == Spec => []TypeOK
<1>1. UInv => TypeOK
  BY DEF UInv, DeviceInv, LinkInv, ClientInv, TypeOK
<1> QED
  BY <1>1, UpdateInvariance, PTL

(* The device boots the image it came with or one complete image of one    *)
(* update, in order, whatever writes are refused or lost, however updates, *)
(* cancellations, lost links and restarts interleave (ota_write_data and   *)
(* ota_finish of voice_ble.c, UpdateFirmwareAsync of ble_central_win.cc).  *)
THEOREM BootsOneImage == Spec => []BootsSentImage
<1>1. UInv => BootsSentImage
  BY DEF UInv, DeviceInv
<1> QED
  BY <1>1, UpdateInvariance, PTL

(* The user hears "Firmware Updated" only of an image that was made to     *)
(* boot, also when the events of one update arrive while another runs, and *)
(* when two senders work for the same one (HandleFirmwareOtaStateEvent).   *)
THEOREM SuccessIsTrue == Spec => []SuccessIsInstalled
<1>1. UInv => SuccessIsInstalled
  BY DEF UInv, ClientInv
<1> QED
  BY <1>1, UpdateInvariance, PTL

(* Begin, end, abort, the loss of the link and the restart leave exactly   *)
(* one open partition handle while a transfer is active, and none besides  *)
(* those an abort for another transfer made the receiver forget.           *)
THEOREM HandleOwnership == Spec => []HandleOwned
<1>1. UInv => HandleOwned
  BY DEF UInv, DeviceInv
<1> QED
  BY <1>1, UpdateInvariance, PTL
=============================================================================
