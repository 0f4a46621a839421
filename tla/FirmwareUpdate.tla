--------------------------- MODULE FirmwareUpdate ---------------------------
(***************************************************************************)
(* A firmware update: the Windows client downloads an image and writes it  *)
(* in chunks to the device, whose OTA receiver writes them to the spare    *)
(* partition and tells of its progress, and in the end boots from there.   *)
(* The user may cancel; the link, the flash and the buffers may fail.      *)
(*                                                                         *)
(* In the client a download has a thread of its own, which becomes the     *)
(* sender; the UI thread starts, cancels and handles the device's events;  *)
(* the loss of the link is handled on a third thread.                      *)
(***************************************************************************)
EXTENDS Integers, Sequences

CONSTANTS MaxUpdates,    \* updates the user starts
          ImageChunks,   \* the size of the image, in chunks
          ProgressStep,  \* OTA_PROGRESS_NOTIFY_BYTES, in chunks
          InFlight,      \* max_in_flight, in chunks
          MaxFaults      \* times that a part fails

\* 32 KB between notifications, 48 KB in flight: the sender stops before the
\* second notification unless the first has come.
ASSUME UpdateAssumption ==
  /\ MaxUpdates \in Nat \ {0} /\ ImageChunks \in Nat \ {0} /\ MaxFaults \in Nat
  /\ ProgressStep \in Nat \ {0} /\ InFlight \in Nat
  /\ ProgressStep <= InFlight + 1 /\ InFlight + 1 < 2 * ProgressStep

Updates == 1..MaxUpdates   \* also the transfer ids, drawn at random in the code
None == 0

VARIABLES
  ota,       \* s_ota
  handles,   \* how many handles of the spare partition are open
  slot,      \* what was written to the spare partition since it was last begun
  boot,      \* the image that boots, <<>> for the one the device came with
  device,    \* "running", or "rebooting" in the half second before the restart
  connected, toDevice, toApp,
  ready,     \* the client has a session with the device
  session,   \* firmware_update_session_
  sender,    \* sender[u]: where the thread of download u, then the sender, is
  target,    \* target[u]: the update that sender works for
  sent,      \* sent[u]: its offset
  reply,     \* reply[u]: the device's response to its last write with response
  closed,    \* the senders whose session with the device has been closed
  confirmed, \* device_confirmed_written of each update
  cancelled, \* the updates with cancel_requested
  cancelling,\* the update CancelFirmwareUpdate has read
  dialog,    \* whether the dialog's Cancel button is enabled
  crashed,   \* the client followed a null pointer
  faults,
  told,      \* told[u]: what completion said of update u
  installed, \* history: the updates whose image was made to boot
  refused,   \* history: the updates the user cancelled before they were confirmed in full
  strayed,   \* history: the open handles whose state an abort for another transfer cleared
  lost       \* history: a notification was lost

deviceVars == <<ota, handles, slot, boot, device>>
linkVars   == <<connected, toDevice, toApp>>
senderVars == <<sender, target, sent, reply, closed>>
clientVars == <<ready, session, senderVars, confirmed, cancelled, cancelling, dialog, crashed, told>>
historyVars == <<installed, refused, strayed, lost>>
vars == <<deviceVars, linkVars, clientVars, faults, historyVars>>

Cleared == [active |-> FALSE, transfer |-> None, size |-> 0, written |-> 0, next |-> 0]

Init ==
  /\ ota = Cleared /\ handles = 0 /\ slot = <<>> /\ boot = <<>> /\ device = "running"
  /\ connected = TRUE /\ toDevice = <<>> /\ toApp = <<>>
  /\ ready = TRUE /\ session = None
  /\ sender = [u \in Updates |-> "none"] /\ target = [u \in Updates |-> None]
  /\ sent = [u \in Updates |-> 0] /\ reply = [u \in Updates |-> "none"] /\ closed = {}
  /\ confirmed = [u \in Updates |-> 0] /\ cancelled = {} /\ cancelling = None
  /\ dialog = FALSE /\ crashed = FALSE /\ faults = 0
  /\ told = [u \in Updates |-> "none"]
  /\ installed = {} /\ refused = {} /\ strayed = 0 /\ lost = FALSE

Fails == faults < MaxFaults /\ faults' = faults + 1
Works == UNCHANGED faults

-----------------------------------------------------------------------------
\* The device: voice_ble.c, on the NimBLE host task

Event(name, transfer, written) == [event |-> name, transfer |-> transfer, written |-> written]

\* ota_send_state_json, except the events "ready" and "aborted", which the client
\* ignores.  It fails quietly for want of a buffer, and in the model only in a
\* step where nothing else fails.
Sends(event) == toApp' = Append(toApp, event) /\ UNCHANGED lost
Notifies(event) ==
  \/ Works /\ Sends(event)
  \/ Fails /\ lost' = TRUE /\ UNCHANGED toApp

\* ota_send_error names no transfer.
Error == Event("error", None, 0)

Write == Head(toDevice)
Answer(ok) ==
  IF Write.sender = None THEN UNCHANGED reply
  ELSE reply' = [reply EXCEPT ![Write.sender] = IF ok THEN "success" ELSE "refused"]

Receives(kind) ==
  /\ connected /\ device = "running"
  /\ toDevice # <<>> /\ Write.kind = kind
  /\ toDevice' = Tail(toDevice)
  /\ UNCHANGED <<connected, ready, session, sender, target, sent, closed, confirmed, cancelled,
                 cancelling, dialog, crashed, told, refused>>

\* ota_access_cb finds no memory for the write.
NoMemory ==
  /\ \E kind \in {"begin", "data", "end", "abort"} : Receives(kind)
  /\ Fails /\ Sends(Error) /\ Answer(FALSE)
  /\ UNCHANGED <<deviceVars, installed, strayed>>

Active(transfer) == ota.active /\ ota.transfer = transfer
Open == IF ota.active THEN 1 ELSE 0

OtaBegin ==
  /\ Receives("begin")
  /\ \/ /\ Works /\ Answer(TRUE)
        /\ UNCHANGED <<toApp, lost>>
        /\ ota' = [active |-> TRUE, transfer |-> Write.transfer, size |-> ImageChunks,
                   written |-> 0, next |-> ProgressStep]
        /\ handles' = handles - Open + 1
        /\ slot' = <<>>
     \/ /\ Fails /\ Sends(Error) /\ Answer(FALSE)
        /\ ota' = Cleared
        /\ handles' = handles - Open
        /\ UNCHANGED slot
  /\ UNCHANGED <<boot, device, installed, strayed>>

OffsetUnchecked(offset) == ota.written < ota.size
OffsetExpected(offset) == offset = ota.written /\ ota.written < ota.size

ProgressDue(written) == written >= ota.next \/ written = ota.size

OtaWriteData ==
  /\ Receives("data")
  /\ \/ /\ ~Active(Write.transfer) \/ ~OffsetExpected(Write.offset)
        /\ Notifies(Error)
        /\ UNCHANGED <<ota, slot>>
     \/ /\ Active(Write.transfer) /\ OffsetExpected(Write.offset)
        /\ Fails /\ Sends(Error)
        /\ UNCHANGED <<ota, slot>>
     \/ /\ Active(Write.transfer) /\ OffsetExpected(Write.offset)
        /\ LET written == ota.written + 1
           IN  /\ ota' = [ota EXCEPT !.written = written,
                            !.next = IF written >= @ THEN @ + ProgressStep ELSE @]
               /\ IF ProgressDue(written)
                  THEN Notifies(Event("progress", ota.transfer, written))
                  ELSE Works /\ UNCHANGED <<toApp, lost>>
        /\ slot' = Append(slot, [of |-> Write.transfer, offset |-> Write.offset])
  /\ UNCHANGED <<handles, boot, device, reply, installed, strayed>>

Endable(transfer) == Active(transfer) /\ ota.written = ota.size

OtaFinish ==
  /\ Receives("end")
  /\ \/ /\ ~Endable(Write.transfer)
        /\ Notifies(Error) /\ Answer(FALSE)
        /\ UNCHANGED <<deviceVars, installed, strayed>>
     \/ /\ Endable(Write.transfer)   \* the image or its partition is not accepted
        /\ Fails /\ Sends(Error) /\ Answer(FALSE)
        /\ ota' = Cleared
        /\ handles' = handles - 1
        /\ UNCHANGED <<slot, boot, device, installed, strayed>>
     \/ /\ Endable(Write.transfer)
        /\ Notifies(Event("done", Write.transfer, 0))
        /\ ota' = Cleared
        /\ handles' = handles - 1
        /\ boot' = slot
        /\ device' = "rebooting"
        /\ installed' = installed \cup {Write.transfer}
        /\ UNCHANGED <<slot, reply, strayed>>

\* The handle is freed only if the transfer is the active one.
AbortedHandles(transfer) == IF Active(transfer) THEN handles - 1 ELSE handles

OtaAbort ==
  /\ Receives("abort")
  /\ Works
  /\ handles' = AbortedHandles(Write.transfer)
  /\ strayed' = IF Active(Write.transfer) THEN strayed ELSE strayed + Open
  /\ ota' = Cleared
  /\ UNCHANGED <<slot, boot, device, toApp, reply, installed, lost>>

\* BLE_GAP_EVENT_DISCONNECT, and the same by the restart.  Of what was on its
\* way to the client nothing, or everything, still arrives.
HandleKeptAtDrop == handles
HandleFreedAtDrop == handles - Open

LinkLost ==
  /\ connected' = FALSE
  /\ toDevice' = <<>>
  /\ toApp' \in {<<>>, toApp}
  /\ ota' = Cleared

LinkDrops ==
  /\ connected /\ device = "running"
  /\ Fails
  /\ LinkLost
  /\ handles' = HandleFreedAtDrop
  /\ UNCHANGED <<slot, boot, device, clientVars, historyVars>>

Restart ==
  /\ device = "rebooting"
  /\ device' = "running"
  /\ LinkLost
  /\ handles' = 0 /\ strayed' = 0
  /\ UNCHANGED <<slot, boot, clientVars, faults, installed, refused, lost>>

DeviceStep == NoMemory \/ OtaBegin \/ OtaWriteData \/ OtaFinish \/ OtaAbort \/ Restart

-----------------------------------------------------------------------------
\* The client: ble_central_win.cc

\* Sender u writes; without a connection the write is lost, or refused.
Writes(kind, u, offset) ==
  toDevice' = IF connected THEN Append(toDevice, [kind |-> kind, transfer |-> target[u],
                                                  offset |-> offset, sender |-> u])
              ELSE toDevice

\* The dialog, whichever update it was made for, can then be closed only.
FinishDialog == dialog' = FALSE

\* FinishFirmwareUpdate: the first to finish update v tells the user.
Finish(v, outcome) ==
  IF session = v /\ v # None
  THEN told' = [told EXCEPT ![v] = outcome] /\ session' = None /\ FinishDialog
  ELSE UNCHANGED <<told, session, dialog>>

SenderGoes(u, place) == sender' = [sender EXCEPT ![u] = place]
SenderIn(u, place) == ~crashed /\ sender[u] = place

ShowDialog == dialog' = TRUE
UpdateFirmwareFromLatest(u) == SenderGoes(u, "download")

\* Win32App::StartFirmwareUpdate, from the menu or the prompt, which are offered
\* once a manifest is there.
StartFirmwareUpdate(u) ==
  /\ ~crashed /\ cancelling = None
  /\ sender[u] = "none" /\ \A v \in 1..(u - 1) : sender[v] # "none"
  /\ ShowDialog
  /\ UpdateFirmwareFromLatest(u)
  /\ UNCHANGED <<deviceVars, linkVars, ready, session, target, sent, reply, closed, confirmed,
                 cancelled, cancelling, crashed, told, faults, historyVars>>

\* The download thread gives up before it has registered update u.
FailsAtOnce(u) ==
  /\ told' = [told EXCEPT ![u] = "failed"]
  /\ FinishDialog
  /\ SenderGoes(u, "over")
  /\ UNCHANGED session

\* The size or the checksum is not the manifest's, or there is no network.
DownloadOtaFailed(u) ==
  /\ SenderIn(u, "download")
  /\ Fails
  /\ FailsAtOnce(u)
  /\ UNCHANGED <<deviceVars, linkVars, ready, target, sent, reply, closed, confirmed, cancelled,
                 cancelling, crashed, historyVars>>

\* With the image: UpdateFirmware up to the end of its stretch under the mutex.
UpdateFirmware(u) ==
  /\ SenderIn(u, "download")
  /\ \/ /\ session # None \/ ~ready
        /\ FailsAtOnce(u)
     \/ /\ session = None /\ ready
        /\ session' = u
        /\ SenderGoes(u, "launch")
        /\ UNCHANGED <<told, dialog>>
  /\ UNCHANGED <<deviceVars, linkVars, ready, target, sent, reply, closed, confirmed, cancelled,
                 cancelling, crashed, faults, historyVars>>

\* After the mutex: what was registered is read again, and may be gone.
LaunchUpdate(u) ==
  /\ SenderIn(u, "launch")
  /\ IF session = None
     THEN crashed' = TRUE /\ UNCHANGED <<target, sender>>
     ELSE /\ target' = [target EXCEPT ![u] = session]
          /\ SenderGoes(u, "begin")
          /\ UNCHANGED crashed
  /\ UNCHANGED <<deviceVars, linkVars, ready, session, sent, reply, closed, confirmed, cancelled,
                 cancelling, dialog, told, faults, historyVars>>

ChunkLeft(u) == sent[u] < ImageChunks
MayWrite(u) == sent[u] <= confirmed[target[u]] + InFlight

\* HandleDeviceDisconnected sets the characteristic to null under the sender.
WriteToClosed(u) ==
  /\ \/ SenderIn(u, "begin")
     \/ SenderIn(u, "data") /\ ChunkLeft(u) /\ target[u] \notin cancelled /\ MayWrite(u)
     \/ SenderIn(u, "data") /\ ~ChunkLeft(u) /\ confirmed[target[u]] = ImageChunks
  /\ u \in closed
  /\ crashed' = TRUE
  /\ UNCHANGED <<deviceVars, linkVars, ready, session, senderVars, confirmed, cancelled,
                 cancelling, dialog, told, faults, historyVars>>

WriteBegin(u) ==
  /\ SenderIn(u, "begin")
  /\ u \notin closed
  /\ Writes("begin", u, 0)
  /\ reply' = [reply EXCEPT ![u] = IF connected THEN "none" ELSE "refused"]
  /\ SenderGoes(u, "beginning")
  /\ UNCHANGED <<deviceVars, connected, toApp, ready, session, target, sent, closed, confirmed,
                 cancelled, cancelling, dialog, crashed, told, faults, historyVars>>

\* A write with response returns: answered, or given up without a link.
Answered(u, place, next) ==
  /\ SenderIn(u, place)
  /\ reply[u] # "none" \/ ~connected
  /\ IF reply[u] = "success"
     THEN SenderGoes(u, next) /\ UNCHANGED <<told, session, dialog>>
     ELSE SenderGoes(u, "over") /\ Finish(target[u], "failed")
  /\ reply' = [reply EXCEPT ![u] = "none"]
  /\ UNCHANGED <<deviceVars, linkVars, ready, target, sent, closed, confirmed, cancelled,
                 cancelling, crashed, faults, historyVars>>

BeginAnswered(u) == Answered(u, "beginning", "data")

WriteData(u) ==
  /\ SenderIn(u, "data")
  /\ ChunkLeft(u)
  /\ target[u] \notin cancelled
  /\ MayWrite(u)
  /\ u \notin closed
  /\ \/ /\ Works
        /\ Writes("data", u, sent[u])
        /\ sent' = [sent EXCEPT ![u] = @ + 1]
        /\ UNCHANGED <<sender, told, session, dialog>>
     \/ /\ Fails
        /\ SenderGoes(u, "over") /\ Finish(target[u], "failed")
        /\ UNCHANGED <<toDevice, sent>>
  /\ UNCHANGED <<deviceVars, connected, toApp, ready, target, reply, closed, confirmed, cancelled,
                 cancelling, crashed, historyVars>>

\* The sender looks at cancel_requested before each chunk and each wait.
SenderCancelled(u) ==
  /\ SenderIn(u, "data")
  /\ target[u] \in cancelled
  /\ ChunkLeft(u) \/ confirmed[target[u]] < ImageChunks
  /\ SenderGoes(u, "over")
  /\ UNCHANGED <<deviceVars, linkVars, ready, session, target, sent, reply, closed, confirmed,
                 cancelled, cancelling, dialog, crashed, told, faults, historyVars>>

\* Ten seconds after the last chunk.
FinalWaitTimedOut(u) ==
  /\ SenderIn(u, "data")
  /\ ~ChunkLeft(u) /\ confirmed[target[u]] < ImageChunks
  /\ SenderGoes(u, "over") /\ Finish(target[u], "failed")
  /\ UNCHANGED <<deviceVars, linkVars, ready, target, sent, reply, closed, confirmed, cancelled,
                 cancelling, crashed, faults, historyVars>>

WriteEnd(u) ==
  /\ SenderIn(u, "data")
  /\ ~ChunkLeft(u) /\ confirmed[target[u]] = ImageChunks
  /\ u \notin closed
  /\ Writes("end", u, 0)
  /\ reply' = [reply EXCEPT ![u] = IF connected THEN "none" ELSE "refused"]
  /\ SenderGoes(u, "ending")
  /\ UNCHANGED <<deviceVars, connected, toApp, ready, session, target, sent, closed, confirmed,
                 cancelled, cancelling, dialog, crashed, told, faults, historyVars>>

EndAnswered(u) == Answered(u, "ending", "over")

SenderStep(u) ==
  \/ DownloadOtaFailed(u) \/ UpdateFirmware(u) \/ LaunchUpdate(u) \/ WriteToClosed(u)
  \/ WriteBegin(u) \/ BeginAnswered(u) \/ WriteData(u) \/ SenderCancelled(u)
  \/ FinalWaitTimedOut(u) \/ WriteEnd(u) \/ EndAnswered(u)

\* HandleFirmwareOtaStateEvent.  An event that names no transfer is for
\* whichever update there is.
OfAnyUpdate(event) == session # None
OfThisUpdate(event) == session # None /\ event.transfer \in {session, None}

OtaStateEvent ==
  /\ ~crashed
  /\ toApp # <<>>
  /\ toApp' = Tail(toApp)
  /\ LET event == Head(toApp)
     IN  /\ confirmed' = IF OfThisUpdate(event) /\ event.event = "progress"
                         THEN [confirmed EXCEPT ![session] = event.written] ELSE confirmed
         /\ IF OfThisUpdate(event) /\ event.event \in {"done", "error"}
            THEN Finish(session, IF event.event = "done" THEN "updated" ELSE "failed")
            ELSE UNCHANGED <<told, session, dialog>>
  /\ UNCHANGED <<deviceVars, connected, toDevice, ready, senderVars, cancelled, cancelling,
                 crashed, faults, historyVars>>

\* The button is not enabled again.
CancelPressed == dialog /\ dialog' = FALSE

\* CancelFirmwareUpdate up to the end of its stretch under the mutex.
CancelFirmwareUpdate ==
  /\ ~crashed /\ cancelling = None
  /\ CancelPressed
  /\ cancelling' = session
  /\ cancelled' = IF session # None THEN cancelled \cup {session} ELSE cancelled
  /\ refused' = refused \cup {u \in Updates : /\ sender[u] \notin {"none", "over"}
                                               /\ told[u] = "none" /\ confirmed[u] < ImageChunks}
  /\ UNCHANGED <<deviceVars, linkVars, ready, session, senderVars, confirmed, crashed, told,
                 faults, installed, strayed, lost>>

AbortAndFinish ==
  /\ ~crashed /\ cancelling # None
  /\ cancelling' = None
  /\ toDevice' = IF connected THEN Append(toDevice, [kind |-> "abort", transfer |-> cancelling,
                                                    offset |-> 0, sender |-> None])
                 ELSE toDevice
  /\ Finish(cancelling, "cancelled")
  /\ UNCHANGED <<deviceVars, connected, toApp, ready, senderVars, confirmed, cancelled, crashed,
                 faults, historyVars>>

\* HandleDeviceDisconnected, on a WinRT thread.
UpdateForgotten == UNCHANGED <<told, session, dialog>>
UpdateInterrupted == Finish(session, "failed")

HandleDeviceDisconnected ==
  /\ ~crashed
  /\ ready /\ ~connected
  /\ ready' = FALSE
  /\ UpdateInterrupted
  /\ closed' = closed \cup {u \in Updates : sender[u] # "none" /\ sender[u] # "download"}
  /\ UNCHANGED <<deviceVars, linkVars, sender, target, sent, reply, confirmed, cancelled,
                 cancelling, crashed, faults, historyVars>>

Reconnected ==
  /\ ~crashed
  /\ ~connected /\ ~ready /\ device = "running"
  /\ connected' = TRUE /\ ready' = TRUE
  /\ UNCHANGED <<deviceVars, toDevice, toApp, session, senderVars, confirmed, cancelled,
                 cancelling, dialog, crashed, told, faults, historyVars>>

ClientStep ==
  \/ \E u \in Updates : SenderStep(u)
  \/ OtaStateEvent \/ AbortAndFinish \/ HandleDeviceDisconnected

User == CancelFirmwareUpdate \/ \E u \in Updates : StartFirmwareUpdate(u)

Next == DeviceStep \/ LinkDrops \/ ClientStep \/ Reconnected \/ User

Spec == Init /\ [][Next]_vars

\* Threads are scheduled, writes and notifications arrive unless lost with the
\* link, and the loss of the link is noticed.  Nothing is assumed of the user.
FairSpec ==
  /\ Spec
  /\ WF_vars(DeviceStep)
  /\ \A u \in Updates : WF_vars(SenderStep(u))
  /\ WF_vars(OtaStateEvent) /\ WF_vars(AbortAndFinish) /\ WF_vars(HandleDeviceDisconnected)

-----------------------------------------------------------------------------
Image(u) == [i \in 1..ImageChunks |-> [of |-> u, offset |-> i - 1]]
Chunk == [of : Updates, offset : 0..ImageChunks]
Transfers == Updates \cup {None}
WriteRequests == [kind : {"begin", "data", "end", "abort"}, transfer : Updates,
                  offset : 0..ImageChunks, sender : Transfers]
OtaEvents == [event : {"progress", "done", "error"}, transfer : Transfers,
              written : 0..ImageChunks]
Places == {"none", "download", "launch", "begin", "beginning", "data", "ending", "over"}

DeviceOK ==
  /\ ota \in [active : BOOLEAN, transfer : Transfers, size : {0, ImageChunks},
               written : 0..ImageChunks, next : 0..(ImageChunks + ProgressStep)]
  /\ handles \in Nat /\ strayed \in Nat
  /\ slot \in Seq(Chunk) /\ Len(slot) <= ImageChunks
  /\ boot \in Seq(Chunk) /\ Len(boot) <= ImageChunks
  /\ device \in {"running", "rebooting"}

LinkOK ==
  /\ connected \in BOOLEAN
  /\ toDevice \in Seq(WriteRequests)
  /\ toApp \in Seq(OtaEvents)

SenderOK ==
  /\ sender \in [Updates -> Places]
  /\ target \in [Updates -> Transfers]
  /\ sent \in [Updates -> 0..ImageChunks]
  /\ reply \in [Updates -> {"none", "success", "refused"}]
  /\ closed \subseteq Updates

SessionOK ==
  /\ ready \in BOOLEAN /\ dialog \in BOOLEAN /\ crashed \in BOOLEAN
  /\ session \in Transfers /\ cancelling \in Transfers
  /\ confirmed \in [Updates -> 0..ImageChunks]
  /\ cancelled \subseteq Updates
  /\ told \in [Updates -> {"none", "updated", "failed", "cancelled"}]

HistoryOK ==
  /\ faults \in 0..MaxFaults /\ lost \in BOOLEAN
  /\ installed \subseteq Updates /\ refused \subseteq Updates

\* Every variable keeps to its range.
TypeOK == DeviceOK /\ LinkOK /\ SenderOK /\ SessionOK /\ HistoryOK

\* The device boots what it came with or one complete image of one update, in
\* order, whatever chunks, notifications or links were lost on the way
\* (ota_write_data and ota_finish against UpdateFirmwareAsync).
BootsSentImage == boot = <<>> \/ \E u \in Updates : boot = Image(u)

\* "Firmware Updated" is said only of an image that was made to boot, also when
\* events of one update arrive while the next one runs.
SuccessIsInstalled == \A u \in Updates : told[u] = "updated" => u \in installed

\* While a transfer is active its partition handle is open, and begin, end,
\* abort and the loss of the link free it once.  A handle that nobody owns is
\* of a transfer whose state was cleared by an abort for another (ota_abort).
HandleOwned == handles = Open + strayed

\* Every update ends, and the user hears of it; unless a notification was
\* lost, for the sender waits for the next one without a limit, or the client
\* crashed.
UpdateEnds ==
  \A u \in Updates :
    (sender[u] # "none") ~> (told[u] # "none" \/ lost \/ crashed)

\* docs/protocol.md: an update cancelled before it is complete leaves the
\* firmware as it was.  Does not hold: a cancellation during the download is
\* not kept (ble_central_win.cc:378), and one that meets the last progress event
\* finds the sender past its last look, and END is sent (1209).
CancelKeepsFirmware == refused \cap installed = {}
=============================================================================
