------------------------------ MODULE WinBleCentral ------------------------------
(***************************************************************************)
(* BleCentralWin (src/desktop/windows/src/ble_central_win.cc): the scan,   *)
(* the coroutine that connects one device, and the table of sessions.      *)
(*                                                                         *)
(* Three kinds of threads run it.  The UI thread calls the operations and  *)
(* resumes a connect it began until resume_background; pool threads run    *)
(* advertisements, the connects they begin and the disconnect events.  A   *)
(* step of a connect is the code between two co_await.  What a pool thread *)
(* hands to the UI thread goes through the window's message queue, posted. *)
(*                                                                         *)
(* A slot stands for the DeviceSession object of one ConnectDeviceAsync:   *)
(* it is taken when the connect begins and freed when the connect fails or *)
(* the session is closed.  A device has one address, so a set of addresses *)
(* is a set of devices.                                                    *)
(***************************************************************************)
EXTENDS Naturals, Sequences, FiniteSets

CONSTANTS
    Devices,            \* the VoiceSticks in reach
    NoDevice,
    Slots,              \* bound: connects and sessions at a time
    DiscoveryAttempts,  \* kServiceDiscoveryAttempts
    MaxFaults           \* bound: failures of Bluetooth calls, losses of a link

ASSUME CentralAssumption ==
    /\ NoDevice \notin Devices
    /\ Slots \subseteq Nat \ {0}
    /\ DiscoveryAttempts \in Nat \ {0}
    /\ MaxFaults \in Nat

VARIABLES
    paired,      \* paired_device_ids_
    sessions,    \* sessions_by_device_id_: the slot of a device, 0 for none
    connecting,  \* connecting_addresses_
    cancelled,   \* cancelled_device_ids_
    watching,    \* watcher_ is running
    slots,       \* the connects and the sessions they leave
    linked,      \* the devices Windows holds a link to
    drops,       \* slots whose disconnect event a pool thread has still to run
    posted,      \* messages posted to the UI thread
    faults,      \* failures so far
    missed       \* history: slots whose disconnect event found nothing registered

centralVars == <<paired, sessions, connecting, cancelled, watching, slots,
                 linked, drops, posted, faults, missed>>

Steps == {"opening", "discovering", "services", "reopening", "characteristics",
          "subscribing", "notified", "subscribed"}
Free == [step |-> "free", device |-> NoDevice, ui |-> FALSE, tries |-> 0,
         unpaired |-> FALSE]
SlotType == [step : Steps \union {"free", "registered", "closing", "served"},
             device : Devices \union {NoDevice}, ui : BOOLEAN,
             tries : 0..DiscoveryAttempts, unpaired : BOOLEAN]

CentralTypeOK ==
    /\ paired \subseteq Devices /\ connecting \subseteq Devices
    /\ cancelled \subseteq Devices /\ linked \subseteq Devices
    /\ sessions \in [Devices -> Slots \union {0}]
    /\ watching \in BOOLEAN
    /\ slots \in [Slots -> SlotType]
    /\ drops \subseteq Slots /\ missed \subseteq Slots
    /\ faults \in 0..MaxFaults

\* The scan runs and the paired devices are connected.
CentralInit(ids) ==
    /\ paired = ids /\ watching = (ids # {})
    /\ LET own == CHOOSE f \in [ids -> Slots] : \A d, e \in ids : f[d] = f[e] => d = e
       IN /\ sessions = [d \in Devices |-> IF d \in ids THEN own[d] ELSE 0]
          /\ slots = [s \in Slots |->
                IF \E d \in ids : own[d] = s
                THEN [Free EXCEPT !.step = "served", !.device = CHOOSE d \in ids : own[d] = s,
                                  !.tries = 1]
                ELSE Free]
    /\ connecting = {} /\ cancelled = {} /\ linked = ids
    /\ drops = {} /\ missed = {} /\ posted = <<>> /\ faults = 0

(***************************************************************************)
(* Helpers                                                                 *)
(***************************************************************************)
Running(d) == {s \in Slots : slots[s].device = d /\ slots[s].step \in Steps}
Registered == {d \in Devices : sessions[d] # 0}

\* The slots whose event handlers are attached to an open BLE device.
Attached == {s \in Slots : slots[s].step \notin {"free", "opening", "reopening", "closing"}}
\* Windows gives a link up when the last handle of the device is closed.
HeldLinks(table) ==
    {d \in linked : \E s \in Slots : /\ table[s].device = d
                                     /\ table[s].step \notin {"free", "opening", "closing"}}

OnUiThread(s) == slots[s].ui /\ slots[s].step \notin {"characteristics", "subscribing",
                                                     "notified", "subscribed"}
At(s, step) == slots[s].step = step
Goto(s, step) == slots' = [slots EXCEPT ![s].step = step]
Spend == faults < MaxFaults /\ faults' = faults + 1

\* What CloseSession leaves of a slot: a connect that has registered its
\* session and not yet published it still runs.
Closed(slot) == IF slot.step = "registered" THEN [slot EXCEPT !.step = "closing"] ELSE Free

(***************************************************************************)
(* The scan.                                                               *)
(***************************************************************************)
\* StartScan on the UI thread, with the paired devices it finds.
StartScan(ids) ==
    \/ ids = {} /\ watching' = FALSE /\ UNCHANGED faults
    \/ ids # {} /\ watching' = TRUE /\ UNCHANGED faults
    \/ ids # {} /\ watching' = FALSE /\ Spend

\* ConnectDeviceAsync up to its first co_await.
BeginConnect(d, ui) ==
    \E s \in Slots :
        /\ At(s, "free") /\ \A t \in Slots : At(t, "free") => s <= t
        /\ slots' = [slots EXCEPT ![s] = [Free EXCEPT !.step = "opening", !.device = d, !.ui = ui]]

Advertises(d) == d \notin linked

\* An advertisement that does not look whether the address is claimed.
HandleAdvertisementUnclaimed(d) ==
    /\ watching /\ Advertises(d)
    /\ d \in paired /\ sessions[d] = 0
    /\ connecting' = connecting \union {d}
    /\ BeginConnect(d, FALSE)
    /\ UNCHANGED <<paired, sessions, cancelled, watching, linked, drops, posted, faults, missed>>

HandleAdvertisement(d) ==
    /\ watching /\ Advertises(d)
    /\ d \in paired /\ sessions[d] = 0 /\ d \notin connecting
    /\ connecting' = connecting \union {d}
    /\ BeginConnect(d, FALSE)
    /\ UNCHANGED <<paired, sessions, cancelled, watching, linked, drops, posted, faults, missed>>

(***************************************************************************)
(* The operations the coordinator calls on the UI thread.                  *)
(***************************************************************************)
\* A direct connect that does not enter the device in the central's list.
ConnectUnlisted(d) ==
    /\ UNCHANGED paired
    /\ IF sessions[d] # 0 \/ d \in connecting
       THEN UNCHANGED <<connecting, slots>>
       ELSE connecting' = connecting \union {d} /\ BeginConnect(d, TRUE)
    /\ UNCHANGED <<sessions, cancelled, watching, linked, drops, faults, missed>>

ConnectPairedDevice(d) ==
    /\ paired' = paired \union {d}
    /\ IF sessions[d] # 0 \/ d \in connecting
       THEN UNCHANGED <<connecting, slots>>
       ELSE connecting' = connecting \union {d} /\ BeginConnect(d, TRUE)
    /\ UNCHANGED <<sessions, cancelled, watching, linked, drops, faults, missed>>

CancelPendingConnect(d) == cancelled' = cancelled \union {d}

\* CloseSessions: the slots in the table are closed, connects go on.
CloseSessions ==
    LET closing == {sessions[d] : d \in Registered}
        table == [s \in Slots |-> IF s \in closing THEN Closed(slots[s]) ELSE slots[s]]
    IN /\ sessions' = [d \in Devices |-> 0]
       /\ slots' = table /\ linked' = HeldLinks(table)
       /\ drops' = drops \ closing /\ missed' = missed \ closing

UpdatePairedDeviceIds(ids) ==
    /\ paired' = ids /\ connecting' = {}
    /\ CloseSessions /\ StartScan(ids)
    /\ UNCHANGED cancelled

\* A failure that leaves the address claimed.
ReleaseCancelOnly(d) == cancelled' = cancelled \ {d} /\ UNCHANGED connecting
ReleaseAddress(d) == cancelled' = cancelled \ {d} /\ connecting' = connecting \ {d}

(***************************************************************************)
(* The connect.  fail() releases the address and the cancel request,       *)
(* closes the handles and reports the error: on a pool thread the report   *)
(* is posted, on the UI thread it runs at once; what it does then, also to *)
(* posted, is the application's to say.                                    *)
(***************************************************************************)
Fail(s) ==
    LET d == slots[s].device
        table == [slots EXCEPT ![s] = Free]
    IN /\ ReleaseAddress(d)
       /\ slots' = table /\ linked' = HeldLinks(table)
       /\ drops' = drops \ {s} /\ missed' = missed \ {s}
       /\ OnUiThread(s) \/ posted' = Append(posted, [kind |-> "error", device |-> d])
       /\ UNCHANGED <<paired, sessions, watching>>

Proceed == UNCHANGED <<paired, sessions, connecting, cancelled, watching, missed>>
Quietly == UNCHANGED <<linked, drops, posted, faults>>

\* The probe, the removal of a stale bond and FromBluetoothAddressAsync.
OpenDevice(s) ==
    /\ At(s, "opening")
    /\ \/ slots' = [slots EXCEPT ![s].step = "discovering", ![s].tries = 1] /\ Proceed /\ Quietly
       \/ Spend /\ Fail(s)

\* With its handles open, Windows brings the link up (MaintainConnection).
LinkUp(d) ==
    /\ d \notin linked /\ \E s \in Attached : slots[s].device = d
    /\ linked' = linked \union {d}
    /\ UNCHANGED <<paired, sessions, connecting, cancelled, watching, slots, drops, posted,
                   faults, missed>>

\* The top of the discovery loop, up to GetGattServicesAsync.
BeginDiscovery(s) ==
    /\ At(s, "discovering")
    /\ IF slots[s].device \in cancelled
       THEN Fail(s) /\ UNCHANGED faults
       ELSE Goto(s, "services") /\ Proceed /\ Quietly

LastTry(s) == slots[s].tries = DiscoveryAttempts

ServiceFound(s) ==
    /\ slots[s].device \in linked
    /\ Goto(s, "characteristics") /\ Proceed /\ Quietly

\* An exception or the 8 s time limit: one removal of the bond, and the
\* device is opened again.
DiscoveryThrew(s) ==
    /\ Spend
    /\ IF LastTry(s) THEN Fail(s)
       ELSE /\ \E stale \in BOOLEAN :   \* IsLikelyStaleBondError
                   slots' = [slots EXCEPT ![s].step = "reopening",
                                          ![s].unpaired = @ \/ stale]
            /\ drops' = drops \ {s} /\ Proceed /\ UNCHANGED <<linked, posted>>

\* Unreachable, for the first time: the bond is removed and the radio goes
\* off and on, which ends every link.
DiscoveryUnreachable(s) ==
    /\ ~LastTry(s) /\ ~slots[s].unpaired
    /\ Spend
    /\ slots' = [slots EXCEPT ![s].step = "reopening", ![s].unpaired = TRUE]
    /\ linked' = {}
    /\ drops' = (drops \union {t \in Attached : slots[t].device \in linked}) \ {s}
    /\ Proceed /\ UNCHANGED posted

\* Another status, or no VoiceStick service in the result.
ServiceMissing(s) ==
    /\ Spend
    /\ IF LastTry(s) THEN Fail(s)
       ELSE /\ slots' = [slots EXCEPT ![s].step = "discovering", ![s].tries = @ + 1]
            /\ Proceed /\ UNCHANGED <<linked, drops, posted>>

DiscoveryPolled(s) ==
    /\ At(s, "services")
    /\ \/ slots[s].device \in cancelled /\ Fail(s) /\ UNCHANGED faults
       \/ ServiceFound(s)
       \/ DiscoveryThrew(s)
       \/ DiscoveryUnreachable(s)
       \/ ServiceMissing(s)

ReopenDevice(s) ==
    /\ At(s, "reopening")
    /\ \/ /\ slots' = [slots EXCEPT ![s].step = "discovering", ![s].tries = @ + 1]
          /\ Proceed /\ Quietly
       \/ Spend /\ Fail(s)

Ended(s) == slots'[s].step = "free"

\* A step on the link: it goes on, or the call fails and so does the connect.
OverLink(s, from, to) ==
    /\ At(s, from)
    /\ \/ slots[s].device \in linked /\ Goto(s, to) /\ Proceed /\ UNCHANGED <<linked, drops, faults>>
       \/ slots[s].device \in linked /\ Spend /\ Fail(s)
       \/ slots[s].device \notin linked /\ Fail(s) /\ UNCHANGED faults

DiscoverCharacteristics(s) ==
    OverLink(s, "characteristics", "subscribing") /\ (~Ended(s) => UNCHANGED posted)

\* With the state notifications on, the device sends device_info, which
\* Windows sometimes loses.
SubscribeState(s) ==
    /\ OverLink(s, "subscribing", "notified")
    /\ ~Ended(s) =>
       \/ UNCHANGED posted
       \/ posted' = Append(posted, [kind |-> "info", device |-> slots[s].device])

SubscribeAudio(s) ==
    OverLink(s, "notified", "subscribed") /\ (~Ended(s) => UNCHANGED posted)

\* A session another connect left in the table is dropped with its handles.
RegisterSession(s) ==
    /\ At(s, "subscribed")
    /\ LET d == slots[s].device
           old == sessions[d]
       IN /\ sessions' = [sessions EXCEPT ![d] = s]
          /\ connecting' = connecting \ {d}
          /\ slots' = [t \in Slots |-> IF t = s THEN [slots[t] EXCEPT !.step = "registered"]
                                       ELSE IF t = old THEN Closed(slots[t]) ELSE slots[t]]
          /\ drops' = drops \ {old} /\ missed' = missed \ {old}
    /\ UNCHANGED <<paired, cancelled, watching, linked, posted, faults>>

\* PublishConnections off the UI thread.
PublishSession(s) ==
    /\ slots[s].step \in {"registered", "closing"}
    /\ slots' = [slots EXCEPT ![s] = IF At(s, "closing") THEN Free ELSE [@ EXCEPT !.step = "served"]]
    /\ posted' = Append(posted, [kind |-> "connections", devices |-> Registered])
    /\ UNCHANGED <<paired, sessions, connecting, cancelled, watching, linked, drops, faults, missed>>

(***************************************************************************)
(* The loss of a link and its event.                                       *)
(***************************************************************************)
LinkDown(d) ==
    /\ d \in linked /\ Spend
    /\ linked' = linked \ {d}
    /\ drops' = drops \union {s \in Attached : slots[s].device = d}
    /\ UNCHANGED <<paired, sessions, connecting, cancelled, watching, slots, posted, missed>>

\* The comparison with the registered session, the wrong way round.
IsCurrentSwapped(s) == sessions[slots[s].device] # s
\* The event is for the session the table holds.
IsCurrent(s) == sessions[slots[s].device] = s

HandleDeviceDisconnected(s) ==
    /\ s \in drops
    /\ drops' = drops \ {s}
    /\ IF IsCurrent(s)
       THEN LET d == slots[s].device
                table == [slots EXCEPT ![s] = Closed(@)]
            IN /\ sessions' = [sessions EXCEPT ![d] = 0]
               /\ connecting' = connecting \ {d}
               /\ slots' = table /\ linked' = HeldLinks(table)
               /\ missed' = missed \ {s}
               /\ posted' = Append(posted, [kind |-> "rescan"])
       ELSE /\ missed' = missed \union ({s} \ {sessions[d] : d \in Devices})
            /\ UNCHANGED <<sessions, connecting, slots, linked, posted>>
    /\ UNCHANGED <<paired, cancelled, watching, faults>>
===============================================================================
