-------------------------------- MODULE WinPairing --------------------------------
(***************************************************************************)
(* Pairing on Windows: the dialog (pair_device_dialog.cc), the application *)
(* (win32_app.cc) and the coordinator's list of paired devices             *)
(* (voice_stick_coordinator.cc), composed with the BLE central.            *)
(*                                                                         *)
(* The list is kept four times: by the central (paired), by the            *)
(* coordinator (confirmed: paired_device_ids_, which the application       *)
(* follows), in the coordinator's copy of the configuration (configured)   *)
(* and in the configuration file (file).                                   *)
(*                                                                         *)
(* One action is one message the UI thread handles, or one step of a       *)
(* connect.  Windows gives a thread its posted messages first, then input, *)
(* then timers: what the user does waits for posted to be empty.           *)
(***************************************************************************)
EXTENDS WinBleCentral

CONSTANTS
    InitiallyPaired,    \* paired_device_ids of the file at the start
    MaxInputs           \* bound: pairings begun, dialogs closed, devices forgotten

ASSUME PairingAssumption ==
    /\ InitiallyPaired \subseteq Devices /\ MaxInputs \in Nat
    /\ \E own \in [InitiallyPaired -> Slots] :   \* a slot for each of them
         \A d, e \in InitiallyPaired : own[d] = own[e] => d = e

VARIABLES
    dialog,      \* a pair_device_dialog_ is shown
    listed,      \* devices_ of the dialog
    pairing,     \* pairing_device_id_
    finalizing,  \* the 2.5 s timer that ends a pairing whose device connected
    entry,       \* pending_pairing_entry_ of the application
    confirmed, configured, file,
    inputs,      \* what the user did so far
    disturbed,   \* history: a connect or a pairing under way was overtaken or given up
    answered     \* history: devices that connected or sent their device_info

appVars == <<dialog, listed, pairing, finalizing, entry, confirmed, configured, file,
             inputs, disturbed>>
vars == <<centralVars, appVars, answered>>

Message ==
    [kind : {"error", "info", "dialog_info"}, device : Devices]
        \union [kind : {"rescan", "dialog_connected", "dialog_error"}]
        \union [kind : {"connections"}, devices : SUBSET Devices]

TypeOK ==
    /\ CentralTypeOK
    /\ dialog \in BOOLEAN /\ finalizing \in BOOLEAN
    /\ listed \subseteq Devices
    /\ pairing \in Devices \union {NoDevice} /\ entry \in Devices \union {NoDevice}
    /\ confirmed \subseteq Devices /\ configured \subseteq Devices /\ file \subseteq Devices
    /\ inputs \in 0..MaxInputs
    /\ posted \in Seq(Message)

Init ==
    /\ CentralInit(InitiallyPaired)
    /\ dialog = FALSE /\ listed = {} /\ pairing = NoDevice /\ finalizing = FALSE
    /\ entry = NoDevice
    /\ confirmed = InitiallyPaired /\ configured = InitiallyPaired /\ file = InitiallyPaired
    /\ inputs = 0 /\ disturbed = {} /\ answered = InitiallyPaired

Pairing == dialog /\ pairing # NoDevice
\* Devices whose connect or pairing is under way.
UnderWay == {d \in Devices : Running(d) # {} \/ (Pairing /\ pairing = d)}

(***************************************************************************)
(* What the central and the coordinator tell the dialog: each checks the   *)
(* device, then posts to the dialog.                                       *)
(***************************************************************************)
AnyConnected(devices) == Pairing /\ devices # {}   \* any device counts
OwnConnected(devices) == Pairing /\ pairing \in devices

SetConnectedDevices(devices, queue) ==
    IF OwnConnected(devices) THEN Append(queue, [kind |-> "dialog_connected"]) ELSE queue

SetDeviceInfo(d, queue) ==
    IF Pairing /\ pairing = d THEN Append(queue, [kind |-> "dialog_info", device |-> d]) ELSE queue

SetPairingError(d) ==
    /\ entry' = IF entry = d THEN NoDevice ELSE entry
    /\ posted' = IF Pairing /\ pairing = d
                 THEN Append(posted, [kind |-> "dialog_error"]) ELSE posted
    /\ UNCHANGED <<dialog, listed, pairing, finalizing, confirmed, configured, file, inputs,
                   disturbed>>

(***************************************************************************)
(* The end of a pairing.                                                   *)
(***************************************************************************)
CloseDialog == dialog' = FALSE /\ listed' = {} /\ pairing' = NoDevice /\ finalizing' = FALSE

\* The application's copy of the configuration has the list of confirmed.
SavePairedDevice(d) == file' = confirmed \union {d}
RemoveSavedDevice(d) == file' = confirmed \ {d}

ConfirmPairedDeviceIds(devices) == confirmed' = devices /\ configured' = devices

\* FinalizePairing and HandlePairingCompleted.  When an error took the entry
\* meanwhile, the dialog ends and nothing is saved.
FinalizePairing ==
    /\ IF entry = pairing
       THEN /\ SavePairedDevice(pairing)
            /\ ConfirmPairedDeviceIds(confirmed \union {pairing})
            /\ entry' = NoDevice /\ UNCHANGED disturbed
       ELSE /\ disturbed' = disturbed \union {pairing}
            /\ UNCHANGED <<file, confirmed, configured, entry>>
    /\ CloseDialog

\* The dialog is ready for another try: StartScan clears its list.
ScanAgain == /\ pairing' = NoDevice /\ finalizing' = FALSE /\ listed' = {}
             /\ disturbed' = disturbed \union ({pairing} \ {NoDevice})
             /\ UNCHANGED <<dialog, confirmed, configured, file, inputs>>

(***************************************************************************)
(* The UI thread takes the first posted message.                           *)
(***************************************************************************)
Rest == Tail(posted)
Next1(kind) == posted # <<>> /\ Head(posted).kind = kind
CentralStill == UNCHANGED <<paired, sessions, connecting, cancelled, watching, slots, linked,
                            drops, faults, missed>>

Rescan ==
    /\ Next1("rescan")
    /\ posted' = SetConnectedDevices(Registered, Rest)
    /\ StartScan(paired)
    /\ UNCHANGED <<paired, sessions, connecting, cancelled, slots, linked, drops, missed, appVars>>

ConnectionsChanged ==
    /\ Next1("connections")
    /\ posted' = SetConnectedDevices(Head(posted).devices, Rest)
    /\ CentralStill /\ UNCHANGED appVars

\* HandleStateEvent: the dialog is told, and UpdateDeviceFirmwareInfo saves
\* the coordinator's configuration with the device in it.
DeviceInfoEvent ==
    /\ Next1("info")
    /\ LET d == Head(posted).device
       IN /\ posted' = SetDeviceInfo(d, Rest)
          /\ configured' = configured \union {d}
          /\ file' = configured \union {d}
    /\ CentralStill
    /\ UNCHANGED <<dialog, listed, pairing, finalizing, entry, confirmed, inputs, disturbed>>

ConnectionError ==
    /\ Next1("error")
    /\ LET d == Head(posted).device
       IN /\ entry' = IF entry = d THEN NoDevice ELSE entry
          /\ posted' = IF Pairing /\ pairing = d
                       THEN Append(Rest, [kind |-> "dialog_error"]) ELSE Rest
    /\ CentralStill
    /\ UNCHANGED <<dialog, listed, pairing, finalizing, confirmed, configured, file, inputs,
                   disturbed>>

HandlePairingConnected ==
    /\ Next1("dialog_connected") /\ posted' = Rest
    /\ finalizing' = (finalizing \/ Pairing)
    /\ CentralStill
    /\ UNCHANGED <<dialog, listed, pairing, entry, confirmed, configured, file, inputs, disturbed>>

HandlePairingSucceeded ==
    /\ Next1("dialog_info") /\ posted' = Rest
    /\ IF Pairing /\ pairing = Head(posted).device
       THEN FinalizePairing
       ELSE UNCHANGED <<dialog, listed, pairing, finalizing, entry, confirmed, configured, file,
                        disturbed>>
    /\ CentralStill /\ UNCHANGED inputs

HandlePairingError ==
    /\ Next1("dialog_error") /\ posted' = Rest
    /\ IF dialog THEN ScanAgain
       ELSE UNCHANGED <<dialog, listed, pairing, finalizing, confirmed, configured, file, inputs,
                        disturbed>>
    /\ CentralStill /\ UNCHANGED entry

(***************************************************************************)
(* The dialog's timers.                                                    *)
(***************************************************************************)
HandlePairingFinalize ==
    /\ posted = <<>> /\ Pairing /\ finalizing
    /\ FinalizePairing
    /\ CentralStill /\ UNCHANGED <<posted, inputs>>

TimedOutDevice == pairing

HandlePairingTimeout ==
    /\ posted = <<>> /\ Pairing
    /\ ScanAgain
    /\ entry' = NoDevice /\ CancelPendingConnect(TimedOutDevice)
    /\ UNCHANGED <<posted, paired, sessions, connecting, watching, slots, linked, drops, faults,
                   missed>>

(***************************************************************************)
(* What the user does.                                                     *)
(***************************************************************************)
Input == posted = <<>> /\ inputs < MaxInputs /\ inputs' = inputs + 1

ShowPairDeviceDialog ==
    /\ posted = <<>> /\ ~dialog
    /\ dialog' = TRUE /\ listed' = {} /\ pairing' = NoDevice /\ finalizing' = FALSE
    /\ CentralStill /\ UNCHANGED <<posted, entry, confirmed, configured, file, inputs, disturbed>>

\* The dialog's own scan lists what is not paired yet.
DialogAdvertisement(d) ==
    /\ dialog /\ pairing = NoDevice /\ Advertises(d)
    /\ d \notin confirmed \union listed
    /\ listed' = listed \union {d}
    /\ CentralStill
    /\ UNCHANGED <<posted, dialog, pairing, finalizing, entry, confirmed, configured, file, inputs,
                   disturbed>>

\* BeginPairing, PairDevice and the central's ConnectPairedDevice.
PairSelectedDevice(d) ==
    /\ Input /\ dialog /\ pairing = NoDevice /\ d \in listed
    /\ pairing' = d /\ entry' = d
    /\ ConnectPairedDevice(d)
    /\ UNCHANGED <<posted, dialog, listed, finalizing, confirmed, configured, file, disturbed>>

\* Cancel: nothing but the dialog ends.
Close ==
    /\ Input /\ dialog
    /\ CloseDialog
    /\ disturbed' = disturbed \union ({pairing} \ {NoDevice})
    /\ CentralStill /\ UNCHANGED <<posted, entry, confirmed, configured, file>>

\* Forget in the tray menu, which opens beside the dialog: the coordinator's
\* RemovePairedDevice, then the application's configuration is saved.
RemovePairedDevice(d) ==
    /\ Input /\ d \in confirmed
    /\ confirmed' = confirmed \ {d} /\ configured' = confirmed \ {d}
    /\ RemoveSavedDevice(d)
    /\ UpdatePairedDeviceIds(confirmed \ {d})
    /\ disturbed' = disturbed \union UnderWay
    /\ UNCHANGED <<posted, dialog, listed, pairing, finalizing, entry>>
-----------------------------------------------------------------------------
Remember ==
    answered' = answered
        \union {d \in Devices : sessions'[d] # 0}
        \union {posted'[i].device : i \in {j \in 1..Len(posted') : posted'[j].kind = "info"}}

UiMessage ==
    /\ \/ Rescan \/ ConnectionsChanged \/ DeviceInfoEvent \/ ConnectionError
       \/ HandlePairingConnected \/ HandlePairingSucceeded \/ HandlePairingError
       \/ HandlePairingFinalize \/ HandlePairingTimeout
    /\ Remember

User ==
    /\ \/ ShowPairDeviceDialog \/ Close
       \/ \E d \in Devices : PairSelectedDevice(d) \/ RemovePairedDevice(d) \/ DialogAdvertisement(d)
    /\ Remember

\* A connect that fails on the UI thread reports to the application at once.
ConnectStep(s) ==
    /\ OpenDevice(s) \/ BeginDiscovery(s) \/ DiscoveryPolled(s) \/ ReopenDevice(s)
    /\ IF OnUiThread(s) /\ Ended(s) THEN SetPairingError(slots[s].device) ELSE UNCHANGED appVars
    /\ Remember

BackgroundStep(s) ==
    /\ \/ DiscoverCharacteristics(s) \/ SubscribeState(s) \/ SubscribeAudio(s)
       \/ RegisterSession(s) \/ PublishSession(s)
    /\ UNCHANGED appVars /\ Remember

Disconnected(s) == HandleDeviceDisconnected(s) /\ UNCHANGED appVars /\ Remember
Radio(d) == (HandleAdvertisement(d) \/ LinkUp(d)) /\ UNCHANGED appVars /\ Remember
Loss(d) == LinkDown(d) /\ UNCHANGED appVars /\ Remember

Next ==
    \/ UiMessage \/ User
    \/ \E s \in Slots : ConnectStep(s) \/ BackgroundStep(s) \/ Disconnected(s)
    \/ \E d \in Devices : Radio(d) \/ Loss(d)

Spec == Init /\ [][Next]_vars

\* The message loop, the coroutines and the event threads run; a device that
\* is not connected goes on advertising.
Fairness ==
    /\ WF_vars(UiMessage)
    /\ \A s \in Slots : WF_vars(ConnectStep(s) \/ BackgroundStep(s)) /\ WF_vars(Disconnected(s))
    /\ \A d \in Devices : WF_vars(Radio(d))

FairSpec == Spec /\ Fairness

(***************************************************************************)
(* Properties                                                              *)
(***************************************************************************)
\* While the list of paired devices is left alone, a device has one connect
\* or one session, never two: the address is claimed, handed to the session
\* and released across three threads.
OneConnect ==
    \A d \in Devices \ disturbed :
        /\ Cardinality(Running(d)) <= 1
        /\ sessions[d] # 0 => Running(d) = {}

\* The four copies of the list agree on every device that is not being
\* paired, and was not when the list was replaced: a device the user paired
\* is reconnected, and is still paired after a restart.
ListsAgree ==
    \A d \in Devices \ disturbed :
        ~(Pairing /\ pairing = d) =>
            /\ d \in confirmed <=> d \in file
            /\ d \in confirmed <=> d \in configured
            /\ d \in confirmed <=> d \in paired

\* A session whose link is lost leaves the table, or its event is still to
\* run; the exception is an event that came before the session was in the
\* table.
LostIsForgotten ==
    \A d \in Registered :
        d \notin linked => sessions[d] \in drops \union missed

\* A device enters the list only after it answered: the dialog's messages
\* carry no device, and other devices connect while one is paired.
SavedHasAnswered ==
    [][\A d \in confirmed' \ confirmed : d \in answered]_vars

\* However connects fail and links drop, in the end every paired device in
\* reach is connected again, as long as Windows lets the scan run.
Reconnects ==
    []<>(\A d \in confirmed \ disturbed : watching => sessions[d] # 0 /\ d \in linked)

\* docs/protocol.md: the app only connects to devices whose ID is in the
\* list of paired devices.
OnlyPairedServed ==
    \A d \in Registered : d \in confirmed \/ (Pairing /\ pairing = d)
===============================================================================
