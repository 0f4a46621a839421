------------------------------ MODULE WinFirmwareInfo ------------------------------
(***************************************************************************)
(* Which firmware is offered to which device on Windows: the manifest      *)
(* check of the coordinator (voice_stick_coordinator.cc), the comparison   *)
(* of versions (firmware_manifest.cc) and what the application shows and   *)
(* asks (win32_app.cc).                                                    *)
(*                                                                         *)
(* Three threads share the state under firmware_mutex_: the UI thread, a   *)
(* detached thread that checks every hour, and the thread of the check     *)
(* itself.  A step is one critical section, or what happens between two.   *)
(* The only critical section that waits is the one that joins the thread   *)
(* of the previous check: while a thread is at its join nobody else gets   *)
(* the mutex.  A snapshot of the information is taken under the mutex and  *)
(* handed to the application after it is released.                         *)
(***************************************************************************)
EXTENDS Naturals, Sequences, FiniteSets, FiniteSetsExt

CONSTANTS
    Devices,
    InitiallyPaired,   \* in the configuration file at the start
    SameHardware,      \* the devices whose hardware is the manifest's
    Reported,          \* firmware versions the devices report
    Releases,          \* versions the manifest may name
    MaxInputs,         \* bound: events, pairings, settings, hours and days
    MaxFaults          \* bound: fetches that fail

ASSUME FirmwareInfoAssumption ==
    /\ InitiallyPaired \subseteq Devices /\ SameHardware \subseteq Devices
    /\ MaxInputs \in Nat /\ MaxFaults \in Nat

-----------------------------------------------------------------------------
(***************************************************************************)
(* Versions.  A version is its numbers and its suffix; suffixes are        *)
(* numbered in their textual order and Plain is none.  A text that does    *)
(* not parse has no numbers.                                               *)
(***************************************************************************)
Plain == 0
Parses(version) == version.numbers # <<>>

NumberAt(version, i) == IF i \in DOMAIN version.numbers THEN version.numbers[i] ELSE 0

VersionLess(left, right) ==
    LET differing == {i \in DOMAIN left.numbers \union DOMAIN right.numbers :
                        NumberAt(left, i) # NumberAt(right, i)}
    IN  IF differing # {}
        THEN NumberAt(left, Min(differing)) < NumberAt(right, Min(differing))
        ELSE /\ left.suffix # Plain
             /\ right.suffix = Plain \/ left.suffix < right.suffix

IsOlderThan(current, latest) ==
    Parses(current) /\ Parses(latest) /\ VersionLess(current, latest)

-----------------------------------------------------------------------------
NoVersion == [numbers |-> <<>>, suffix |-> Plain]   \* the empty text

Threads == {"ui", "hour"}

VARIABLES
    todo,       \* what the UI thread and the hourly thread have yet to do
    check,      \* firmware_manifest_thread_
    inFlight,   \* firmware_manifest_check_in_flight_
    manifest,   \* latest_firmware_manifest_, its version
    fresh,      \* the last check succeeded less than a day ago
    info,       \* firmware_info_by_device_id_
    wanted,     \* pending_firmware_update_prompt_device_ids_
    paired,     \* paired_device_ids_
    shown,      \* firmware_info_map_ of the application
    posted,     \* what other threads posted to the UI thread
    inputs, faults,
    overtaken,  \* history: the last snapshot was taken before another was shown
    pairings, prompted   \* history: how often a device was paired, and asked about

coordinatorVars == <<check, inFlight, manifest, fresh, info, wanted, paired>>
history == <<overtaken, pairings, prompted>>
vars == <<todo, coordinatorVars, shown, posted, inputs, faults, history>>

Unknown == [known |-> FALSE, current |-> NoVersion, latest |-> NoVersion,
            available |-> FALSE, checking |-> FALSE, failed |-> FALSE]

Check(force) == [op |-> "check", force |-> force]
Join == [op |-> "join"]
Refresh == [op |-> "refresh"]
Publish(snapshot, prompts) == [op |-> "publish", info |-> snapshot, prompts |-> prompts]

Init ==
    /\ \E current \in [InitiallyPaired -> Reported \union {NoVersion}] :
         info = [d \in Devices |->
                   IF d \in InitiallyPaired
                   THEN [Unknown EXCEPT !.known = TRUE, !.current = current[d]] ELSE Unknown]
    /\ todo = [t \in Threads |-> IF t = "ui" THEN <<Check(FALSE)>> ELSE <<>>]
    /\ check = [pc |-> "none"] /\ inFlight = FALSE
    /\ manifest = NoVersion /\ fresh = FALSE
    /\ wanted = {} /\ paired = InitiallyPaired
    /\ shown = [d \in Devices |-> Unknown] /\ posted = <<>>
    /\ inputs = 0 /\ faults = 0
    /\ overtaken = FALSE
    /\ pairings = [d \in Devices |-> 0] /\ prompted = [d \in Devices |-> 0]

At(t, op) == todo[t] # <<>> /\ Head(todo[t]).op = op
Then(t, steps) == todo' = [todo EXCEPT ![t] = steps \o Tail(@)]
\* firmware_mutex_ can be had.
Free == \A t \in Threads : ~At(t, "join")
\* A snapshot was taken and the application does not have it yet.
Undelivered == posted # <<>> \/ check.pc = "publish" \/ \E t \in Threads : At(t, "publish")

\* SetFirmwareInfo and ShowFirmwareUpdatePrompt: at once on the UI thread,
\* posted from any other.
Deliver(t, snapshot, prompts) ==
    IF t = "ui"
    THEN /\ shown' = snapshot
         /\ prompted' = [d \in Devices |-> prompted[d] + IF d \in prompts THEN 1 ELSE 0]
         /\ UNCHANGED posted
    ELSE /\ posted' = Append(posted, Publish(snapshot, prompts))
         /\ UNCHANGED <<shown, prompted>>

-----------------------------------------------------------------------------
(***************************************************************************)
(* RefreshFirmwareAvailability.                                            *)
(***************************************************************************)
IsFirmwareHardwareCompatible(d) == d \in SameHardware

Comparable(d) == /\ info[d].known /\ manifest # NoVersion /\ info[d].current # NoVersion
                 /\ IsFirmwareHardwareCompatible(d)

Available(d) == Comparable(d) /\ IsOlderThan(info[d].current, manifest)

RefreshedInfo ==
    [d \in Devices |->
       [info[d] EXCEPT !.latest = IF Comparable(d) THEN manifest ELSE NoVersion,
                       !.available = Available(d)]]

\* ShouldShowFirmwareUpdatePromptAfterPairing decides once for each pairing.
DecidedOnlyWhenCurrent == {d \in wanted : Comparable(d) /\ ~Available(d)}  \* slip
Decided == {d \in wanted : Comparable(d)}

TakeSnapshot ==
    /\ Free
    /\ info' = RefreshedInfo
    /\ wanted' = wanted \ Decided
    /\ overtaken' = Undelivered

RefreshFirmwareAvailability(t) ==
    /\ At(t, "refresh") /\ TakeSnapshot
    /\ Then(t, <<Publish(RefreshedInfo, {d \in wanted : Available(d)})>>)
    /\ UNCHANGED <<check, inFlight, manifest, fresh, paired, shown, posted, inputs, faults,
                   pairings, prompted>>

PublishSnapshot(t) ==
    /\ At(t, "publish")
    /\ Deliver(t, Head(todo[t]).info, Head(todo[t]).prompts)
    /\ Then(t, <<>>)
    /\ UNCHANGED <<coordinatorVars, inputs, faults, overtaken, pairings>>

(***************************************************************************)
(* CheckFirmwareUpdatesIfNeeded.                                           *)
(***************************************************************************)
CheckSkipped(t) ==
    /\ At(t, "check") /\ Free
    /\ inFlight \/ (paired = {} /\ ~Head(todo[t]).force)
    /\ Then(t, <<>>)
    /\ UNCHANGED <<coordinatorVars, shown, posted, inputs, faults, history>>

CacheUsed(t) ==
    /\ At(t, "check") /\ Free
    /\ ~inFlight /\ ~Head(todo[t]).force /\ paired # {} /\ fresh
    /\ Then(t, <<Refresh>>)
    /\ UNCHANGED <<coordinatorVars, shown, posted, inputs, faults, history>>

\* SetFirmwareChecking(true) shows the paired devices only.  The mutex is
\* kept until the thread is joined and started anew.
CheckBegins(t) ==
    /\ At(t, "check") /\ Free
    /\ ~inFlight /\ (Head(todo[t]).force \/ (paired # {} /\ ~fresh))
    /\ inFlight' = TRUE
    /\ info' = [d \in Devices |->
                  IF d \in paired
                  THEN [info[d] EXCEPT !.known = TRUE, !.checking = TRUE, !.failed = FALSE]
                  ELSE info[d]]
    /\ overtaken' = Undelivered
    /\ Deliver(t, [d \in Devices |-> IF d \in paired THEN info'[d] ELSE Unknown], {})
    /\ Then(t, <<Join>>)
    /\ UNCHANGED <<check, manifest, fresh, wanted, paired, inputs, faults, pairings>>

ThreadStarts(t) ==
    /\ At(t, "join") /\ check.pc \in {"none", "done"}
    /\ check' = [pc |-> "fetching"]
    /\ Then(t, <<>>)
    /\ UNCHANGED <<inFlight, manifest, fresh, info, wanted, paired, shown, posted, inputs, faults,
                   history>>

(***************************************************************************)
(* The thread of the check.  show_errors is FALSE: nothing on Windows      *)
(* calls CheckFirmwareUpdatesNow.                                          *)
(***************************************************************************)
Fetched(version) ==
    /\ check.pc = "fetching"
    /\ check' = [pc |-> "apply", version |-> version]
    /\ UNCHANGED <<todo, inFlight, manifest, fresh, info, wanted, paired, shown, posted, inputs,
                   history>>

ManifestFetched == \E version \in Releases : Fetched(version) /\ UNCHANGED faults

Fault == faults < MaxFaults /\ faults' = faults + 1

\* DownloadText: no session, connection, request or response, or an HTTP error.
DownloadFailed == Fetched(NoVersion) /\ Fault

\* ParseFirmwareManifest: no JSON, as when the body was cut, or a field is missing.
ManifestInvalid == Fetched(NoVersion) /\ Fault

InFlightUntilSuccess == inFlight' = (check.version = NoVersion)   \* slip
NoLongerInFlight == inFlight' = FALSE

CheckApplied ==
    /\ check.pc = "apply" /\ Free
    /\ NoLongerInFlight
    /\ LET failed == check.version = NoVersion
       IN  /\ manifest' = IF failed THEN manifest ELSE check.version
           /\ fresh' = (fresh \/ ~failed)
           /\ info' = [d \in Devices |->
                         [info[d] EXCEPT !.checking = FALSE,
                                         !.failed = IF failed THEN @ \/ (info[d].known /\ d \in paired)
                                                    ELSE FALSE]]
    /\ check' = [pc |-> "refresh"]
    /\ UNCHANGED <<todo, wanted, paired, shown, posted, inputs, faults, history>>

CheckRefreshes ==
    /\ check.pc = "refresh" /\ TakeSnapshot
    /\ check' = [pc |-> "publish", info |-> RefreshedInfo,
                 prompts |-> {d \in wanted : Available(d)}]
    /\ UNCHANGED <<todo, inFlight, manifest, fresh, paired, shown, posted, inputs, faults,
                   pairings, prompted>>

CheckDone ==
    /\ check.pc = "publish"
    /\ Deliver("check", check.info, check.prompts)
    /\ check' = [pc |-> "done"]
    /\ UNCHANGED <<todo, inFlight, manifest, fresh, info, wanted, paired, inputs, faults,
                   overtaken, pairings>>

-----------------------------------------------------------------------------
(***************************************************************************)
(* The UI thread: posted messages first, then events and the user.         *)
(***************************************************************************)
UiTakes ==
    /\ todo["ui"] = <<>> /\ posted # <<>>
    /\ shown' = Head(posted).info
    /\ prompted' = [d \in Devices |-> prompted[d] + IF d \in Head(posted).prompts THEN 1 ELSE 0]
    /\ posted' = Tail(posted)
    /\ UNCHANGED <<todo, coordinatorVars, inputs, faults, overtaken, pairings>>

Input(t) == todo[t] = <<>> /\ inputs < MaxInputs /\ inputs' = inputs + 1
UiInput == Input("ui") /\ posted = <<>>

DeviceInfoUntold(d, version) ==                \* slip: nothing is refreshed
    /\ UiInput
    /\ todo' = [todo EXCEPT !["ui"] = <<[op |-> "info", device |-> d, version |-> version]>>]
    /\ UNCHANGED <<coordinatorVars, shown, posted, faults, history>>

\* UpdateDeviceFirmwareInfo waits for the mutex, writes and releases it.
DeviceInfo(d, version) ==
    /\ UiInput
    /\ todo' = [todo EXCEPT !["ui"] = <<[op |-> "info", device |-> d, version |-> version], Refresh>>]
    /\ UNCHANGED <<coordinatorVars, shown, posted, faults, history>>

UpdateDeviceFirmwareInfo ==
    /\ At("ui", "info") /\ Free
    /\ LET event == Head(todo["ui"])
       IN  info' = [info EXCEPT ![event.device].known = TRUE,
                                ![event.device].current = event.version,
                                ![event.device].failed = FALSE]
    /\ Then("ui", <<>>)
    /\ UNCHANGED <<check, inFlight, manifest, fresh, wanted, paired, shown, posted, inputs, faults,
                   history>>

ConnectionsChanged ==
    /\ UiInput /\ todo' = [todo EXCEPT !["ui"] = <<Refresh>>]
    /\ UNCHANGED <<coordinatorVars, shown, posted, faults, history>>

\* HandlePairingCompleted: ConfirmPairedDeviceIds, then CheckFirmwareAfterPairing.
PairingCompleted(d) ==
    /\ UiInput /\ d \notin paired
    /\ paired' = paired \union {d}
    /\ pairings' = [pairings EXCEPT ![d] = @ + 1]
    /\ todo' = [todo EXCEPT !["ui"] = <<Check(FALSE), [op |-> "want", device |-> d], Check(TRUE),
                                     Refresh>>]
    /\ UNCHANGED <<check, inFlight, manifest, fresh, info, wanted, shown, posted, faults,
                   overtaken, prompted>>

CheckFirmwareAfterPairing ==
    /\ At("ui", "want") /\ Free
    /\ wanted' = wanted \union {Head(todo["ui"]).device}
    /\ Then("ui", <<>>)
    /\ UNCHANGED <<check, inFlight, manifest, fresh, info, paired, shown, posted, inputs, faults,
                   history>>

\* UpdateConfig with another list of devices.
ConfigChanged(devices) ==
    /\ UiInput /\ devices # paired
    /\ paired' = devices
    /\ todo' = [todo EXCEPT !["ui"] = <<Check(FALSE)>>]
    /\ UNCHANGED <<check, inFlight, manifest, fresh, info, wanted, shown, posted, faults, history>>

HourPasses ==
    /\ Input("hour") /\ todo' = [todo EXCEPT !["hour"] = <<Check(FALSE)>>]
    /\ UNCHANGED <<coordinatorVars, shown, posted, faults, history>>

DayPasses ==
    /\ fresh /\ fresh' = FALSE
    /\ inputs < MaxInputs /\ inputs' = inputs + 1
    /\ UNCHANGED <<todo, check, inFlight, manifest, info, wanted, paired, shown, posted, faults,
                   history>>

-----------------------------------------------------------------------------
ThreadStep(t) == \/ CheckSkipped(t) \/ CacheUsed(t) \/ CheckBegins(t) \/ ThreadStarts(t)
                 \/ RefreshFirmwareAvailability(t) \/ PublishSnapshot(t)
UiStep == ThreadStep("ui") \/ UiTakes \/ UpdateDeviceFirmwareInfo \/ CheckFirmwareAfterPairing
CheckStep == ManifestFetched \/ DownloadFailed \/ ManifestInvalid \/ CheckApplied \/ CheckRefreshes \/ CheckDone

Environment ==
    \/ \E d \in Devices, version \in Reported : DeviceInfo(d, version)
    \/ ConnectionsChanged
    \/ \E d \in Devices : PairingCompleted(d)
    \/ \E devices \in SUBSET Devices : ConfigChanged(devices)
    \/ HourPasses \/ DayPasses

Next == UiStep \/ ThreadStep("hour") \/ CheckStep \/ Environment

Spec == Init /\ [][Next]_vars
FairSpec == Spec /\ WF_vars(UiStep) /\ WF_vars(ThreadStep("hour")) /\ WF_vars(CheckStep)

-----------------------------------------------------------------------------
Versions == Reported \union Releases \union {NoVersion}
Snapshots == [Devices -> [known : BOOLEAN, current : Versions, latest : Versions,
                          available : BOOLEAN, checking : BOOLEAN, failed : BOOLEAN]]
Publishing == [op : {"publish"}, info : Snapshots, prompts : SUBSET Devices]
Steps == [op : {"check"}, force : BOOLEAN] \union [op : {"join", "refresh"}] \union Publishing
           \union [op : {"info"}, device : Devices, version : Versions]
           \union [op : {"want"}, device : Devices]

TypeOK ==
    /\ todo \in [Threads -> Seq(Steps)]
    /\ check \in [pc : {"none", "fetching", "refresh", "done"}]
                   \union [pc : {"apply"}, version : Versions]
                   \union [pc : {"publish"}, info : Snapshots, prompts : SUBSET Devices]
    /\ inFlight \in BOOLEAN /\ fresh \in BOOLEAN /\ overtaken \in BOOLEAN
    /\ manifest \in Versions
    /\ info \in Snapshots /\ shown \in Snapshots
    /\ wanted \subseteq Devices /\ paired \subseteq Devices
    /\ posted \in Seq(Publishing)
    /\ inputs \in 0..MaxInputs /\ faults \in 0..MaxFaults
    /\ pairings \in [Devices -> Nat] /\ prompted \in [Devices -> Nat]

\* A device is asked about at most once for each time it was paired, though
\* two threads may evaluate the same pending prompt.
PromptedOnce == \A d \in Devices : prompted[d] <= pairings[d]

Quiet == /\ \A t \in Threads : todo[t] = <<>>
         /\ check.pc \in {"none", "done"} /\ posted = <<>>

\* When nothing is under way, the menu shows what the coordinator knows, unless
\* the last snapshots were delivered in another order than they were taken.
ShownSettles == Quiet => overtaken \/ shown = info

\* A thread that holds the mutex waits for the check, which waits for the mutex
\* (voice_stick_coordinator.cc:1166 and 1209).
Stuck == ~Free /\ check.pc = "refresh"

\* Manifest checks never stop the UI thread for good.  Does not hold.
NeverStuck == ~Stuck

\* Whatever comes together, everything that was begun ends and another check
\* may begin, also after a fetch that failed, unless two threads are stuck.
ChecksEnd == []<>(Stuck \/ (Quiet /\ ~inFlight))
=============================================================================
