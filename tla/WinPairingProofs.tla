-------------------------- MODULE WinPairingProofs --------------------------
(***************************************************************************)
(* Proofs about WinPairing and the central it is composed with, for any    *)
(* devices, any number of connects, failures and things the user does.     *)
(*                                                                         *)
(* PInv is the inductive invariant.  SlotInv and LinkInv are about the     *)
(* central alone: what a slot of the table of sessions may be, and which   *)
(* slots have heard of a lost link.  ConnectInv, OwnedInv, ListsAgree and  *)
(* AnsweredInv relate them to the pairing and to the messages that are     *)
(* still to be handled.                                                    *)
(***************************************************************************)
EXTENDS WinPairing, FiniteSetTheorems, TLAPS

\* What is in a queue, in whatever order.
Messages(q) == {q[i] : i \in 1..Len(q)}

SlotInv ==
  /\ \A s \in Slots : slots[s].step = "free" <=> slots[s].device = NoDevice
  /\ \A s \in Slots : slots[s].step = "reopening" => slots[s].tries < DiscoveryAttempts
  /\ drops \subseteq Attached
  /\ \A d \in Registered :
       slots[sessions[d]].device = d /\ slots[sessions[d]].step \in {"registered", "served"}

\* Steps that begin with a link, or need one.
Late == {"characteristics", "subscribing", "notified", "subscribed", "registered", "served"}

LinkInv ==
  \A s \in Slots :
    slots[s].step \in Late /\ slots[s].device \notin linked => s \in drops \union missed

\* An address is claimed as long as its one connect runs.
ConnectInv ==
  \A d \in Devices \ disturbed :
    /\ \A s, t \in Running(d) : s = t
    /\ Running(d) # {} => d \in connecting /\ sessions[d] = 0

\* Whom the user wants: who is paired, or is being paired.
Theirs(d) == d \in confirmed \/ (Pairing /\ pairing = d)
OwnedInv ==
  /\ \A d \in Devices \ disturbed : Running(d) # {} => Theirs(d)
  /\ \A m \in Messages(posted) :
       m.kind = "info" /\ m.device \notin disturbed => Theirs(m.device)
  /\ Pairing /\ pairing \notin disturbed => pairing \in paired

\* What tells the dialog of a connected device comes from a device that answered.
AnsweredInv ==
  /\ Registered \subseteq answered
  /\ \A m \in Messages(posted) :
       /\ m.kind \in {"info", "dialog_info"} => m.device \in answered
       /\ m.kind = "connections" => m.devices \subseteq answered
       /\ m.kind = "dialog_connected" /\ Pairing => pairing \in answered
  /\ finalizing => Pairing /\ pairing \in answered

PInv == TypeOK /\ SlotInv /\ LinkInv /\ ConnectInv /\ OwnedInv /\ ListsAgree /\ AnsweredInv

CInv == CentralTypeOK /\ SlotInv /\ LinkInv

-----------------------------------------------------------------------------
(***************************************************************************)
(* The message queue                                                       *)
(***************************************************************************)
LEMMA MessagesFacts ==
  ASSUME NEW S, NEW q \in Seq(S)
  PROVE  /\ Messages(q) \subseteq S
         /\ q # <<>> => /\ Head(q) \in Messages(q) /\ Tail(q) \in Seq(S)
                        /\ Messages(Tail(q)) \subseteq Messages(q)
         /\ \A m \in S : Append(q, m) \in Seq(S) /\ Messages(Append(q, m)) = Messages(q) \union {m}
<1>1. Messages(q) \subseteq S
  BY DEF Messages
<1>2. ASSUME q # <<>>
      PROVE  Head(q) \in Messages(q) /\ Tail(q) \in Seq(S)
             /\ Messages(Tail(q)) \subseteq Messages(q)
  <2>1. Tail(q) \in Seq(S) /\ 1 \in 1..Len(q) /\ Head(q) = q[1]
    BY <1>2
  <2>2. \A i \in 1..Len(Tail(q)) : i + 1 \in 1..Len(q) /\ Tail(q)[i] = q[i + 1]
    BY <1>2
  <2> QED
    BY <2>1, <2>2 DEF Messages
<1>3. ASSUME NEW m \in S
      PROVE  Append(q, m) \in Seq(S) /\ Messages(Append(q, m)) = Messages(q) \union {m}
  <2>1. Append(q, m) \in Seq(S) /\ Len(Append(q, m)) = Len(q) + 1 /\ Len(q) \in Nat
    OBVIOUS
  <2>2. /\ \A i \in 1..Len(q) : Append(q, m)[i] = q[i] /\ i \in 1..(Len(q) + 1)
        /\ Append(q, m)[Len(q) + 1] = m /\ Len(q) + 1 \in 1..(Len(q) + 1)
        /\ \A i \in 1..(Len(q) + 1) : i \in 1..Len(q) \/ i = Len(q) + 1
    OBVIOUS
  <2> QED
    BY <2>1, <2>2 DEF Messages
<1> QED
  BY <1>1, <1>2, <1>3

LEMMA NoMessages == Messages(<<>>) = {}
<1>1. 1..Len(<<>>) = {}
  OBVIOUS
<1> QED
  BY <1>1 DEF Messages

-----------------------------------------------------------------------------
(***************************************************************************)
(* The central                                                             *)
(***************************************************************************)
LEMMA SlotFacts ==
  ASSUME CInv, NEW s \in Slots
  PROVE  /\ slots[s] \in SlotType /\ s # 0
         /\ slots[s].step # "free" => slots[s].device \in Devices
         /\ slots[s].step \in Steps => s \in Running(slots[s].device)
         /\ slots[s].step \in Steps => \A d \in Devices : sessions[d] # s
BY CentralAssumption DEF CInv, CentralTypeOK, SlotInv, SlotType, Running, Registered, Steps

\* A step that leaves the slots and the links alone.
LEMMA CentralKept ==
  ASSUME CInv, UNCHANGED <<sessions, slots, linked, drops, missed>>,
         paired' \subseteq Devices, connecting' \subseteq Devices, cancelled' \subseteq Devices,
         watching' \in BOOLEAN, faults' \in 0..MaxFaults
  PROVE  CInv' /\ Registered' = Registered /\ \A d : Running(d)' = Running(d)
<1>1. CentralTypeOK'
  BY DEF CInv, CentralTypeOK
<1>2. SlotInv' /\ LinkInv'
  BY DEF CInv, SlotInv, LinkInv, Attached, Registered
<1> QED
  BY <1>1, <1>2 DEF CInv, Registered, Running

LEMMA SpendTyped ==
  ASSUME CentralTypeOK, Spend
  PROVE  faults' \in 0..MaxFaults
<1>1. faults \in 0..MaxFaults /\ MaxFaults \in Nat /\ faults < MaxFaults /\ faults' = faults + 1
  BY CentralAssumption DEF CentralTypeOK, Spend
<1> QED
  BY <1>1

\* A connect that goes on.
Goes(s) ==
  UNCHANGED <<paired, sessions, connecting>> /\ \A d : Running(d)' = Running(d)

LEMMA SlotGoes ==
  ASSUME CInv, NEW s \in Slots, slots[s].step \in Steps, NEW new \in SlotType,
         slots' = [slots EXCEPT ![s] = new], new.step \in Steps,
         new.device = slots[s].device,
         new.step = "reopening" => new.tries < DiscoveryAttempts,
         UNCHANGED <<paired, sessions, connecting, cancelled, watching, missed>>,
         linked' \subseteq Devices, faults' \in 0..MaxFaults,
         drops' \subseteq Slots, drops' \subseteq Attached', LinkInv'
  PROVE  CInv' /\ Goes(s)
<1>1. slots \in [Slots -> SlotType]
  BY DEF CInv, CentralTypeOK
<1>2. slots' \in [Slots -> SlotType] /\ slots'[s] = new /\ \A t \in Slots : t # s => slots'[t] = slots[t]
  BY <1>1
<1>3. CentralTypeOK'
  BY <1>2 DEF CInv, CentralTypeOK
<1>4. \A d \in Devices : sessions[d] # s
  BY SlotFacts
<1>5. SlotInv'
  <2>1. \A t \in Slots : slots'[t].step = "free" <=> slots'[t].device = NoDevice
    BY <1>2 DEF CInv, SlotInv, Steps
  <2>2. \A t \in Slots : slots'[t].step = "reopening" => slots'[t].tries < DiscoveryAttempts
    BY <1>2 DEF CInv, SlotInv
  <2>3. \A d \in Registered' : sessions'[d] = sessions[d] /\ sessions[d] \in Slots /\ d \in Registered
    BY DEF CInv, CentralTypeOK, Registered
  <2>4. \A d \in Registered' : slots'[sessions'[d]].device = d
                               /\ slots'[sessions'[d]].step \in {"registered", "served"}
    BY <1>2, <1>4, <2>3 DEF CInv, SlotInv, Registered
  <2> QED
    BY <2>1, <2>2, <2>4 DEF SlotInv
<1>6. \A d : Running(d)' = Running(d)
  BY <1>2 DEF Running
<1> QED
  BY <1>3, <1>5, <1>6 DEF CInv, Goes

\* A connect that has failed.
Ends(s) ==
  /\ UNCHANGED <<paired, sessions>> /\ connecting' = connecting \ {slots[s].device}
  /\ \A d \in Devices : Running(d)' = Running(d) \ {s}
  /\ slots[s].device \in Devices /\ s \in Running(slots[s].device)

LEMMA SlotEnds ==
  ASSUME CInv, NEW s \in Slots, slots[s].step \in Steps, Fail(s), faults' \in 0..MaxFaults
  PROVE  CInv' /\ Ends(s) /\ Ended(s)
<1> DEFINE table == [slots EXCEPT ![s] = Free]
<1>1. slots \in [Slots -> SlotType] /\ Free \in SlotType /\ Free.step = "free"
      /\ Free.device = NoDevice
  BY CentralAssumption DEF CInv, CentralTypeOK, Free, SlotType
<1>2. /\ slots' = table /\ table \in [Slots -> SlotType] /\ table[s] = Free
      /\ \A t \in Slots : t # s => table[t] = slots[t]
  BY <1>1 DEF Fail
<1> HIDE DEF table
<1>3. /\ linked' = HeldLinks(table) /\ linked' \subseteq linked
      /\ drops' = drops \ {s} /\ missed' = missed \ {s}
      /\ UNCHANGED <<paired, sessions, watching>>
      /\ cancelled' = cancelled \ {slots[s].device} /\ connecting' = connecting \ {slots[s].device}
  BY DEF Fail, ReleaseAddress, HeldLinks, table
<1>4. CentralTypeOK'
  BY <1>2, <1>3 DEF CInv, CentralTypeOK
<1>5. \A d \in Devices : sessions[d] # s
  BY SlotFacts
<1>6. SlotInv'
  <2>1. \A t \in Slots : slots'[t].step = "free" <=> slots'[t].device = NoDevice
    BY <1>1, <1>2 DEF CInv, SlotInv
  <2>2. \A t \in Slots : slots'[t].step = "reopening" => slots'[t].tries < DiscoveryAttempts
    BY <1>1, <1>2 DEF CInv, SlotInv
  <2>3. \A d \in Registered' : sessions'[d] = sessions[d] /\ sessions[d] \in Slots /\ d \in Registered
    BY <1>3 DEF CInv, CentralTypeOK, Registered
  <2>4. \A d \in Registered' : slots'[sessions'[d]].device = d
                               /\ slots'[sessions'[d]].step \in {"registered", "served"}
    BY <1>2, <1>5, <2>3 DEF CInv, SlotInv, Registered
  <2>5. drops' \subseteq Attached'
    BY <1>2, <1>3 DEF CInv, SlotInv, Attached
  <2> QED
    BY <2>1, <2>2, <2>4, <2>5 DEF SlotInv
<1>7. LinkInv'
  <2> SUFFICES ASSUME NEW t \in Slots, slots'[t].step \in Late, slots'[t].device \notin linked'
               PROVE  t \in drops' \union missed'
    BY DEF LinkInv
  <2>1. t # s /\ slots'[t] = slots[t]
    BY <1>1, <1>2 DEF Late
  <2>2. slots[t].device \notin linked
    BY <1>2, <1>3, <2>1 DEF HeldLinks, Late
  <2> QED
    BY <1>3, <2>1, <2>2 DEF CInv, LinkInv
<1>8. \A d \in Devices : Running(d)' = Running(d) \ {s}
  BY <1>1, <1>2, CentralAssumption DEF Running
<1> QED
  BY <1>1, <1>2, <1>3, <1>4, <1>6, <1>7, <1>8, SlotFacts DEF CInv, Ends, Ended, Steps

\* A step of a connect: it goes on, perhaps with news of its device, or it fails.
ErrorOf(s) == [kind |-> "error", device |-> slots[s].device]
InfoOf(s) == [kind |-> "info", device |-> slots[s].device]
Moved(s) ==
  /\ s \in Running(slots[s].device) /\ slots[s].device \in Devices
  /\ \/ Goes(s) /\ ~Ended(s) /\ (posted' = posted \/ posted' = Append(posted, InfoOf(s)))
     \/ Ends(s) /\ Ended(s) /\ (OnUiThread(s) \/ posted' = Append(posted, ErrorOf(s)))

LEMMA FailMoved ==
  ASSUME CInv, NEW s \in Slots, slots[s].step \in Steps, Fail(s), faults' \in 0..MaxFaults
  PROVE  CInv' /\ Moved(s)
BY SlotEnds, SlotFacts DEF Moved, Fail, Ends, ErrorOf

\* The connect goes on without a change of the links.
LEMMA StepMoved ==
  ASSUME CInv, NEW s \in Slots, slots[s].step \in Steps, NEW new \in SlotType,
         slots' = [slots EXCEPT ![s] = new], new.step \in Steps,
         new.device = slots[s].device,
         new.step = "reopening" => new.tries < DiscoveryAttempts,
         Proceed, linked' = linked, faults' \in 0..MaxFaults,
         posted' = posted \/ posted' = Append(posted, InfoOf(s)),
         \/ drops' = drops \ {s} /\ new.step \notin Late
         \/ drops' = drops /\ new.step \notin {"opening", "reopening"} /\ new.step \notin Late
         \/ drops' = drops /\ new.step \in Late /\ slots[s].device \in linked
  PROVE  CInv' /\ Moved(s)
<1>1. slots \in [Slots -> SlotType] /\ linked \subseteq Devices /\ drops \subseteq Slots
  BY DEF CInv, CentralTypeOK
<1>2. slots'[s] = new /\ \A t \in Slots : t # s => slots'[t] = slots[t]
  BY <1>1
<1>3. UNCHANGED <<paired, sessions, connecting, cancelled, watching, missed>>
  BY DEF Proceed
<1>4. drops' \subseteq Attached'
  <2>1. drops' \subseteq drops /\ (s \in drops' => new.step \notin {"free", "opening", "reopening", "closing"})
    BY DEF Late, Steps
  <2>2. \A t \in drops : slots[t].step \notin {"free", "opening", "reopening", "closing"}
    BY DEF CInv, SlotInv, Attached
  <2>3. \A t \in drops' : slots'[t].step \notin {"free", "opening", "reopening", "closing"}
    BY <1>1, <1>2, <2>1, <2>2
  <2> QED
    BY <1>1, <2>1, <2>3 DEF Attached
<1>5. LinkInv'
  <2> SUFFICES ASSUME NEW t \in Slots, slots'[t].step \in Late, slots'[t].device \notin linked'
               PROVE  t \in drops' \union missed'
    BY DEF LinkInv
  <2>1. CASE t = s
    BY <1>2, <2>1
  <2>2. CASE t # s
    BY <1>2, <1>3, <2>2 DEF CInv, LinkInv
  <2> QED
    BY <2>1, <2>2
<1>6. CInv' /\ Goes(s)
  BY <1>1, <1>3, <1>4, <1>5, SlotGoes
<1>7. ~Ended(s)
  BY <1>2 DEF Ended, Steps
<1>8. s \in Running(slots[s].device) /\ slots[s].device \in Devices
  BY SlotFacts DEF Steps
<1> QED
  BY <1>6, <1>7, <1>8 DEF Moved

LEMMA OpenDeviceStep ==
  ASSUME CInv, NEW s \in Slots, OpenDevice(s)
  PROVE  CInv' /\ Moved(s)
<1>1. slots[s].step \in Steps /\ slots[s] \in SlotType /\ slots \in [Slots -> SlotType]
  BY DEF CInv, CentralTypeOK, OpenDevice, At, Steps
<1>2. CASE slots' = [slots EXCEPT ![s].step = "discovering", ![s].tries = 1] /\ Proceed /\ Quietly
  <2> DEFINE new == [slots[s] EXCEPT !.step = "discovering", !.tries = 1]
  <2>1. slots' = [slots EXCEPT ![s] = new]
    BY <1>1, <1>2
  <2>2. new \in SlotType /\ new.step = "discovering" /\ new.device = slots[s].device
    <3>1. 1 \in 0..DiscoveryAttempts
      BY CentralAssumption
    <3> QED
      BY <1>1, <3>1 DEF SlotType, Steps
  <2>3. UNCHANGED <<linked, drops, posted, faults>> /\ faults \in 0..MaxFaults
    BY <1>2 DEF Quietly, CInv, CentralTypeOK
  <2> HIDE DEF new
  <2> QED
    BY <1>1, <1>2, <2>1, <2>2, <2>3, StepMoved DEF Late, Steps
<1>3. CASE Spend /\ Fail(s)
  BY <1>1, <1>3, SpendTyped, FailMoved DEF CInv
<1> QED
  BY <1>2, <1>3 DEF OpenDevice

\* A step that changes nothing of the slot but the step.
LEMMA GotoMoved ==
  ASSUME CInv, NEW s \in Slots, slots[s].step \in Steps, NEW to \in Steps, to # "reopening",
         to # "opening", Goto(s, to), Proceed, UNCHANGED <<linked, drops, faults>>,
         posted' = posted \/ posted' = Append(posted, InfoOf(s)),
         to \in Late => slots[s].device \in linked
  PROVE  CInv' /\ Moved(s)
<1> DEFINE new == [slots[s] EXCEPT !.step = to]
<1>1. slots[s] \in SlotType /\ slots \in [Slots -> SlotType] /\ faults \in 0..MaxFaults
  BY DEF CInv, CentralTypeOK
<1>2. slots' = [slots EXCEPT ![s] = new]
  BY <1>1 DEF Goto
<1>3. new \in SlotType /\ new.step = to /\ new.device = slots[s].device
  BY <1>1 DEF SlotType
<1> HIDE DEF new
<1> QED
  BY <1>1, <1>2, <1>3, StepMoved

LEMMA BeginDiscoveryStep ==
  ASSUME CInv, NEW s \in Slots, BeginDiscovery(s)
  PROVE  CInv' /\ Moved(s)
<1>1. slots[s].step \in Steps /\ faults \in 0..MaxFaults
  BY DEF CInv, CentralTypeOK, BeginDiscovery, At, Steps
<1>2. CASE slots[s].device \in cancelled
  BY <1>1, <1>2, FailMoved DEF BeginDiscovery
<1>3. CASE slots[s].device \notin cancelled
  BY <1>1, <1>3, GotoMoved DEF BeginDiscovery, Quietly, Steps, Late
<1> QED
  BY <1>2, <1>3

LEMMA DiscoveryThrewStep ==
  ASSUME CInv, NEW s \in Slots, At(s, "services"), DiscoveryThrew(s)
  PROVE  CInv' /\ Moved(s)
<1>1. /\ slots[s].step \in Steps /\ slots[s] \in SlotType /\ slots \in [Slots -> SlotType]
      /\ faults' \in 0..MaxFaults
  BY SpendTyped DEF CInv, CentralTypeOK, DiscoveryThrew, At, Steps
<1>2. CASE LastTry(s)
  BY <1>1, <1>2, FailMoved DEF DiscoveryThrew
<1>3. CASE ~LastTry(s)
  <2>1. PICK stale \in BOOLEAN :
          slots' = [slots EXCEPT ![s].step = "reopening", ![s].unpaired = @ \/ stale]
    BY <1>3 DEF DiscoveryThrew
  <2> DEFINE new == [slots[s] EXCEPT !.step = "reopening", !.unpaired = @ \/ stale]
  <2>2. slots' = [slots EXCEPT ![s] = new]
    BY <1>1, <2>1
  <2>3. (slots[s].unpaired \/ stale) \in BOOLEAN
    OBVIOUS
  <2>4. /\ new \in SlotType /\ new.step = "reopening" /\ new.device = slots[s].device
        /\ new.tries = slots[s].tries
    BY <1>1, <2>3 DEF SlotType, Steps
  <2>5. new.tries < DiscoveryAttempts
    <3>1. slots[s].tries \in 0..DiscoveryAttempts /\ slots[s].tries # DiscoveryAttempts
      BY <1>1, <1>3 DEF SlotType, LastTry
    <3> QED
      BY <2>4, <3>1, CentralAssumption
  <2> HIDE DEF new
  <2> QED
    BY <1>1, <1>3, <2>2, <2>4, <2>5, StepMoved DEF DiscoveryThrew, Steps, Late
<1> QED
  BY <1>2, <1>3

LEMMA ServiceMissingStep ==
  ASSUME CInv, NEW s \in Slots, At(s, "services"), ServiceMissing(s)
  PROVE  CInv' /\ Moved(s)
<1>1. /\ slots[s].step \in Steps /\ slots[s] \in SlotType /\ slots \in [Slots -> SlotType]
      /\ faults' \in 0..MaxFaults
  BY SpendTyped DEF CInv, CentralTypeOK, ServiceMissing, At, Steps
<1>2. CASE LastTry(s)
  BY <1>1, <1>2, FailMoved DEF ServiceMissing
<1>3. CASE ~LastTry(s)
  <2> DEFINE new == [slots[s] EXCEPT !.step = "discovering", !.tries = @ + 1]
  <2>1. slots' = [slots EXCEPT ![s] = new]
    BY <1>1, <1>3 DEF ServiceMissing
  <2>2. slots[s].tries + 1 \in 0..DiscoveryAttempts
    <3>1. slots[s].tries \in 0..DiscoveryAttempts /\ slots[s].tries # DiscoveryAttempts
      BY <1>1, <1>3 DEF SlotType, LastTry
    <3> QED
      BY <3>1, CentralAssumption
  <2>3. new \in SlotType /\ new.step = "discovering" /\ new.device = slots[s].device
    BY <1>1, <2>2 DEF SlotType, Steps
  <2> HIDE DEF new
  <2> QED
    BY <1>1, <1>3, <2>1, <2>3, StepMoved DEF ServiceMissing, Steps, Late
<1> QED
  BY <1>2, <1>3

\* The radio goes off: every session and connect with a link has its event.
LEMMA DiscoveryUnreachableStep ==
  ASSUME CInv, NEW s \in Slots, At(s, "services"), DiscoveryUnreachable(s)
  PROVE  CInv' /\ Moved(s)
<1>1. /\ slots[s].step \in Steps /\ slots[s] \in SlotType /\ slots \in [Slots -> SlotType]
      /\ faults' \in 0..MaxFaults /\ drops \subseteq Slots
  BY SpendTyped DEF CInv, CentralTypeOK, DiscoveryUnreachable, At, Steps
<1> DEFINE new == [slots[s] EXCEPT !.step = "reopening", !.unpaired = TRUE]
<1>2. slots' = [slots EXCEPT ![s] = new]
  BY <1>1 DEF DiscoveryUnreachable
<1>3. /\ new \in SlotType /\ new.step = "reopening" /\ new.device = slots[s].device
      /\ new.tries = slots[s].tries
  BY <1>1 DEF SlotType, Steps
<1>4. new.tries < DiscoveryAttempts
  <2>1. slots[s].tries \in 0..DiscoveryAttempts /\ slots[s].tries # DiscoveryAttempts
    BY <1>1 DEF SlotType, LastTry, DiscoveryUnreachable
  <2> QED
    BY <1>3, <2>1, CentralAssumption
<1> HIDE DEF new
<1>5. slots'[s] = new /\ \A t \in Slots : t # s => slots'[t] = slots[t]
  BY <1>1, <1>2
<1>6. /\ linked' = {} /\ UNCHANGED <<paired, sessions, connecting, cancelled, watching, missed, posted>>
      /\ drops' = (drops \union {t \in Attached : slots[t].device \in linked}) \ {s}
  BY DEF DiscoveryUnreachable, Proceed
<1>7. drops' \subseteq Slots /\ drops' \subseteq Attached'
  BY <1>1, <1>5, <1>6 DEF CInv, SlotInv, Attached
<1>8. LinkInv'
  <2> SUFFICES ASSUME NEW t \in Slots, slots'[t].step \in Late
               PROVE  t \in drops' \union missed'
    BY DEF LinkInv
  <2>1. t # s /\ slots'[t] = slots[t]
    BY <1>3, <1>5 DEF Late
  <2>2. t \in Attached
    BY <2>1 DEF Late, Attached
  <2> QED
    BY <1>6, <2>1, <2>2 DEF CInv, LinkInv
<1>9. CInv' /\ Goes(s)
  BY <1>1, <1>2, <1>3, <1>4, <1>6, <1>7, <1>8, SlotGoes DEF Steps
<1>10. ~Ended(s)
  BY <1>3, <1>5 DEF Ended
<1>11. s \in Running(slots[s].device) /\ slots[s].device \in Devices
  BY <1>1, SlotFacts DEF Steps
<1> QED
  BY <1>6, <1>9, <1>10, <1>11 DEF Moved

LEMMA DiscoveryPolledStep ==
  ASSUME CInv, NEW s \in Slots, DiscoveryPolled(s)
  PROVE  CInv' /\ Moved(s)
<1>1. slots[s].step \in Steps /\ faults \in 0..MaxFaults /\ At(s, "services")
  BY DEF CInv, CentralTypeOK, DiscoveryPolled, At, Steps
<1>2. CASE Fail(s) /\ UNCHANGED faults
  BY <1>1, <1>2, FailMoved
<1>3. CASE ServiceFound(s)
  BY <1>1, <1>3, GotoMoved DEF ServiceFound, Quietly, Steps, Late
<1> QED
  BY <1>1, <1>2, <1>3, DiscoveryThrewStep, DiscoveryUnreachableStep, ServiceMissingStep
     DEF DiscoveryPolled

LEMMA ReopenDeviceStep ==
  ASSUME CInv, NEW s \in Slots, ReopenDevice(s)
  PROVE  CInv' /\ Moved(s)
<1>1. slots[s].step \in Steps /\ slots[s] \in SlotType /\ slots \in [Slots -> SlotType]
  BY DEF CInv, CentralTypeOK, ReopenDevice, At, Steps
<1>2. CASE slots' = [slots EXCEPT ![s].step = "discovering", ![s].tries = @ + 1] /\ Proceed /\ Quietly
  <2> DEFINE new == [slots[s] EXCEPT !.step = "discovering", !.tries = @ + 1]
  <2>1. slots' = [slots EXCEPT ![s] = new]
    BY <1>1, <1>2
  <2>2. slots[s].tries + 1 \in 0..DiscoveryAttempts
    <3>1. slots[s].tries \in 0..DiscoveryAttempts /\ slots[s].tries < DiscoveryAttempts
      BY <1>1 DEF SlotType, ReopenDevice, At, CInv, SlotInv
    <3> QED
      BY <3>1, CentralAssumption
  <2>3. new \in SlotType /\ new.step = "discovering" /\ new.device = slots[s].device
    BY <1>1, <2>2 DEF SlotType, Steps
  <2>4. UNCHANGED <<linked, drops, posted, faults>> /\ faults \in 0..MaxFaults
    BY <1>2 DEF Quietly, CInv, CentralTypeOK
  <2> HIDE DEF new
  <2> QED
    BY <1>1, <1>2, <2>1, <2>3, <2>4, StepMoved DEF Late, Steps
<1>3. CASE Spend /\ Fail(s)
  BY <1>1, <1>3, SpendTyped, FailMoved DEF CInv
<1> QED
  BY <1>2, <1>3 DEF ReopenDevice

LEMMA OverLinkStep ==
  ASSUME CInv, NEW s \in Slots, NEW from \in Steps, NEW to \in Late \intersect Steps,
         OverLink(s, from, to),
         ~Ended(s) => posted' = posted \/ posted' = Append(posted, InfoOf(s))
  PROVE  CInv' /\ Moved(s)
<1>1. slots[s].step \in Steps /\ faults \in 0..MaxFaults /\ slots \in [Slots -> SlotType]
  BY DEF CInv, CentralTypeOK, OverLink, At
<1>2. CASE /\ slots[s].device \in linked /\ Goto(s, to)
           /\ Proceed /\ UNCHANGED <<linked, drops, faults>>
  <2>1. ~Ended(s)
    BY <1>1, <1>2 DEF Goto, Ended, SlotType, Steps
  <2>2. to \in Steps /\ to # "reopening" /\ to # "opening"
    BY DEF Late
  <2> QED
    BY <1>1, <1>2, <2>1, <2>2, GotoMoved
<1>3. CASE Fail(s) /\ (Spend \/ UNCHANGED faults)
  BY <1>1, <1>3, SpendTyped, FailMoved DEF CInv
<1> QED
  BY <1>2, <1>3 DEF OverLink

LEMMA ClosedFacts ==
  ASSUME NEW slot \in SlotType, slot.step # "free", slot.device \in Devices
  PROVE  /\ Closed(slot) \in SlotType /\ Closed(slot).step \in {"free", "closing"}
         /\ Closed(slot).step = "free" <=> Closed(slot).device = NoDevice
         /\ Closed(slot).step \notin Late /\ Closed(slot).step \notin Steps
<1>1. /\ Free \in SlotType /\ Free.step = "free" /\ Free.device = NoDevice
  BY CentralAssumption DEF Free, SlotType
<1>2. "free" \notin Late /\ "free" \notin Steps /\ "closing" \notin Late /\ "closing" \notin Steps
  BY DEF Late, Steps
<1>3. CASE slot.step = "registered"
  <2>1. Closed(slot) = [slot EXCEPT !.step = "closing"]
    BY <1>3 DEF Closed
  <2>2. Closed(slot) \in SlotType /\ Closed(slot).step = "closing" /\ Closed(slot).device = slot.device
    BY <2>1 DEF SlotType
  <2> QED
    BY <1>2, <2>2, CentralAssumption
<1>4. CASE slot.step # "registered"
  BY <1>1, <1>2, <1>4 DEF Closed
<1> QED
  BY <1>3, <1>4

\* The slots of some sessions are closed, and the sessions are gone.
LEMMA SessionsClosed ==
  ASSUME CInv, NEW closing \in SUBSET Slots,
         \A t \in closing : slots[t].step \in {"registered", "served"},
         NEW table, table = [t \in Slots |-> IF t \in closing THEN Closed(slots[t]) ELSE slots[t]],
         slots' = table, linked' = HeldLinks(table),
         drops' = drops \ closing, missed' \subseteq Slots, missed \ closing \subseteq missed',
         sessions' \in [Devices -> Slots \union {0}],
         \A d \in Devices : sessions'[d] # 0 => sessions'[d] = sessions[d] /\ sessions[d] \notin closing,
         paired' \subseteq Devices, connecting' \subseteq Devices, cancelled' \subseteq Devices,
         watching' \in BOOLEAN, faults' \in 0..MaxFaults
  PROVE  CInv' /\ \A d \in Devices : Running(d)' = Running(d)
<1>1. slots \in [Slots -> SlotType] /\ drops \subseteq Slots
  BY DEF CInv, CentralTypeOK
<1>2. /\ \A t \in closing : slots'[t] = Closed(slots[t])
      /\ \A t \in Slots \ closing : slots'[t] = slots[t]
  OBVIOUS
<1>3. \A t \in closing :
        /\ slots'[t] \in SlotType /\ slots'[t].step \in {"free", "closing"}
        /\ slots'[t].step = "free" <=> slots'[t].device = NoDevice
        /\ slots'[t].step \notin Late /\ slots'[t].step \notin Steps
  <2> SUFFICES ASSUME NEW t \in closing
               PROVE  /\ slots'[t] \in SlotType /\ slots'[t].step \in {"free", "closing"}
                      /\ slots'[t].step = "free" <=> slots'[t].device = NoDevice
                      /\ slots'[t].step \notin Late /\ slots'[t].step \notin Steps
    OBVIOUS
  <2>1. slots[t] \in SlotType /\ slots[t].step # "free" /\ slots[t].device \in Devices
    BY SlotFacts
  <2> QED
    BY <1>2, <2>1, ClosedFacts
<1>4. slots' \in [Slots -> SlotType]
  BY <1>1, <1>2, <1>3
<1>5. CentralTypeOK'
  BY <1>1, <1>4 DEF CInv, CentralTypeOK, HeldLinks
<1>6. SlotInv'
  <2>1. \A t \in Slots : slots'[t].step = "free" <=> slots'[t].device = NoDevice
    BY <1>2, <1>3 DEF CInv, SlotInv
  <2>2. \A t \in Slots : slots'[t].step = "reopening" => slots'[t].tries < DiscoveryAttempts
    BY <1>2, <1>3 DEF CInv, SlotInv
  <2>3. drops' \subseteq Attached'
    BY <1>1, <1>2 DEF CInv, SlotInv, Attached
  <2>4. \A d \in Registered' : slots'[sessions'[d]].device = d
                               /\ slots'[sessions'[d]].step \in {"registered", "served"}
    <3> SUFFICES ASSUME NEW d \in Registered'
                 PROVE  /\ slots'[sessions'[d]].device = d
                        /\ slots'[sessions'[d]].step \in {"registered", "served"}
      OBVIOUS
    <3>1. d \in Registered /\ sessions'[d] = sessions[d] /\ sessions[d] \in Slots \ closing
      BY DEF Registered, CInv, CentralTypeOK
    <3> QED
      BY <1>2, <3>1 DEF CInv, SlotInv
  <2> QED
    BY <2>1, <2>2, <2>3, <2>4 DEF SlotInv
<1>7. LinkInv'
  <2> SUFFICES ASSUME NEW t \in Slots, slots'[t].step \in Late, slots'[t].device \notin linked'
               PROVE  t \in drops' \union missed'
    BY DEF LinkInv
  <2>1. t \notin closing /\ slots'[t] = slots[t] /\ table[t] = slots[t]
    BY <1>2, <1>3
  <2>2. slots[t].device \notin linked
    BY <2>1 DEF HeldLinks, Late
  <2> QED
    BY <2>1, <2>2 DEF CInv, LinkInv
<1>8. \A d \in Devices : Running(d)' = Running(d)
  <2>1. \A t \in closing : slots[t].step \notin Steps
    BY DEF Steps
  <2> QED
    BY <1>2, <1>3, <2>1 DEF Running
<1> QED
  BY <1>5, <1>6, <1>7, <1>8 DEF CInv

LEMMA StartScanTyped ==
  ASSUME CInv, NEW ids, StartScan(ids)
  PROVE  watching' \in BOOLEAN /\ faults' \in 0..MaxFaults
BY SpendTyped DEF CInv, CentralTypeOK, StartScan

LEMMA UpdatePairedDeviceIdsStep ==
  ASSUME CInv, NEW ids \in SUBSET Devices, UpdatePairedDeviceIds(ids)
  PROVE  /\ CInv' /\ Registered' = {} /\ \A d \in Devices : Running(d)' = Running(d)
         /\ paired' = ids /\ connecting' = {} /\ \A d \in Devices : sessions'[d] = 0
<1> DEFINE closing == {sessions[d] : d \in Registered}
           table == [t \in Slots |-> IF t \in closing THEN Closed(slots[t]) ELSE slots[t]]
<1>1. closing \in SUBSET Slots /\ \A t \in closing : slots[t].step \in {"registered", "served"}
  BY DEF CInv, CentralTypeOK, SlotInv, Registered
<1>2. /\ slots' = table /\ linked' = HeldLinks(table)
      /\ drops' = drops \ closing /\ missed' = missed \ closing
      /\ sessions' = [d \in Devices |-> 0]
      /\ paired' = ids /\ connecting' = {} /\ cancelled' = cancelled
  BY DEF UpdatePairedDeviceIds, CloseSessions
<1>3. watching' \in BOOLEAN /\ faults' \in 0..MaxFaults
  BY StartScanTyped DEF UpdatePairedDeviceIds
<1>4. cancelled \subseteq Devices /\ missed \subseteq Slots
  BY DEF CInv, CentralTypeOK
<1>5. Registered' = {}
  BY <1>2 DEF Registered
<1> HIDE DEF closing, table
<1>6. table = [t \in Slots |-> IF t \in closing THEN Closed(slots[t]) ELSE slots[t]]
  BY DEF table
<1>7. CInv' /\ \A d \in Devices : Running(d)' = Running(d)
  BY <1>1, <1>2, <1>3, <1>4, <1>6, SessionsClosed
<1> QED
  BY <1>2, <1>5, <1>7

LEMMA HandleDeviceDisconnectedStep ==
  ASSUME CInv, NEW s \in Slots, HandleDeviceDisconnected(s)
  PROVE  /\ CInv' /\ \A d \in Devices : Running(d)' = Running(d)
         /\ paired' = paired
         /\ \/ UNCHANGED <<sessions, connecting, posted>>
            \/ \E d \in Registered :
                 /\ sessions' = [sessions EXCEPT ![d] = 0] /\ connecting' = connecting \ {d}
                 /\ posted' = Append(posted, [kind |-> "rescan"])
<1> DEFINE d == slots[s].device
<1>1. /\ s \in Attached /\ d \in Devices /\ s # 0
      /\ slots \in [Slots -> SlotType] /\ sessions \in [Devices -> Slots \union {0}]
  BY SlotFacts DEF HandleDeviceDisconnected, CInv, SlotInv, CentralTypeOK, Attached
<1>2. /\ UNCHANGED <<paired, cancelled, watching, faults>> /\ drops' = drops \ {s}
      /\ paired \subseteq Devices /\ cancelled \subseteq Devices /\ watching \in BOOLEAN
      /\ faults \in 0..MaxFaults /\ connecting \subseteq Devices /\ missed \subseteq Slots
      /\ drops \subseteq Slots
  BY DEF HandleDeviceDisconnected, CInv, CentralTypeOK
<1>3. CASE IsCurrent(s)
  <2> DEFINE table == [slots EXCEPT ![s] = Closed(@)]
  <2>1. /\ slots' = table /\ linked' = HeldLinks(table) /\ missed' = missed \ {s}
        /\ sessions' = [sessions EXCEPT ![d] = 0] /\ connecting' = connecting \ {d}
        /\ posted' = Append(posted, [kind |-> "rescan"])
    BY <1>3 DEF HandleDeviceDisconnected
  <2>2. table = [t \in Slots |-> IF t \in {s} THEN Closed(slots[t]) ELSE slots[t]]
    BY <1>1
  <2>3. sessions[d] = s /\ d \in Registered
    BY <1>1, <1>3 DEF IsCurrent, Registered
  <2>4. slots[s].step \in {"registered", "served"}
    BY <2>3 DEF CInv, SlotInv
  <2>5. /\ sessions' \in [Devices -> Slots \union {0}]
        /\ \A e \in Devices : sessions'[e] # 0 => sessions'[e] = sessions[e] /\ sessions[e] \notin {s}
    <3>1. \A e \in Devices : sessions[e] = s => e = d
      BY <1>1 DEF CInv, SlotInv, Registered
    <3> QED
      BY <1>1, <2>1, <3>1
  <2> HIDE DEF table
  <2>6. CInv' /\ \A e \in Devices : Running(e)' = Running(e)
    BY <1>2, <2>1, <2>2, <2>4, <2>5, SessionsClosed
  <2> QED
    BY <1>2, <2>1, <2>3, <2>6
<1>4. CASE ~IsCurrent(s)
  <2>1. /\ missed' = missed \union ({s} \ {sessions[e] : e \in Devices})
        /\ UNCHANGED <<sessions, connecting, slots, linked, posted>>
    BY <1>4 DEF HandleDeviceDisconnected
  <2>2. \A e \in Devices : sessions[e] # s
    BY <1>1, <1>4 DEF CInv, SlotInv, Registered, IsCurrent
  <2>3. s \in missed' /\ missed' \subseteq Slots /\ missed \subseteq missed'
    BY <1>2, <2>1, <2>2
  <2>4. CentralTypeOK'
    BY <1>2, <2>1, <2>3 DEF CInv, CentralTypeOK
  <2>5. SlotInv'
    BY <1>2, <2>1 DEF CInv, SlotInv, Attached, Registered
  <2>6. LinkInv'
    BY <1>2, <2>1, <2>3 DEF CInv, LinkInv
  <2> QED
    BY <1>2, <2>1, <2>4, <2>5, <2>6 DEF CInv, Running
<1> QED
  BY <1>3, <1>4

LEMMA RegisterSessionStep ==
  ASSUME CInv, NEW s \in Slots, RegisterSession(s)
  PROVE  /\ CInv' /\ paired' = paired /\ posted' = posted
         /\ \E d \in Devices :
              /\ s \in Running(d) /\ sessions' = [sessions EXCEPT ![d] = s]
              /\ connecting' = connecting \ {d} /\ Running(d)' = Running(d) \ {s}
              /\ \A e \in Devices : e # d => Running(e)' = Running(e)
<1>0. PICK d \in Devices : d = slots[s].device
  BY SlotFacts DEF RegisterSession, At
<1> DEFINE old == sessions[d]
<1>1. /\ slots[s].step = "subscribed" /\ slots[s].step \in Steps
      /\ d \in Devices /\ s # 0 /\ s \in Running(d) /\ slots[s] \in SlotType
      /\ slots \in [Slots -> SlotType] /\ sessions \in [Devices -> Slots \union {0}]
      /\ \A e \in Devices : sessions[e] # s
  BY <1>0, SlotFacts DEF RegisterSession, At, CInv, CentralTypeOK, Steps
<1>2. /\ sessions' = [sessions EXCEPT ![d] = s] /\ connecting' = connecting \ {d}
      /\ slots' = [t \in Slots |-> IF t = s THEN [slots[t] EXCEPT !.step = "registered"]
                                   ELSE IF t = old THEN Closed(slots[t]) ELSE slots[t]]
      /\ drops' = drops \ {old} /\ missed' = missed \ {old}
      /\ UNCHANGED <<paired, cancelled, watching, linked, posted, faults>>
  BY <1>0 DEF RegisterSession
<1>3. old # s /\ \A e \in Devices : e # d /\ sessions[e] # 0 => sessions[e] # old
  BY <1>1 DEF CInv, SlotInv, Registered
<1>4. /\ slots'[s] \in SlotType /\ slots'[s].step = "registered" /\ slots'[s].device = d
      /\ \A t \in Slots : t # s /\ t # old => slots'[t] = slots[t]
  BY <1>0, <1>1, <1>2 DEF SlotType
<1>5. old \in Slots =>
        /\ slots[old].step \in {"registered", "served"} /\ slots[old].device = d
        /\ slots'[old] \in SlotType /\ slots'[old].step \in {"free", "closing"}
        /\ slots'[old].step = "free" <=> slots'[old].device = NoDevice
        /\ slots'[old].step \notin Late /\ slots'[old].step \notin Steps
  <2> SUFFICES ASSUME old \in Slots
               PROVE  /\ slots[old].step \in {"registered", "served"} /\ slots[old].device = d
                      /\ slots'[old] \in SlotType /\ slots'[old].step \in {"free", "closing"}
                      /\ slots'[old].step = "free" <=> slots'[old].device = NoDevice
                      /\ slots'[old].step \notin Late /\ slots'[old].step \notin Steps
    OBVIOUS
  <2>1. d \in Registered
    BY <1>1, CentralAssumption DEF Registered
  <2>2. slots[old].step \in {"registered", "served"} /\ slots[old].device = d /\ slots[old] \in SlotType
    BY <1>1, <2>1 DEF CInv, SlotInv
  <2>3. slots'[old] = Closed(slots[old])
    BY <1>2, <1>3
  <2> QED
    BY <1>1, <2>2, <2>3, ClosedFacts
<1> HIDE DEF old
<1>6. slots' \in [Slots -> SlotType]
  <2>1. \A t \in Slots : slots'[t] \in SlotType
    BY <1>1, <1>4, <1>5
  <2> QED
    BY <1>2, <2>1
<1>7. CentralTypeOK'
  BY <1>1, <1>2, <1>6 DEF CInv, CentralTypeOK
<1>8. SlotInv'
  <2>1. \A t \in Slots : slots'[t].step = "free" <=> slots'[t].device = NoDevice
    BY <1>1, <1>4, <1>5, CentralAssumption DEF CInv, SlotInv
  <2>2. \A t \in Slots : slots'[t].step = "reopening" => slots'[t].tries < DiscoveryAttempts
    BY <1>4, <1>5 DEF CInv, SlotInv
  <2>3. drops' \subseteq Attached'
    BY <1>2, <1>4 DEF CInv, SlotInv, Attached
  <2>4. \A e \in Registered' : slots'[sessions'[e]].device = e
                               /\ slots'[sessions'[e]].step \in {"registered", "served"}
    <3> SUFFICES ASSUME NEW e \in Registered'
                 PROVE  /\ slots'[sessions'[e]].device = e
                        /\ slots'[sessions'[e]].step \in {"registered", "served"}
      OBVIOUS
    <3>1. CASE e = d
      BY <1>1, <1>2, <1>4, <3>1
    <3>2. CASE e # d
      <4>1. e \in Registered /\ sessions'[e] = sessions[e] /\ sessions[e] \in Slots
            /\ sessions[e] # s /\ sessions[e] # old
        BY <1>1, <1>2, <1>3, <3>2 DEF Registered
      <4> QED
        BY <1>4, <4>1 DEF CInv, SlotInv
    <3> QED
      BY <3>1, <3>2
  <2> QED
    BY <2>1, <2>2, <2>3, <2>4 DEF SlotInv
<1>9. LinkInv'
  <2> SUFFICES ASSUME NEW t \in Slots, slots'[t].step \in Late, slots'[t].device \notin linked'
               PROVE  t \in drops' \union missed'
    BY DEF LinkInv
  <2>1. t # old
    BY <1>5
  <2>2. slots[t].step \in Late /\ slots[t].device = slots'[t].device
    BY <1>0, <1>1, <1>4, <2>1 DEF Late
  <2> QED
    BY <1>2, <2>1, <2>2 DEF CInv, LinkInv
<1>10. /\ Running(d)' = Running(d) \ {s}
       /\ \A e \in Devices : e # d => Running(e)' = Running(e)
  <2>1. "registered" \notin Steps /\ "served" \notin Steps
    BY DEF Steps
  <2>2. \A t \in Slots : slots'[t].step \in Steps <=> slots[t].step \in Steps /\ t # s
    BY <1>4, <1>5, <2>1
  <2>3. \A t \in Slots : slots'[t].step \in Steps => slots'[t].device = slots[t].device
    BY <1>4, <1>5, <2>1
  <2>4. \A e : Running(e)' = Running(e) \ {s}
    BY <2>2, <2>3 DEF Running
  <2>5. \A e : e # d => s \notin Running(e)
    BY <1>0 DEF Running
  <2> QED
    BY <2>4, <2>5
<1>11. \E e \in Devices :
         /\ s \in Running(e) /\ sessions' = [sessions EXCEPT ![e] = s]
         /\ connecting' = connecting \ {e} /\ Running(e)' = Running(e) \ {s}
         /\ \A f \in Devices : f # e => Running(f)' = Running(f)
  BY <1>1, <1>2, <1>10
<1> QED
  BY <1>2, <1>7, <1>8, <1>9, <1>11 DEF CInv

LEMMA PublishSessionStep ==
  ASSUME CInv, NEW s \in Slots, PublishSession(s)
  PROVE  CInv' /\ Goes(s) /\ posted' = Append(posted, [kind |-> "connections", devices |-> Registered])
<1>1. /\ slots[s].step \in {"registered", "closing"} /\ slots[s] \in SlotType
      /\ slots \in [Slots -> SlotType] /\ slots[s].device \in Devices
      /\ Free \in SlotType /\ Free.step = "free" /\ Free.device = NoDevice
  BY SlotFacts, CentralAssumption DEF PublishSession, CInv, CentralTypeOK, Free, SlotType
<1> DEFINE new == IF At(s, "closing") THEN Free ELSE [slots[s] EXCEPT !.step = "served"]
<1>2. slots' = [slots EXCEPT ![s] = new]
  BY <1>1 DEF PublishSession
<1>3. /\ new \in SlotType /\ new.step \in {"free", "served"}
      /\ new.step = "free" <=> new.device = NoDevice
      /\ new.step = "served" => slots[s].step = "registered" /\ new.device = slots[s].device
      /\ new.step = "free" => slots[s].step = "closing"
  <2>1. CASE At(s, "closing")
    BY <1>1, <2>1 DEF At
  <2>2. CASE ~At(s, "closing")
    BY <1>1, <2>2, CentralAssumption DEF At, SlotType
  <2> QED
    BY <2>1, <2>2
<1> HIDE DEF new
<1>4. slots'[s] = new /\ \A t \in Slots : t # s => slots'[t] = slots[t]
  BY <1>1, <1>2
<1>5. UNCHANGED <<paired, sessions, connecting, cancelled, watching, linked, drops, faults, missed>>
  BY DEF PublishSession
<1>6. CentralTypeOK'
  BY <1>1, <1>2, <1>3, <1>5 DEF CInv, CentralTypeOK
<1>7. SlotInv'
  <2>1. \A t \in Slots : slots'[t].step = "free" <=> slots'[t].device = NoDevice
    BY <1>3, <1>4 DEF CInv, SlotInv
  <2>2. \A t \in Slots : slots'[t].step = "reopening" => slots'[t].tries < DiscoveryAttempts
    BY <1>3, <1>4 DEF CInv, SlotInv
  <2>3. drops' \subseteq Attached'
    BY <1>3, <1>4, <1>5 DEF CInv, SlotInv, Attached
  <2>4. \A d \in Registered' : slots'[sessions'[d]].device = d
                               /\ slots'[sessions'[d]].step \in {"registered", "served"}
    <3> SUFFICES ASSUME NEW d \in Registered'
                 PROVE  /\ slots'[sessions'[d]].device = d
                        /\ slots'[sessions'[d]].step \in {"registered", "served"}
      OBVIOUS
    <3>1. d \in Registered /\ sessions'[d] = sessions[d] /\ sessions[d] \in Slots
      BY <1>5 DEF Registered, CInv, CentralTypeOK
    <3>2. slots[sessions[d]].device = d /\ slots[sessions[d]].step \in {"registered", "served"}
      BY <3>1 DEF CInv, SlotInv
    <3> QED
      BY <1>3, <1>4, <3>1, <3>2
  <2> QED
    BY <2>1, <2>2, <2>3, <2>4 DEF SlotInv
<1>8. LinkInv'
  BY <1>3, <1>4, <1>5 DEF CInv, LinkInv, Late
<1>9. Goes(s)
  <2>1. \A d : Running(d)' = Running(d)
    <3>1. \A t \in Slots : slots'[t].step \in Steps <=> slots[t].step \in Steps
      BY <1>1, <1>3, <1>4 DEF Steps
    <3>2. \A t \in Slots : slots'[t].step \in Steps => slots'[t] = slots[t]
      BY <1>3, <1>4 DEF Steps
    <3> QED
      BY <3>1, <3>2 DEF Running
  <2> QED
    BY <1>5, <2>1 DEF Goes
<1> QED
  BY <1>6, <1>7, <1>8, <1>9 DEF CInv, PublishSession

\* A connect begins in a slot that was free.
LEMMA BeginConnectStep ==
  ASSUME CInv, NEW d \in Devices, NEW ui \in BOOLEAN, BeginConnect(d, ui),
         UNCHANGED <<sessions, watching, linked, drops, faults, missed>>,
         paired' \subseteq Devices, connecting' \subseteq Devices, cancelled' \subseteq Devices
  PROVE  /\ CInv' /\ Registered' = Registered
         /\ \E s \in Slots : Running(d)' = Running(d) \union {s}
         /\ \A e \in Devices : e # d => Running(e)' = Running(e)
<1>1. PICK s \in Slots :
        /\ slots[s].step = "free"
        /\ slots' = [slots EXCEPT ![s] = [Free EXCEPT !.step = "opening", !.device = d, !.ui = ui]]
  BY DEF BeginConnect, At
<1> DEFINE new == [Free EXCEPT !.step = "opening", !.device = d, !.ui = ui]
<1>2. new \in SlotType /\ new.step = "opening" /\ new.device = d /\ new.step \in Steps
  <2>1. Free \in SlotType
    BY CentralAssumption DEF Free, SlotType
  <2> QED
    BY <2>1 DEF SlotType, Steps
<1> HIDE DEF new
<1>3. /\ slots' \in [Slots -> SlotType] /\ slots'[s] = new
      /\ \A t \in Slots : t # s => slots'[t] = slots[t]
  BY <1>1, <1>2 DEF CInv, CentralTypeOK, new
<1>4. CentralTypeOK'
  BY <1>3 DEF CInv, CentralTypeOK
<1>5. SlotInv'
  <2>1. \A t \in Slots : slots'[t].step = "free" <=> slots'[t].device = NoDevice
    BY <1>2, <1>3, CentralAssumption DEF CInv, SlotInv
  <2>2. \A t \in Slots : slots'[t].step = "reopening" => slots'[t].tries < DiscoveryAttempts
    BY <1>2, <1>3 DEF CInv, SlotInv
  <2>3. drops' \subseteq Attached'
    BY <1>1, <1>3 DEF CInv, SlotInv, Attached
  <2>4. \A e \in Registered' : slots'[sessions'[e]].device = e
                               /\ slots'[sessions'[e]].step \in {"registered", "served"}
    <3> SUFFICES ASSUME NEW e \in Registered'
                 PROVE  /\ slots'[sessions'[e]].device = e
                        /\ slots'[sessions'[e]].step \in {"registered", "served"}
      OBVIOUS
    <3>1. e \in Registered /\ sessions'[e] = sessions[e] /\ sessions[e] \in Slots
      BY DEF Registered, CInv, CentralTypeOK
    <3>2. slots[sessions[e]].device = e /\ slots[sessions[e]].step \in {"registered", "served"}
      BY <3>1 DEF CInv, SlotInv
    <3> QED
      BY <1>1, <1>3, <3>1, <3>2
  <2> QED
    BY <2>1, <2>2, <2>3, <2>4 DEF SlotInv
<1>6. LinkInv'
  BY <1>2, <1>3 DEF CInv, LinkInv, Late
<1>7. /\ Running(d)' = Running(d) \union {s}
      /\ \A e \in Devices : e # d => Running(e)' = Running(e)
  <2>1. "free" \notin Steps
    BY DEF Steps
  <2>2. /\ s \notin Running(d) /\ \A e \in Devices : s \notin Running(e)
    BY <1>1, <2>1 DEF Running
  <2> QED
    BY <1>2, <1>3, <2>2 DEF Running
<1> QED
  BY <1>4, <1>5, <1>6, <1>7 DEF CInv, Registered

LEMMA LinkUpStep ==
  ASSUME CInv, NEW d \in Devices, LinkUp(d)
  PROVE  CInv' /\ UNCHANGED <<paired, sessions, connecting, posted>> /\ \A e : Running(e)' = Running(e)
<1>1. /\ linked' = linked \union {d}
      /\ UNCHANGED <<paired, sessions, connecting, cancelled, watching, slots, drops, posted,
                     faults, missed>>
  BY DEF LinkUp
<1>2. CentralTypeOK'
  BY <1>1 DEF CInv, CentralTypeOK
<1>3. SlotInv' /\ LinkInv'
  BY <1>1 DEF CInv, SlotInv, LinkInv, Attached, Registered
<1> QED
  BY <1>1, <1>2, <1>3 DEF CInv, Running

LEMMA LinkDownStep ==
  ASSUME CInv, NEW d \in Devices, LinkDown(d)
  PROVE  CInv' /\ UNCHANGED <<paired, sessions, connecting, posted>> /\ \A e : Running(e)' = Running(e)
<1>1. /\ linked' = linked \ {d} /\ faults' \in 0..MaxFaults
      /\ drops' = drops \union {s \in Attached : slots[s].device = d}
      /\ UNCHANGED <<paired, sessions, connecting, cancelled, watching, slots, posted, missed>>
  BY SpendTyped DEF LinkDown, CInv
<1>2. Attached' = Attached /\ Attached \subseteq Slots
  BY <1>1 DEF Attached
<1>3. CentralTypeOK'
  BY <1>1, <1>2 DEF CInv, CentralTypeOK
<1>4. SlotInv'
  BY <1>1, <1>2 DEF CInv, SlotInv, Registered
<1>5. LinkInv'
  <2> SUFFICES ASSUME NEW t \in Slots, slots[t].step \in Late, slots[t].device \notin linked'
               PROVE  t \in drops' \union missed'
    BY <1>1 DEF LinkInv
  <2>1. t \in Attached
    BY DEF Late, Attached
  <2> QED
    BY <1>1, <2>1 DEF CInv, LinkInv
<1> QED
  BY <1>1, <1>3, <1>4, <1>5 DEF CInv, Running

-----------------------------------------------------------------------------
(***************************************************************************)
(* The pairing: what a step may do to each part of the invariant.          *)
(***************************************************************************)
LEMMA MessageTypes ==
  /\ \A m \in Message : m.kind \in {"error", "info", "dialog_info"} => m.device \in Devices
  /\ \A m \in Message : m.kind = "connections" => m.devices \subseteq Devices
  /\ \A d \in Devices, kind \in {"error", "info", "dialog_info"} :
       [kind |-> kind, device |-> d] \in Message
  /\ \A kind \in {"rescan", "dialog_connected", "dialog_error"} : [kind |-> kind] \in Message
  /\ \A devices \in SUBSET Devices : [kind |-> "connections", devices |-> devices] \in Message
<1>1. \A m \in Message : m.kind \in {"error", "info", "dialog_info"} => m.device \in Devices
  BY DEF Message
<1>2. \A m \in Message : m.kind = "connections" => m.devices \subseteq Devices
  BY DEF Message
<1>3. \A d \in Devices, kind \in {"error", "info", "dialog_info"} :
        [kind |-> kind, device |-> d] \in Message
  BY DEF Message
<1>4. \A kind \in {"rescan", "dialog_connected", "dialog_error"} : [kind |-> kind] \in Message
  BY DEF Message
<1>5. \A devices \in SUBSET Devices : [kind |-> "connections", devices |-> devices] \in Message
  BY DEF Message
<1> QED
  BY <1>1, <1>2, <1>3, <1>4, <1>5

LEMMA RememberFacts ==
  ASSUME Remember, posted' \in Seq(Message)
  PROVE  /\ answered \subseteq answered' /\ Registered' \subseteq answered'
         /\ \A m \in Messages(posted') : m.kind = "info" => m.device \in answered'
<1>1. answered \subseteq answered' /\ Registered' \subseteq answered'
  BY DEF Remember, Registered
<1>2. \A i \in 1..Len(posted') : posted'[i].kind = "info" => posted'[i].device \in answered'
  BY DEF Remember
<1> QED
  BY <1>1, <1>2 DEF Messages

\* The list of the running connects and the claims are left alone, or grow smaller.
LEMMA ConnectKept ==
  ASSUME ConnectInv, UNCHANGED <<sessions, connecting>>, disturbed \subseteq disturbed',
         \A d \in Devices : Running(d)' \subseteq Running(d)
  PROVE  ConnectInv'
BY DEF ConnectInv

\* A device that is being paired stays so, or is overtaken.
PairingGoesOn ==
  /\ disturbed \subseteq disturbed'
  /\ Pairing' => Pairing /\ pairing' = pairing
  /\ \A d \in Devices \ disturbed' : Theirs(d) => Theirs(d)'

LEMMA OwnedKept ==
  ASSUME OwnedInv, PairingGoesOn, paired \subseteq paired', posted' \in Seq(Message),
         \A d \in Devices \ disturbed' : Running(d)' # {} => Running(d) # {} \/ Theirs(d)',
         \A m \in Messages(posted') :
           m \in Messages(posted) \/ (m.kind = "info" /\ m.device \notin disturbed' => Theirs(m.device)')
  PROVE  OwnedInv'
<1>1. \A d \in Devices \ disturbed' : Running(d)' # {} => Theirs(d)'
  BY DEF OwnedInv, PairingGoesOn
<1>2. ASSUME NEW m \in Messages(posted'), m.kind = "info", m.device \notin disturbed'
      PROVE  Theirs(m.device)'
  <2>1. m \in Message /\ m.device \in Devices
    BY <1>2, MessagesFacts, MessageTypes
  <2> QED
    BY <1>2, <2>1 DEF OwnedInv, PairingGoesOn
<1>3. Pairing' /\ pairing' \notin disturbed' => pairing' \in paired'
  BY DEF OwnedInv, PairingGoesOn
<1>4. Messages(posted)' = Messages(posted')
  BY DEF Messages
<1> QED
  BY <1>1, <1>2, <1>3, <1>4 DEF OwnedInv

LEMMA ListsKept ==
  ASSUME ListsAgree, UNCHANGED <<confirmed, configured, file, paired>>,
         disturbed \subseteq disturbed',
         \A d \in Devices \ disturbed' : Pairing /\ pairing = d => Pairing' /\ pairing' = d
  PROVE  ListsAgree'
BY DEF ListsAgree

\* What is new in the queue tells the dialog of nobody who has not answered.
Truthful(m) ==
  /\ m.kind = "dialog_info" => m.device \in answered
  /\ m.kind = "connections" => m.devices \subseteq answered
  /\ m.kind = "dialog_connected" /\ Pairing' => pairing' \in answered

LEMMA AnsweredKept ==
  ASSUME AnsweredInv, Remember, posted' \in Seq(Message), PairingGoesOn,
         \A m \in Messages(posted') : m \in Messages(posted) \/ Truthful(m),
         finalizing' => Pairing' /\ (finalizing \/ pairing' \in answered)
  PROVE  AnsweredInv'
<1>1. /\ answered \subseteq answered' /\ Registered' \subseteq answered'
      /\ \A m \in Messages(posted') : m.kind = "info" => m.device \in answered'
  BY RememberFacts
<1>2. ASSUME NEW m \in Messages(posted')
      PROVE  /\ m.kind \in {"info", "dialog_info"} => m.device \in answered'
             /\ m.kind = "connections" => m.devices \subseteq answered'
             /\ m.kind = "dialog_connected" /\ Pairing' => pairing' \in answered'
  <2>1. CASE m \in Messages(posted)
    BY <1>1, <2>1 DEF AnsweredInv, PairingGoesOn
  <2>2. CASE Truthful(m)
    BY <1>1, <2>2 DEF Truthful
  <2> QED
    BY <2>1, <2>2
<1>3. finalizing' => Pairing' /\ pairing' \in answered'
  BY <1>1 DEF AnsweredInv, PairingGoesOn
<1>4. Messages(posted)' = Messages(posted')
  BY DEF Messages
<1> QED
  BY <1>1, <1>2, <1>3, <1>4 DEF AnsweredInv

\* A step of the UI thread that neither begins nor ends a connect.
LEMMA UiMoves ==
  ASSUME PInv, TypeOK', CInv', UNCHANGED <<paired, sessions, connecting>>, Remember,
         \A d \in Devices : Running(d)' = Running(d), PairingGoesOn, ListsAgree',
         \A m \in Messages(posted') : m \in Messages(posted) \/ (m.kind # "info" /\ Truthful(m)),
         finalizing' => Pairing' /\ (finalizing \/ pairing' \in answered)
  PROVE  PInv'
<1>1. posted' \in Seq(Message)
  BY DEF TypeOK
<1>2. ConnectInv'
  BY ConnectKept DEF PInv, PairingGoesOn
<1>3. OwnedInv'
  BY <1>1, OwnedKept DEF PInv
<1>4. AnsweredInv'
  BY <1>1, AnsweredKept DEF PInv
<1> QED
  BY <1>2, <1>3, <1>4 DEF PInv, CInv

\* A step of the central that the application does not see, but for what is posted.
LEMMA CentralMoves ==
  ASSUME PInv, CInv', paired' = paired, UNCHANGED appVars, Remember, ConnectInv',
         \A d \in Devices \ disturbed : Running(d)' # {} => Running(d) # {} \/ Theirs(d),
         \/ posted' = posted
         \/ \E m \in Message :
              /\ posted' = Append(posted, m) /\ m.kind \notin {"dialog_info", "dialog_connected"}
              /\ m.kind = "info" /\ m.device \notin disturbed => Theirs(m.device)
              /\ m.kind = "connections" => m.devices \subseteq Registered
  PROVE  PInv'
<1>1. UNCHANGED <<dialog, listed, pairing, finalizing, entry, confirmed, configured, file, inputs,
                  disturbed>>
  BY DEF appVars
<1>2. posted \in Seq(Message)
  BY DEF PInv, TypeOK
<1>3. /\ posted' \in Seq(Message)
      /\ \A m \in Messages(posted') :
           \/ m \in Messages(posted)
           \/ /\ m.kind \notin {"dialog_info", "dialog_connected"}
              /\ m.kind = "info" /\ m.device \notin disturbed => Theirs(m.device)
              /\ m.kind = "connections" => m.devices \subseteq Registered
  <2>1. CASE posted' = posted
    BY <1>2, <2>1
  <2>2. CASE posted' # posted
    <3>1. PICK m \in Message :
            /\ posted' = Append(posted, m) /\ m.kind \notin {"dialog_info", "dialog_connected"}
            /\ m.kind = "info" /\ m.device \notin disturbed => Theirs(m.device)
            /\ m.kind = "connections" => m.devices \subseteq Registered
      BY <2>2
    <3>2. posted' \in Seq(Message) /\ Messages(posted') = Messages(posted) \union {m}
      BY <1>2, <3>1, MessagesFacts
    <3> QED
      BY <3>1, <3>2
  <2> QED
    BY <2>1, <2>2
<1>4. TypeOK'
  BY <1>1, <1>3 DEF PInv, CInv, TypeOK
<1>5. PairingGoesOn /\ \A d : Theirs(d)' <=> Theirs(d)
  BY <1>1 DEF PairingGoesOn, Pairing, Theirs
<1>6. OwnedInv'
  BY <1>1, <1>3, <1>5, OwnedKept DEF PInv
<1>7. ListsAgree'
  BY <1>1, ListsKept DEF PInv, Pairing
<1>8. AnsweredInv'
  <2>1. Registered \subseteq answered /\ (finalizing => Pairing)
    BY DEF PInv, AnsweredInv
  <2>2. \A m \in Messages(posted') : m \in Messages(posted) \/ Truthful(m)
    BY <1>3, <2>1 DEF Truthful
  <2>3. finalizing' => Pairing' /\ finalizing
    BY <1>1, <2>1 DEF Pairing
  <2> QED
    BY <1>3, <1>5, <2>2, <2>3, AnsweredKept DEF PInv
<1> QED
  BY <1>4, <1>6, <1>7, <1>8 DEF PInv, CInv

-----------------------------------------------------------------------------
(***************************************************************************)
(* The connects and the radio.                                             *)
(***************************************************************************)
\* A connect that goes on or fails, as the application may see it.
LEMMA MovedConnect ==
  ASSUME PInv, NEW s \in Slots, Moved(s)
  PROVE  /\ disturbed' = disturbed => ConnectInv'
         /\ paired' = paired /\ \A d \in Devices : Running(d)' \subseteq Running(d)
<1>1. paired' = paired /\ \A d \in Devices : Running(d)' \subseteq Running(d)
  BY DEF Moved, Goes, Ends
<1>2. ASSUME disturbed' = disturbed
      PROVE  ConnectInv'
  <2>1. CASE Goes(s)
    BY <1>1, <1>2, <2>1, ConnectKept DEF PInv, Goes
  <2>2. CASE Ends(s)
    <3> SUFFICES ASSUME NEW d \in Devices \ disturbed
                 PROVE  /\ \A t, u \in Running(d)' : t = u
                        /\ Running(d)' # {} => d \in connecting' /\ sessions'[d] = 0
      BY <1>2 DEF ConnectInv
    <3>1. /\ \A t, u \in Running(d) : t = u
          /\ Running(d) # {} => d \in connecting /\ sessions[d] = 0
      BY DEF PInv, ConnectInv
    <3>2. /\ Running(d)' = Running(d) \ {s} /\ sessions' = sessions
          /\ connecting' = connecting \ {slots[s].device} /\ s \in Running(slots[s].device)
      BY <2>2 DEF Ends
    <3> QED
      BY <3>1, <3>2
  <2> QED
    BY <2>1, <2>2 DEF Moved
<1> QED
  BY <1>1, <1>2

LEMMA ConnectStepHolds ==
  ASSUME PInv, NEW s \in Slots, ConnectStep(s)
  PROVE  PInv'
<1>1. CInv' /\ Moved(s)
  BY OpenDeviceStep, BeginDiscoveryStep, DiscoveryPolledStep, ReopenDeviceStep
     DEF ConnectStep, PInv, CInv, TypeOK
<1>2. /\ disturbed' = disturbed => ConnectInv'
      /\ paired' = paired /\ \A d \in Devices : Running(d)' \subseteq Running(d)
  BY <1>1, MovedConnect
<1>3. Remember /\ posted \in Seq(Message)
  BY DEF ConnectStep, PInv, TypeOK
<1>4. PICK d \in Devices : d = slots[s].device /\ s \in Running(d)
  BY <1>1 DEF Moved
<1>5. ErrorOf(s) \in Message /\ ErrorOf(s).kind = "error"
  BY <1>4, MessageTypes DEF ErrorOf
<1>6. /\ InfoOf(s) \in Message /\ InfoOf(s).kind = "info" /\ InfoOf(s).device = d
      /\ d \notin disturbed => Theirs(d)
  BY <1>4, MessageTypes DEF InfoOf, PInv, OwnedInv
<1>7. CASE UNCHANGED appVars /\ (posted' = posted \/ posted' = Append(posted, InfoOf(s))
                                 \/ posted' = Append(posted, ErrorOf(s)))
  <2>1. ConnectInv'
    BY <1>2, <1>7 DEF appVars
  <2>2. \A e \in Devices \ disturbed : Running(e)' # {} => Running(e) # {} \/ Theirs(e)
    BY <1>2
  <2>3. \/ posted' = posted
        \/ \E m \in Message :
             /\ posted' = Append(posted, m) /\ m.kind \notin {"dialog_info", "dialog_connected"}
             /\ m.kind = "info" /\ m.device \notin disturbed => Theirs(m.device)
             /\ m.kind = "connections" => m.devices \subseteq Registered
    BY <1>5, <1>6, <1>7
  <2> QED
    BY <1>1, <1>2, <1>3, <1>7, <2>1, <2>2, <2>3, CentralMoves
<1>8. CASE OnUiThread(s) /\ Ended(s) /\ SetPairingError(d)
  <2>1. /\ entry' = IF entry = d THEN NoDevice ELSE entry
        /\ UNCHANGED <<dialog, listed, pairing, finalizing, confirmed, configured, file, inputs,
                       disturbed>>
        /\ posted' = posted \/ posted' = Append(posted, [kind |-> "dialog_error"])
    BY <1>8 DEF SetPairingError
  <2>2. [kind |-> "dialog_error"] \in Message
    BY MessageTypes
  <2>3. /\ posted' \in Seq(Message)
        /\ \A m \in Messages(posted') : m \in Messages(posted) \/ m.kind = "dialog_error"
    <3>1. CASE posted' = posted
      BY <1>3, <3>1
    <3>2. CASE posted' = Append(posted, [kind |-> "dialog_error"])
      BY <1>3, <2>2, <3>2, MessagesFacts
    <3> QED
      BY <2>1, <3>1, <3>2
  <2>4. TypeOK'
    BY <1>1, <2>1, <2>3 DEF PInv, CInv, TypeOK
  <2>5. PairingGoesOn
    BY <2>1 DEF PairingGoesOn, Pairing, Theirs
  <2>6. OwnedInv'
    BY <1>2, <2>3, <2>5, OwnedKept DEF PInv
  <2>7. ListsAgree'
    BY <1>2, <2>1, ListsKept DEF PInv, Pairing
  <2>8. AnsweredInv'
    <3>1. \A m \in Messages(posted') : m \in Messages(posted) \/ Truthful(m)
      BY <2>3 DEF Truthful
    <3>2. finalizing' => Pairing' /\ finalizing
      BY <2>1 DEF PInv, AnsweredInv, Pairing
    <3> QED
      BY <1>3, <2>3, <2>5, <3>1, <3>2, AnsweredKept DEF PInv
  <2> QED
    BY <1>1, <1>2, <2>1, <2>4, <2>6, <2>7, <2>8 DEF PInv, CInv
<1>9. \/ OnUiThread(s) /\ Ended(s) /\ SetPairingError(d)
      \/ UNCHANGED appVars /\ ~(OnUiThread(s) /\ Ended(s))
  BY <1>4 DEF ConnectStep
<1> QED
  BY <1>1, <1>7, <1>8, <1>9 DEF Moved

LEMMA BackgroundStepHolds ==
  ASSUME PInv, NEW s \in Slots, BackgroundStep(s)
  PROVE  PInv'
<1>1. UNCHANGED appVars /\ Remember /\ posted \in Seq(Message) /\ CInv /\ disturbed' = disturbed
  BY DEF BackgroundStep, PInv, CInv, TypeOK, appVars
<1>2. CASE DiscoverCharacteristics(s) \/ SubscribeState(s) \/ SubscribeAudio(s)
  <2>1. CInv' /\ Moved(s)
    <3>1. /\ {"characteristics", "subscribing", "notified", "subscribed"} \subseteq Steps
          /\ {"subscribing", "notified", "subscribed"} \subseteq Late
      BY DEF Steps, Late
    <3>2. CASE DiscoverCharacteristics(s)
      BY <1>1, <3>1, <3>2, OverLinkStep DEF DiscoverCharacteristics
    <3>3. CASE SubscribeState(s)
      <4>1. /\ OverLink(s, "subscribing", "notified")
            /\ ~Ended(s) => posted' = posted \/ posted' = Append(posted, InfoOf(s))
        BY <3>3 DEF SubscribeState, InfoOf
      <4> QED
        BY <1>1, <3>1, <4>1, OverLinkStep
    <3>4. CASE SubscribeAudio(s)
      BY <1>1, <3>1, <3>4, OverLinkStep DEF SubscribeAudio
    <3> QED
      BY <1>2, <3>2, <3>3, <3>4
  <2>2. /\ ConnectInv' /\ paired' = paired /\ \A d \in Devices : Running(d)' \subseteq Running(d)
    BY <1>1, <2>1, MovedConnect
  <2>3. PICK d \in Devices : d = slots[s].device /\ s \in Running(d)
    BY <2>1 DEF Moved
  <2>4. ErrorOf(s) \in Message /\ ErrorOf(s).kind = "error"
    BY <2>3, MessageTypes DEF ErrorOf
  <2>5. /\ InfoOf(s) \in Message /\ InfoOf(s).kind = "info" /\ InfoOf(s).device = d
        /\ d \notin disturbed => Theirs(d)
    BY <2>3, MessageTypes DEF InfoOf, PInv, OwnedInv
  <2>6. ~OnUiThread(s)
    BY <1>2 DEF OnUiThread, DiscoverCharacteristics, SubscribeState, SubscribeAudio, OverLink, At
  <2>7. \/ posted' = posted
        \/ \E m \in Message :
             /\ posted' = Append(posted, m) /\ m.kind \notin {"dialog_info", "dialog_connected"}
             /\ m.kind = "info" /\ m.device \notin disturbed => Theirs(m.device)
             /\ m.kind = "connections" => m.devices \subseteq Registered
    BY <2>1, <2>4, <2>5, <2>6 DEF Moved
  <2>8. \A e \in Devices \ disturbed : Running(e)' # {} => Running(e) # {} \/ Theirs(e)
    BY <2>2
  <2> QED
    BY <1>1, <2>1, <2>2, <2>7, <2>8, CentralMoves
<1>3. CASE RegisterSession(s)
  <2>1. CInv' /\ paired' = paired /\ posted' = posted
    BY <1>1, <1>3, RegisterSessionStep
  <2>2. PICK d \in Devices :
          /\ s \in Running(d) /\ sessions' = [sessions EXCEPT ![d] = s]
          /\ connecting' = connecting \ {d} /\ Running(d)' = Running(d) \ {s}
          /\ \A e \in Devices : e # d => Running(e)' = Running(e)
    BY <1>1, <1>3, RegisterSessionStep
  <2>3. ConnectInv'
    <3> SUFFICES ASSUME NEW e \in Devices \ disturbed
                 PROVE  /\ \A t, u \in Running(e)' : t = u
                        /\ Running(e)' # {} => e \in connecting' /\ sessions'[e] = 0
      BY <1>1 DEF ConnectInv
    <3>1. /\ \A t, u \in Running(e) : t = u
          /\ Running(e) # {} => e \in connecting /\ sessions[e] = 0
      BY DEF PInv, ConnectInv
    <3>2. CASE e = d
      BY <2>2, <3>1, <3>2
    <3>3. CASE e # d
      BY <2>2, <3>1, <3>3 DEF PInv, TypeOK, CentralTypeOK
    <3> QED
      BY <3>2, <3>3
  <2>4. \A e \in Devices \ disturbed : Running(e)' # {} => Running(e) # {} \/ Theirs(e)
    BY <2>2
  <2> QED
    BY <1>1, <2>1, <2>3, <2>4, CentralMoves
<1>4. CASE PublishSession(s)
  <2>1. CInv' /\ Goes(s)
        /\ posted' = Append(posted, [kind |-> "connections", devices |-> Registered])
    BY <1>1, <1>4, PublishSessionStep
  <2>2. ConnectInv'
    BY <1>1, <2>1, ConnectKept DEF Goes, PInv
  <2>3. [kind |-> "connections", devices |-> Registered] \in Message
    BY MessageTypes DEF Registered
  <2>4. \A e \in Devices \ disturbed : Running(e)' # {} => Running(e) # {} \/ Theirs(e)
    BY <2>1 DEF Goes
  <2> QED
    BY <1>1, <2>1, <2>2, <2>3, <2>4, CentralMoves DEF Goes
<1> QED
  BY <1>2, <1>3, <1>4 DEF BackgroundStep

LEMMA DisconnectedHolds ==
  ASSUME PInv, NEW s \in Slots, Disconnected(s)
  PROVE  PInv'
<1>1. UNCHANGED appVars /\ Remember /\ CInv /\ disturbed' = disturbed
  BY DEF Disconnected, PInv, CInv, TypeOK, appVars
<1>2. /\ CInv' /\ \A d \in Devices : Running(d)' = Running(d)
      /\ paired' = paired
      /\ \/ UNCHANGED <<sessions, connecting, posted>>
         \/ \E d \in Registered :
              /\ sessions' = [sessions EXCEPT ![d] = 0] /\ connecting' = connecting \ {d}
              /\ posted' = Append(posted, [kind |-> "rescan"])
  BY <1>1, HandleDeviceDisconnectedStep DEF Disconnected
<1>3. ConnectInv'
  <2>1. CASE UNCHANGED <<sessions, connecting, posted>>
    BY <1>1, <1>2, <2>1, ConnectKept DEF PInv
  <2>2. ASSUME NEW d \in Registered,
               sessions' = [sessions EXCEPT ![d] = 0], connecting' = connecting \ {d}
        PROVE  ConnectInv'
    <3> SUFFICES ASSUME NEW e \in Devices \ disturbed
                 PROVE  /\ \A t, u \in Running(e)' : t = u
                        /\ Running(e)' # {} => e \in connecting' /\ sessions'[e] = 0
      BY <1>1 DEF ConnectInv
    <3>1. /\ \A t, u \in Running(e) : t = u
          /\ Running(e) # {} => e \in connecting /\ sessions[e] = 0
      BY DEF PInv, ConnectInv
    <3>2. Running(e)' = Running(e) /\ sessions[d] # 0 /\ sessions \in [Devices -> Slots \union {0}]
      BY <1>2 DEF Registered, PInv, TypeOK, CentralTypeOK
    <3> QED
      BY <2>2, <3>1, <3>2
  <2> QED
    BY <1>2, <2>1, <2>2
<1>4. /\ [kind |-> "rescan"] \in Message
      /\ \A e \in Devices \ disturbed : Running(e)' # {} => Running(e) # {} \/ Theirs(e)
  BY <1>2, MessageTypes
<1>5. posted' = posted \/ posted' = Append(posted, [kind |-> "rescan"])
  BY <1>2
<1> QED
  BY <1>1, <1>2, <1>3, <1>4, <1>5, CentralMoves

LEMMA RadioHolds ==
  ASSUME PInv, NEW d \in Devices, Radio(d) \/ Loss(d)
  PROVE  PInv'
<1>1. UNCHANGED appVars /\ Remember /\ CInv /\ disturbed' = disturbed
  BY DEF Radio, Loss, PInv, CInv, TypeOK, appVars
<1>2. CASE LinkUp(d) \/ LinkDown(d)
  <2>1. CInv' /\ UNCHANGED <<paired, sessions, connecting, posted>> /\ \A e : Running(e)' = Running(e)
    BY <1>1, <1>2, LinkUpStep, LinkDownStep
  <2>2. ConnectInv'
    BY <1>1, <2>1, ConnectKept DEF PInv
  <2> QED
    BY <1>1, <2>1, <2>2, CentralMoves
<1>3. CASE HandleAdvertisement(d)
  <2>1. /\ d \in paired /\ sessions[d] = 0 /\ d \notin connecting
        /\ connecting' = connecting \union {d} /\ BeginConnect(d, FALSE)
        /\ UNCHANGED <<paired, sessions, cancelled, watching, linked, drops, posted, faults, missed>>
        /\ paired \subseteq Devices /\ connecting' \subseteq Devices /\ cancelled \subseteq Devices
    BY <1>3 DEF HandleAdvertisement, PInv, TypeOK, CentralTypeOK
  <2>2. /\ CInv' /\ \E s \in Slots : Running(d)' = Running(d) \union {s}
        /\ \A e \in Devices : e # d => Running(e)' = Running(e)
    BY <1>1, <2>1, BeginConnectStep
  <2>3. ConnectInv'
    <3> SUFFICES ASSUME NEW e \in Devices \ disturbed
                 PROVE  /\ \A t, u \in Running(e)' : t = u
                        /\ Running(e)' # {} => e \in connecting' /\ sessions'[e] = 0
      BY <1>1 DEF ConnectInv
    <3>1. /\ \A t, u \in Running(e) : t = u
          /\ Running(e) # {} => e \in connecting /\ sessions[e] = 0
      BY DEF PInv, ConnectInv
    <3>2. CASE e = d
      BY <2>1, <2>2, <3>1, <3>2
    <3>3. CASE e # d
      BY <2>1, <2>2, <3>1, <3>3
    <3> QED
      BY <3>2, <3>3
  <2>4. d \notin disturbed => Theirs(d)
    BY <2>1 DEF PInv, ListsAgree, Theirs
  <2>5. \A e \in Devices \ disturbed : Running(e)' # {} => Running(e) # {} \/ Theirs(e)
    BY <2>2, <2>4
  <2> QED
    BY <1>1, <2>1, <2>2, <2>3, <2>5, CentralMoves
<1> QED
  BY <1>2, <1>3 DEF Radio, Loss

-----------------------------------------------------------------------------
(***************************************************************************)
(* The UI thread.                                                          *)
(***************************************************************************)
LEMMA UiCentral ==
  ASSUME PInv, UNCHANGED <<paired, sessions, connecting, slots, linked, drops, missed>>,
         cancelled' \subseteq Devices, watching' \in BOOLEAN, faults' \in 0..MaxFaults
  PROVE  CInv' /\ UNCHANGED <<paired, sessions, connecting>> /\ Registered' = Registered
         /\ \A d \in Devices : Running(d)' = Running(d)
<1>1. CInv /\ paired' \subseteq Devices /\ connecting' \subseteq Devices
  BY DEF PInv, CInv, TypeOK, CentralTypeOK
<1> QED
  BY <1>1, CentralKept

LEMMA UiStill ==
  ASSUME PInv, CentralStill
  PROVE  CInv' /\ UNCHANGED <<paired, sessions, connecting>> /\ Registered' = Registered
         /\ \A d \in Devices : Running(d)' = Running(d)
<1>1. cancelled' \subseteq Devices /\ watching' \in BOOLEAN /\ faults' \in 0..MaxFaults
  BY DEF PInv, TypeOK, CentralTypeOK, CentralStill
<1> QED
  BY <1>1, UiCentral DEF CentralStill

LEMMA FirstMessage ==
  ASSUME PInv, posted # <<>>
  PROVE  /\ Head(posted) \in Messages(posted) /\ Head(posted) \in Message
         /\ Rest \in Seq(Message) /\ Messages(Rest) \subseteq Messages(posted)
<1>1. posted \in Seq(Message)
  BY DEF PInv, TypeOK
<1> QED
  BY <1>1, MessagesFacts DEF Rest

\* A message for the dialog is put behind what is left.
LEMMA DialogTold ==
  ASSUME PInv, posted # <<>>, NEW m \in Message,
         posted' = Rest \/ (posted' = Append(Rest, m) /\ m.kind # "info" /\ Truthful(m))
  PROVE  /\ posted' \in Seq(Message)
         /\ \A n \in Messages(posted') : n \in Messages(posted) \/ (n.kind # "info" /\ Truthful(n))
<1>1. Rest \in Seq(Message) /\ Messages(Rest) \subseteq Messages(posted)
  BY FirstMessage
<1>2. Append(Rest, m) \in Seq(Message) /\ Messages(Append(Rest, m)) = Messages(Rest) \union {m}
  BY <1>1, MessagesFacts
<1>3. CASE posted' = Rest
  BY <1>1, <1>3
<1>4. CASE posted' = Append(Rest, m) /\ m.kind # "info" /\ Truthful(m)
  BY <1>1, <1>2, <1>4
<1> QED
  BY <1>3, <1>4

\* The pairing under way is given up, if there is one.
LEMMA PairingEnds ==
  ASSUME PInv, ~Pairing', UNCHANGED <<confirmed, configured, file, paired>>,
         disturbed \subseteq disturbed', Pairing => pairing \in disturbed'
  PROVE  PairingGoesOn /\ ListsAgree'
<1>1. PairingGoesOn
  BY DEF PairingGoesOn, Theirs
<1>2. ListsAgree'
  BY DEF PInv, ListsAgree
<1> QED
  BY <1>1, <1>2

\* Nothing of the pairing and of the lists changes.
LEMMA PairingStays ==
  ASSUME PInv, UNCHANGED <<dialog, pairing, confirmed, configured, file, paired, disturbed>>
  PROVE  PairingGoesOn /\ ListsAgree' /\ (Pairing' <=> Pairing)
<1>1. PairingGoesOn /\ (Pairing' <=> Pairing)
  BY DEF PairingGoesOn, Pairing, Theirs
<1>2. ListsAgree'
  BY ListsKept DEF PInv, Pairing
<1> QED
  BY <1>1, <1>2

LEMMA FinalizePairingStep ==
  ASSUME PInv, Pairing, FinalizePairing, paired' = paired
  PROVE  /\ PairingGoesOn /\ ListsAgree' /\ ~finalizing'
         /\ dialog' \in BOOLEAN /\ finalizing' \in BOOLEAN /\ listed' \subseteq Devices
         /\ pairing' \in Devices \union {NoDevice} /\ entry' \in Devices \union {NoDevice}
         /\ confirmed' \subseteq Devices /\ configured' \subseteq Devices /\ file' \subseteq Devices
         /\ confirmed' \ confirmed \subseteq {pairing}
<1>1. /\ dialog' = FALSE /\ listed' = {} /\ pairing' = NoDevice /\ finalizing' = FALSE /\ ~Pairing'
      /\ pairing \in Devices /\ entry \in Devices \union {NoDevice}
      /\ confirmed \subseteq Devices /\ configured \subseteq Devices /\ file \subseteq Devices
  BY DEF FinalizePairing, CloseDialog, Pairing, PInv, TypeOK
<1>2. CASE entry = pairing
  <2>1. /\ confirmed' = confirmed \union {pairing} /\ configured' = confirmed \union {pairing}
        /\ file' = confirmed \union {pairing} /\ entry' = NoDevice /\ disturbed' = disturbed
    BY <1>2 DEF FinalizePairing, SavePairedDevice, ConfirmPairedDeviceIds
  <2>2. PairingGoesOn
    BY <1>1, <2>1 DEF PairingGoesOn, Theirs
  <2>3. pairing \notin disturbed => pairing \in paired
    BY DEF PInv, OwnedInv
  <2>4. ListsAgree'
    BY <1>1, <2>1, <2>3 DEF PInv, ListsAgree
  <2> QED
    BY <1>1, <2>1, <2>2, <2>4
<1>3. CASE entry # pairing
  <2>1. disturbed' = disturbed \union {pairing} /\ UNCHANGED <<file, confirmed, configured, entry>>
    BY <1>3 DEF FinalizePairing
  <2>2. PairingGoesOn /\ ListsAgree'
    BY <1>1, <2>1, PairingEnds
  <2> QED
    BY <1>1, <2>1, <2>2
<1> QED
  BY <1>2, <1>3

LEMMA ScanAgainStep ==
  ASSUME PInv, ScanAgain, paired' = paired
  PROVE  PairingGoesOn /\ ListsAgree' /\ ~finalizing'
<1>1. ~Pairing' /\ finalizing' = FALSE
  BY DEF ScanAgain, Pairing
<1>2. Pairing => pairing \in disturbed'
  BY DEF ScanAgain, Pairing
<1> QED
  BY <1>1, <1>2, PairingEnds DEF ScanAgain

LEMMA RescanHolds ==
  ASSUME PInv, Rescan, Remember
  PROVE  PInv'
<1>1. /\ posted # <<>> /\ posted' = SetConnectedDevices(Registered, Rest) /\ StartScan(paired)
      /\ UNCHANGED <<paired, sessions, connecting, cancelled, slots, linked, drops, missed>>
      /\ UNCHANGED <<dialog, listed, pairing, finalizing, entry, confirmed, configured, file,
                     inputs, disturbed>>
  BY DEF Rescan, Next1, appVars
<1>2. CInv' /\ UNCHANGED <<paired, sessions, connecting>> /\ Registered' = Registered
      /\ \A d \in Devices : Running(d)' = Running(d)
  <2>1. CInv /\ cancelled' \subseteq Devices
    BY <1>1 DEF PInv, CInv, TypeOK, CentralTypeOK
  <2>2. watching' \in BOOLEAN /\ faults' \in 0..MaxFaults
    BY <1>1, <2>1, StartScanTyped
  <2> QED
    BY <1>1, <2>1, <2>2, UiCentral
<1>3. PairingGoesOn /\ ListsAgree' /\ (Pairing' <=> Pairing)
  BY <1>1, PairingStays
<1>4. /\ posted' \in Seq(Message)
      /\ \A m \in Messages(posted') : m \in Messages(posted) \/ (m.kind # "info" /\ Truthful(m))
  <2> DEFINE told == [kind |-> "dialog_connected"]
  <2>1. told \in Message /\ told.kind = "dialog_connected"
    BY MessageTypes
  <2>2. posted' = Rest \/ (posted' = Append(Rest, told) /\ Pairing /\ pairing \in Registered)
    BY <1>1 DEF SetConnectedDevices, OwnConnected
  <2>3. Registered \subseteq answered
    BY DEF PInv, AnsweredInv
  <2> HIDE DEF told
  <2>4. posted' = Rest \/ (posted' = Append(Rest, told) /\ told.kind # "info" /\ Truthful(told))
    BY <1>1, <2>1, <2>2, <2>3 DEF Truthful
  <2> QED
    BY <1>1, <2>1, <2>4, DialogTold
<1>5. TypeOK'
  BY <1>1, <1>2, <1>4 DEF PInv, CInv, TypeOK
<1>6. finalizing' => Pairing' /\ (finalizing \/ pairing' \in answered)
  BY <1>1, <1>3 DEF PInv, AnsweredInv
<1> QED
  BY <1>2, <1>3, <1>4, <1>5, <1>6, UiMoves

LEMMA ConnectionsChangedHolds ==
  ASSUME PInv, ConnectionsChanged, Remember
  PROVE  PInv'
<1>1. /\ posted # <<>> /\ posted' = SetConnectedDevices(Head(posted).devices, Rest)
      /\ Head(posted).kind = "connections" /\ CentralStill
      /\ UNCHANGED <<dialog, listed, pairing, finalizing, entry, confirmed, configured, file,
                     inputs, disturbed>>
  BY DEF ConnectionsChanged, Next1, appVars
<1>2. CInv' /\ UNCHANGED <<paired, sessions, connecting>>
      /\ \A d \in Devices : Running(d)' = Running(d)
  BY <1>1, UiStill
<1>3. PairingGoesOn /\ ListsAgree' /\ (Pairing' <=> Pairing)
  BY <1>1, <1>2, PairingStays
<1>4. /\ posted' \in Seq(Message)
      /\ \A m \in Messages(posted') : m \in Messages(posted) \/ (m.kind # "info" /\ Truthful(m))
  <2> DEFINE told == [kind |-> "dialog_connected"]
  <2>1. told \in Message /\ told.kind = "dialog_connected"
    BY MessageTypes
  <2>2. posted' = Rest \/ (posted' = Append(Rest, told) /\ pairing \in Head(posted).devices)
    BY <1>1 DEF SetConnectedDevices, OwnConnected
  <2>3. Head(posted).devices \subseteq answered
    BY <1>1, FirstMessage DEF PInv, AnsweredInv
  <2> HIDE DEF told
  <2>4. posted' = Rest \/ (posted' = Append(Rest, told) /\ told.kind # "info" /\ Truthful(told))
    BY <1>1, <2>1, <2>2, <2>3 DEF Truthful
  <2> QED
    BY <1>1, <2>1, <2>4, DialogTold
<1>5. TypeOK'
  BY <1>1, <1>2, <1>4 DEF PInv, CInv, TypeOK
<1>6. finalizing' => Pairing' /\ (finalizing \/ pairing' \in answered)
  BY <1>1, <1>3 DEF PInv, AnsweredInv
<1> QED
  BY <1>2, <1>3, <1>4, <1>5, <1>6, UiMoves

LEMMA DeviceInfoEventHolds ==
  ASSUME PInv, DeviceInfoEvent, Remember
  PROVE  PInv'
<1>1. PICK d \in Devices : d = Head(posted).device /\ posted # <<>> /\ Head(posted).kind = "info"
  BY FirstMessage, MessageTypes DEF DeviceInfoEvent, Next1
<1>2. /\ posted' = SetDeviceInfo(d, Rest) /\ CentralStill
      /\ configured' = configured \union {d} /\ file' = configured \union {d}
      /\ UNCHANGED <<dialog, listed, pairing, finalizing, entry, confirmed, inputs, disturbed>>
  BY <1>1 DEF DeviceInfoEvent
<1>3. CInv' /\ UNCHANGED <<paired, sessions, connecting>>
      /\ \A e \in Devices : Running(e)' = Running(e)
  BY <1>2, UiStill
<1>4. /\ d \in answered /\ (d \notin disturbed => Theirs(d))
      /\ configured \subseteq Devices
  BY <1>1, FirstMessage DEF PInv, TypeOK, OwnedInv, AnsweredInv
<1>5. PairingGoesOn /\ (Pairing' <=> Pairing)
  BY <1>2 DEF PairingGoesOn, Pairing, Theirs
<1>6. ListsAgree'
  BY <1>2, <1>3, <1>4, <1>5 DEF PInv, ListsAgree, Theirs
<1>7. /\ posted' \in Seq(Message)
      /\ \A m \in Messages(posted') : m \in Messages(posted) \/ (m.kind # "info" /\ Truthful(m))
  <2> DEFINE told == [kind |-> "dialog_info", device |-> d]
  <2>1. told \in Message /\ told.kind = "dialog_info" /\ told.device = d
    BY MessageTypes
  <2>2. posted' = Rest \/ posted' = Append(Rest, told)
    BY <1>2 DEF SetDeviceInfo
  <2> HIDE DEF told
  <2>3. told.kind # "info" /\ Truthful(told)
    BY <1>4, <2>1 DEF Truthful
  <2> QED
    BY <1>1, <2>1, <2>2, <2>3, DialogTold
<1>8. TypeOK'
  BY <1>2, <1>3, <1>4, <1>7 DEF PInv, CInv, TypeOK
<1>9. finalizing' => Pairing' /\ (finalizing \/ pairing' \in answered)
  BY <1>2, <1>5 DEF PInv, AnsweredInv
<1> QED
  BY <1>3, <1>5, <1>6, <1>7, <1>8, <1>9, UiMoves

LEMMA ConnectionErrorHolds ==
  ASSUME PInv, ConnectionError, Remember
  PROVE  PInv'
<1> DEFINE told == [kind |-> "dialog_error"]
<1>1. told \in Message /\ told.kind = "dialog_error"
  BY MessageTypes
<1>2. /\ posted # <<>> /\ CentralStill
      /\ posted' = Rest \/ posted' = Append(Rest, told)
      /\ entry' = entry \/ entry' = NoDevice
      /\ UNCHANGED <<dialog, listed, pairing, finalizing, confirmed, configured, file, inputs,
                     disturbed>>
  BY DEF ConnectionError, Next1
<1> HIDE DEF told
<1>3. CInv' /\ UNCHANGED <<paired, sessions, connecting>>
      /\ \A d \in Devices : Running(d)' = Running(d)
  BY <1>2, UiStill
<1>4. PairingGoesOn /\ ListsAgree' /\ (Pairing' <=> Pairing)
  BY <1>2, <1>3, PairingStays
<1>5. /\ posted' \in Seq(Message)
      /\ \A m \in Messages(posted') : m \in Messages(posted) \/ (m.kind # "info" /\ Truthful(m))
  <2>1. told.kind # "info" /\ Truthful(told)
    BY <1>1 DEF Truthful
  <2> QED
    BY <1>1, <1>2, <2>1, DialogTold
<1>6. TypeOK'
  BY <1>2, <1>3, <1>5 DEF PInv, CInv, TypeOK
<1>7. finalizing' => Pairing' /\ (finalizing \/ pairing' \in answered)
  BY <1>2, <1>4 DEF PInv, AnsweredInv
<1> QED
  BY <1>3, <1>4, <1>5, <1>6, <1>7, UiMoves

\* What the dialog's own messages share: one is taken and none is posted.
LEMMA DialogMessage ==
  ASSUME PInv, posted # <<>>, posted' = Rest, CentralStill, Remember, PairingGoesOn, ListsAgree',
         dialog' \in BOOLEAN, finalizing' \in BOOLEAN, listed' \subseteq Devices,
         pairing' \in Devices \union {NoDevice}, entry' \in Devices \union {NoDevice},
         confirmed' \subseteq Devices, configured' \subseteq Devices, file' \subseteq Devices,
         inputs' = inputs,
         finalizing' => Pairing' /\ (finalizing \/ pairing' \in answered)
  PROVE  PInv'
<1>1. CInv' /\ UNCHANGED <<paired, sessions, connecting>>
      /\ \A d \in Devices : Running(d)' = Running(d)
  BY UiStill
<1>2. posted' \in Seq(Message) /\ \A m \in Messages(posted') : m \in Messages(posted)
  BY FirstMessage
<1>3. TypeOK'
  BY <1>1, <1>2 DEF PInv, CInv, TypeOK
<1> QED
  BY <1>1, <1>2, <1>3, UiMoves

LEMMA DialogHandlerHolds ==
  ASSUME PInv, HandlePairingConnected \/ HandlePairingSucceeded \/ HandlePairingError, Remember
  PROVE  PInv'
<1>1. posted # <<>> /\ posted' = Rest /\ CentralStill /\ paired' = paired /\ inputs' = inputs
  BY DEF HandlePairingConnected, HandlePairingSucceeded, HandlePairingError, Next1, CentralStill,
         ScanAgain
<1>2. /\ dialog \in BOOLEAN /\ finalizing \in BOOLEAN /\ listed \subseteq Devices
      /\ pairing \in Devices \union {NoDevice} /\ entry \in Devices \union {NoDevice}
      /\ confirmed \subseteq Devices /\ configured \subseteq Devices /\ file \subseteq Devices
      /\ finalizing => Pairing
  BY DEF PInv, TypeOK, AnsweredInv
<1>3. CASE HandlePairingConnected
  <2>1. /\ Head(posted).kind = "dialog_connected" /\ finalizing' = (finalizing \/ Pairing)
        /\ UNCHANGED <<dialog, listed, pairing, entry, confirmed, configured, file, disturbed>>
    BY <1>3 DEF HandlePairingConnected, Next1
  <2>2. PairingGoesOn /\ ListsAgree' /\ (Pairing' <=> Pairing)
    BY <1>1, <2>1, PairingStays
  <2>3. Pairing => pairing \in answered
    BY <1>1, <2>1, FirstMessage DEF PInv, AnsweredInv
  <2>4. finalizing' \in BOOLEAN
    BY <2>1
  <2> QED
    BY <1>1, <1>2, <2>1, <2>2, <2>3, <2>4, DialogMessage
<1>4. CASE HandlePairingSucceeded
  <2>1. CASE Pairing /\ pairing = Head(posted).device
    <3>1. FinalizePairing
      BY <1>4, <2>1 DEF HandlePairingSucceeded
    <3> QED
      BY <1>1, <2>1, <3>1, FinalizePairingStep, DialogMessage
  <2>2. CASE ~(Pairing /\ pairing = Head(posted).device)
    <3>1. UNCHANGED <<dialog, listed, pairing, finalizing, entry, confirmed, configured, file,
                      disturbed>>
      BY <1>4, <2>2 DEF HandlePairingSucceeded
    <3>2. PairingGoesOn /\ ListsAgree' /\ (Pairing' <=> Pairing)
      BY <1>1, <3>1, PairingStays
    <3> QED
      BY <1>1, <1>2, <3>1, <3>2, DialogMessage
  <2> QED
    BY <2>1, <2>2
<1>5. CASE HandlePairingError
  <2>1. entry' = entry
    BY <1>5 DEF HandlePairingError
  <2>2. CASE dialog
    <3>1. ScanAgain
      BY <1>5, <2>2 DEF HandlePairingError
    <3>2. /\ pairing' = NoDevice /\ finalizing' = FALSE /\ listed' = {}
          /\ UNCHANGED <<dialog, confirmed, configured, file>>
      BY <3>1 DEF ScanAgain
    <3> QED
      BY <1>1, <1>2, <2>1, <3>1, <3>2, ScanAgainStep, DialogMessage
  <2>3. CASE ~dialog
    <3>1. UNCHANGED <<dialog, listed, pairing, finalizing, confirmed, configured, file, disturbed>>
      BY <1>5, <2>3 DEF HandlePairingError
    <3>2. PairingGoesOn /\ ListsAgree' /\ (Pairing' <=> Pairing)
      BY <1>1, <3>1, PairingStays
    <3> QED
      BY <1>1, <1>2, <2>1, <3>1, <3>2, DialogMessage
  <2> QED
    BY <2>2, <2>3
<1> QED
  BY <1>3, <1>4, <1>5

\* What the timers and the user's way with the dialog share: nothing is posted.
LEMMA DialogStep ==
  ASSUME PInv, posted' = posted, CInv', UNCHANGED <<paired, sessions, connecting>>, Remember,
         \A d \in Devices : Running(d)' = Running(d), PairingGoesOn, ListsAgree',
         dialog' \in BOOLEAN, finalizing' \in BOOLEAN, listed' \subseteq Devices,
         pairing' \in Devices \union {NoDevice}, entry' \in Devices \union {NoDevice},
         confirmed' \subseteq Devices, configured' \subseteq Devices, file' \subseteq Devices,
         inputs' \in 0..MaxInputs, finalizing' => Pairing' /\ finalizing
  PROVE  PInv'
<1>1. TypeOK'
  BY DEF PInv, CInv, TypeOK
<1>2. \A m \in Messages(posted') : m \in Messages(posted)
  OBVIOUS
<1> QED
  BY <1>1, <1>2, UiMoves

LEMMA TimerHolds ==
  ASSUME PInv, HandlePairingFinalize \/ HandlePairingTimeout, Remember
  PROVE  PInv'
<1>1. posted' = posted /\ paired' = paired /\ inputs' \in 0..MaxInputs /\ Pairing
  BY DEF HandlePairingFinalize, HandlePairingTimeout, CentralStill, PInv, TypeOK, ScanAgain
<1>2. CASE HandlePairingFinalize
  <2>1. FinalizePairing /\ CentralStill
    BY <1>2 DEF HandlePairingFinalize
  <2>2. CInv' /\ UNCHANGED <<paired, sessions, connecting>>
        /\ \A d \in Devices : Running(d)' = Running(d)
    BY <2>1, UiStill
  <2> QED
    BY <1>1, <2>1, <2>2, FinalizePairingStep, DialogStep
<1>3. CASE HandlePairingTimeout
  <2>1. /\ ScanAgain /\ entry' = NoDevice /\ cancelled' = cancelled \union {pairing}
        /\ UNCHANGED <<paired, sessions, connecting, watching, slots, linked, drops, faults, missed>>
    BY <1>3 DEF HandlePairingTimeout, CancelPendingConnect, TimedOutDevice
  <2>2. /\ dialog \in BOOLEAN /\ pairing \in Devices /\ cancelled \subseteq Devices
        /\ confirmed \subseteq Devices /\ configured \subseteq Devices /\ file \subseteq Devices
        /\ watching \in BOOLEAN /\ faults \in 0..MaxFaults
    BY <1>1 DEF PInv, TypeOK, CentralTypeOK, Pairing
  <2>3. CInv' /\ UNCHANGED <<paired, sessions, connecting>>
        /\ \A d \in Devices : Running(d)' = Running(d)
    BY <2>1, <2>2, UiCentral
  <2>4. /\ pairing' = NoDevice /\ finalizing' = FALSE /\ listed' = {}
        /\ UNCHANGED <<dialog, confirmed, configured, file>>
    BY <2>1 DEF ScanAgain
  <2> QED
    BY <1>1, <2>1, <2>2, <2>3, <2>4, ScanAgainStep, DialogStep
<1> QED
  BY <1>2, <1>3

LEMMA InputTyped ==
  ASSUME TypeOK, Input
  PROVE  posted = <<>> /\ inputs' \in 0..MaxInputs
<1>1. inputs \in 0..MaxInputs /\ MaxInputs \in Nat /\ inputs < MaxInputs /\ inputs' = inputs + 1
  BY PairingAssumption DEF TypeOK, Input
<1> QED
  BY <1>1 DEF Input

LEMMA DialogHolds ==
  ASSUME PInv, Remember,
         ShowPairDeviceDialog \/ Close \/ \E d \in Devices : DialogAdvertisement(d)
  PROVE  PInv'
<1>1. /\ dialog \in BOOLEAN /\ finalizing \in BOOLEAN /\ listed \subseteq Devices
      /\ pairing \in Devices \union {NoDevice} /\ entry \in Devices \union {NoDevice}
      /\ confirmed \subseteq Devices /\ configured \subseteq Devices /\ file \subseteq Devices
      /\ inputs \in 0..MaxInputs
      /\ finalizing => Pairing
  BY DEF PInv, TypeOK, AnsweredInv
<1>2. posted' = posted /\ CentralStill
      /\ UNCHANGED <<entry, confirmed, configured, file>>
  BY DEF ShowPairDeviceDialog, Close, DialogAdvertisement
<1>3. CInv' /\ UNCHANGED <<paired, sessions, connecting>>
      /\ \A d \in Devices : Running(d)' = Running(d)
  BY <1>2, UiStill
<1>4. CASE ShowPairDeviceDialog
  <2>1. /\ dialog' = TRUE /\ listed' = {} /\ pairing' = NoDevice /\ finalizing' = FALSE
        /\ ~dialog /\ UNCHANGED <<inputs, disturbed>>
    BY <1>4 DEF ShowPairDeviceDialog
  <2>2. ~Pairing' /\ ~Pairing
    BY <2>1 DEF Pairing
  <2>3. PairingGoesOn /\ ListsAgree'
    BY <1>2, <1>3, <2>1, <2>2, PairingEnds
  <2>4. inputs' \in 0..MaxInputs
    BY <1>1, <2>1
  <2> QED
    BY <1>1, <1>2, <1>3, <2>1, <2>3, <2>4, DialogStep
<1>5. CASE Close
  <2>1. /\ dialog' = FALSE /\ listed' = {} /\ pairing' = NoDevice /\ finalizing' = FALSE
        /\ disturbed' = disturbed \union ({pairing} \ {NoDevice}) /\ Input
    BY <1>5 DEF Close, CloseDialog
  <2>2. ~Pairing' /\ (Pairing => pairing \in disturbed')
    BY <2>1 DEF Pairing
  <2>3. PairingGoesOn /\ ListsAgree'
    BY <1>2, <1>3, <2>1, <2>2, PairingEnds
  <2>4. inputs' \in 0..MaxInputs
    BY <2>1, InputTyped DEF PInv
  <2> QED
    BY <1>1, <1>2, <1>3, <2>1, <2>3, <2>4, DialogStep
<1>6. ASSUME NEW d \in Devices, DialogAdvertisement(d)
      PROVE  PInv'
  <2>1. /\ listed' = listed \union {d}
        /\ UNCHANGED <<dialog, pairing, finalizing, inputs, disturbed>>
    BY <1>6 DEF DialogAdvertisement
  <2>2. PairingGoesOn /\ ListsAgree' /\ (Pairing' <=> Pairing)
    BY <1>2, <1>3, <2>1, PairingStays
  <2>3. /\ inputs' \in 0..MaxInputs /\ listed' \subseteq Devices /\ dialog' \in BOOLEAN
        /\ finalizing' \in BOOLEAN /\ pairing' \in Devices \union {NoDevice}
    BY <1>1, <2>1
  <2> QED
    BY <1>1, <1>2, <1>3, <2>1, <2>2, <2>3, DialogStep
<1> QED
  BY <1>4, <1>5, <1>6

\* The connect that a pairing begins is the only one of its device.
LEMMA PairSelectedDeviceHolds ==
  ASSUME PInv, NEW d \in Devices, PairSelectedDevice(d), Remember
  PROVE  PInv'
<1>1. /\ Input /\ dialog /\ pairing = NoDevice /\ pairing' = d /\ entry' = d
      /\ ConnectPairedDevice(d)
      /\ UNCHANGED <<posted, dialog, listed, finalizing, confirmed, configured, file, disturbed>>
  BY DEF PairSelectedDevice
<1>2. /\ paired' = paired \union {d}
      /\ UNCHANGED <<sessions, cancelled, watching, linked, drops, faults, missed>>
      /\ paired \subseteq Devices /\ connecting \subseteq Devices /\ cancelled \subseteq Devices
      /\ sessions \in [Devices -> Slots \union {0}]
      /\ watching \in BOOLEAN /\ faults \in 0..MaxFaults
  BY <1>1 DEF ConnectPairedDevice, PInv, TypeOK, CentralTypeOK
<1>3. posted = <<>> /\ inputs' \in 0..MaxInputs
  BY <1>1, InputTyped DEF PInv
<1>4. ~Pairing /\ Pairing' /\ finalizing = FALSE
  <2>1. ~Pairing /\ finalizing \in BOOLEAN /\ (finalizing => Pairing)
    BY <1>1 DEF PInv, TypeOK, AnsweredInv, Pairing
  <2>2. Pairing'
    BY <1>1, CentralAssumption DEF Pairing
  <2> QED
    BY <2>1, <2>2
<1>5. CInv
  BY DEF PInv, CInv, TypeOK
<1>6. /\ CInv' /\ Registered' = Registered
      /\ \A e \in Devices : e # d => Running(e)' = Running(e)
      /\ \/ connecting' = connecting /\ Running(d)' = Running(d)
         \/ /\ sessions[d] = 0 /\ d \notin connecting /\ connecting' = connecting \union {d}
            /\ \E s \in Slots : Running(d)' = Running(d) \union {s}
  <2>1. CASE sessions[d] # 0 \/ d \in connecting
    <3>1. UNCHANGED <<connecting, slots>>
      BY <1>1, <2>1 DEF ConnectPairedDevice
    <3>2. CInv' /\ Registered' = Registered /\ \A e : Running(e)' = Running(e)
      BY <1>2, <1>5, <3>1, CentralKept
    <3> QED
      BY <3>1, <3>2
  <2>2. CASE ~(sessions[d] # 0 \/ d \in connecting)
    <3>1. connecting' = connecting \union {d} /\ BeginConnect(d, TRUE)
      BY <1>1, <2>2 DEF ConnectPairedDevice
    <3> QED
      BY <1>2, <1>5, <2>2, <3>1, BeginConnectStep
  <2> QED
    BY <2>1, <2>2
<1>7. TypeOK'
  BY <1>1, <1>3, <1>6 DEF PInv, CInv, TypeOK
<1>8. ConnectInv'
  <2> SUFFICES ASSUME NEW e \in Devices \ disturbed
               PROVE  /\ \A t, u \in Running(e)' : t = u
                      /\ Running(e)' # {} => e \in connecting' /\ sessions'[e] = 0
    BY <1>1 DEF ConnectInv
  <2>1. /\ \A t, u \in Running(e) : t = u
        /\ Running(e) # {} => e \in connecting /\ sessions[e] = 0
    BY DEF PInv, ConnectInv
  <2> QED
    BY <1>2, <1>6, <2>1
<1>9. Messages(posted)' = {} /\ Messages(posted) = {}
  BY <1>1, <1>3, NoMessages
<1>10. OwnedInv'
  <2>1. \A e \in Devices \ disturbed : Running(e)' # {} => Theirs(e)'
    BY <1>1, <1>4, <1>6 DEF PInv, OwnedInv, Theirs
  <2>2. pairing' \in paired'
    BY <1>1, <1>2
  <2> QED
    BY <1>1, <1>9, <2>1, <2>2 DEF OwnedInv
<1>11. ListsAgree'
  <2> SUFFICES ASSUME NEW e \in Devices \ disturbed, e # d
               PROVE  /\ e \in confirmed <=> e \in file
                      /\ e \in confirmed <=> e \in configured
                      /\ e \in confirmed <=> e \in paired'
    BY <1>1, <1>4 DEF ListsAgree
  <2> QED
    BY <1>2, <1>4 DEF PInv, ListsAgree
<1>12. AnsweredInv'
  <2>1. Registered' \subseteq answered' /\ finalizing' = FALSE
    BY <1>1, <1>4, <1>7, RememberFacts DEF TypeOK
  <2> QED
    BY <1>9, <2>1 DEF AnsweredInv
<1> QED
  BY <1>6, <1>7, <1>8, <1>10, <1>11, <1>12 DEF PInv, CInv

\* The list is replaced: the connects that go on are nobody's any more.
LEMMA RemovePairedDeviceHolds ==
  ASSUME PInv, NEW d \in Devices, RemovePairedDevice(d), Remember
  PROVE  PInv'
<1> DEFINE ids == confirmed \ {d}
<1>1. /\ Input /\ UpdatePairedDeviceIds(ids) /\ disturbed' = disturbed \union UnderWay
      /\ confirmed' = ids /\ configured' = ids /\ file' = ids
      /\ UNCHANGED <<posted, dialog, listed, pairing, finalizing, entry>>
  BY DEF RemovePairedDevice, RemoveSavedDevice
<1>2. ids \in SUBSET Devices /\ CInv
  BY DEF PInv, CInv, TypeOK
<1> HIDE DEF ids
<1>3. posted = <<>> /\ inputs' \in 0..MaxInputs
  BY <1>1, InputTyped DEF PInv
<1>4. /\ CInv' /\ Registered' = {} /\ \A e \in Devices : Running(e)' = Running(e)
      /\ paired' = ids
  BY <1>1, <1>2, UpdatePairedDeviceIdsStep
<1>5. TypeOK'
  BY <1>1, <1>2, <1>3, <1>4 DEF PInv, CInv, TypeOK
<1>6. \A e \in Devices \ disturbed' : Running(e)' = {} /\ ~(Pairing' /\ pairing' = e)
  BY <1>1, <1>4 DEF UnderWay, Pairing
<1>7. Messages(posted)' = {}
  BY <1>1, <1>3, NoMessages
<1>8. ConnectInv'
  BY <1>6 DEF ConnectInv
<1>9. OwnedInv'
  <2>1. Pairing' => pairing' \in Devices
    BY <1>5 DEF TypeOK, Pairing
  <2> QED
    BY <1>6, <1>7, <2>1 DEF OwnedInv
<1>10. ListsAgree'
  BY <1>1, <1>4 DEF ListsAgree
<1>11. AnsweredInv'
  <2>1. answered \subseteq answered'
    BY <1>5, RememberFacts DEF TypeOK
  <2>2. finalizing' => Pairing' /\ pairing' \in answered'
    BY <1>1, <2>1 DEF PInv, AnsweredInv, Pairing
  <2> QED
    BY <1>4, <1>7, <2>2 DEF AnsweredInv
<1> QED
  BY <1>4, <1>5, <1>8, <1>9, <1>10, <1>11 DEF PInv, CInv

-----------------------------------------------------------------------------
(***************************************************************************)
(* The specification                                                       *)
(***************************************************************************)
\* The paired devices are connected, each in a slot of its own.
LEMMA CentralInitFacts ==
  ASSUME CentralInit(InitiallyPaired)
  PROVE  /\ CInv /\ Registered = InitiallyPaired /\ \A d \in Devices : Running(d) = {}
         /\ paired = InitiallyPaired /\ posted = <<>>
<1> DEFINE own == CHOOSE f \in [InitiallyPaired -> Slots] :
                    \A d, e \in InitiallyPaired : f[d] = f[e] => d = e
           seat(s) == CHOOSE d \in InitiallyPaired : own[d] = s
           Served(d) == [Free EXCEPT !.step = "served", !.device = d, !.tries = 1]
           taken == [s \in Slots |->
                       IF \E d \in InitiallyPaired : own[d] = s
                       THEN Served(seat(s)) ELSE Free]
<1>1. /\ own \in [InitiallyPaired -> Slots]
      /\ \A d, e \in InitiallyPaired : own[d] = own[e] => d = e
  BY PairingAssumption
<1>2. /\ paired = InitiallyPaired /\ watching = (InitiallyPaired # {})
      /\ sessions = [d \in Devices |-> IF d \in InitiallyPaired THEN own[d] ELSE 0]
      /\ slots = taken
      /\ connecting = {} /\ cancelled = {} /\ linked = InitiallyPaired
      /\ drops = {} /\ missed = {} /\ posted = <<>> /\ faults = 0
  BY DEF CentralInit
<1> HIDE DEF own
<1>3. ASSUME NEW s \in Slots, NEW d \in InitiallyPaired, own[d] = s
      PROVE  seat(s) = d
  BY <1>1, <1>3
<1>4. InitiallyPaired \subseteq Devices /\ 0 \notin Slots /\ NoDevice \notin Devices
      /\ 0 \in 0..MaxFaults /\ 0 \in 0..DiscoveryAttempts /\ 1 \in 0..DiscoveryAttempts
  BY PairingAssumption, CentralAssumption
<1> HIDE DEF seat
<1>5. \A s \in Slots :
        \/ slots[s] = Free /\ \A d \in InitiallyPaired : own[d] # s
        \/ \E d \in InitiallyPaired : own[d] = s /\ slots[s] = Served(d)
  BY <1>2, <1>3
<1>6. Free \in SlotType /\ Free.step = "free" /\ Free.device = NoDevice
  BY <1>4 DEF Free, SlotType
<1>7. \A d \in InitiallyPaired :
        Served(d) \in SlotType /\ Served(d).step = "served" /\ Served(d).device = d
  BY <1>4, <1>6 DEF SlotType
<1> HIDE DEF Served
<1>8. slots \in [Slots -> SlotType]
  <2>1. \A s \in Slots : slots[s] \in SlotType
    BY <1>5, <1>6, <1>7
  <2> QED
    BY <1>2, <2>1
<1>9. \A s \in Slots :
        \/ slots[s].step = "free" /\ slots[s].device = NoDevice
           /\ \A d \in InitiallyPaired : own[d] # s
        \/ slots[s].step = "served" /\ slots[s].device \in InitiallyPaired
           /\ own[slots[s].device] = s
  BY <1>5, <1>6, <1>7
<1> HIDE DEF taken
<1>10. CentralTypeOK
  BY <1>1, <1>2, <1>4, <1>8 DEF CentralTypeOK
<1>11. Registered = InitiallyPaired
  BY <1>1, <1>2, <1>4 DEF Registered
<1>12. SlotInv
  <2>1. \A d \in Registered :
          slots[sessions[d]].device = d /\ slots[sessions[d]].step \in {"registered", "served"}
    BY <1>1, <1>2, <1>4, <1>9, <1>11
  <2>2. drops \subseteq Attached
    BY <1>2
  <2> QED
    BY <1>4, <1>9, <2>1, <2>2 DEF SlotInv
<1>13. LinkInv
  BY <1>2, <1>9 DEF LinkInv, Late
<1>14. \A d \in Devices : Running(d) = {}
  BY <1>9 DEF Running, Steps
<1> QED
  BY <1>2, <1>10, <1>11, <1>12, <1>13, <1>14 DEF CInv

LEMMA PInvInit == Init => PInv
<1> SUFFICES ASSUME Init PROVE PInv
  OBVIOUS
<1>1. /\ CInv /\ Registered = InitiallyPaired /\ \A d \in Devices : Running(d) = {}
      /\ paired = InitiallyPaired /\ posted = <<>>
  BY CentralInitFacts DEF Init
<1>2. /\ dialog = FALSE /\ listed = {} /\ pairing = NoDevice /\ finalizing = FALSE
      /\ entry = NoDevice
      /\ confirmed = InitiallyPaired /\ configured = InitiallyPaired /\ file = InitiallyPaired
      /\ inputs = 0 /\ disturbed = {} /\ answered = InitiallyPaired
  BY DEF Init
<1>3. InitiallyPaired \subseteq Devices /\ 0 \in 0..MaxInputs
  BY PairingAssumption
<1>4. posted \in Seq(Message)
  BY <1>1
<1>5. TypeOK
  BY <1>1, <1>2, <1>3, <1>4 DEF TypeOK, CInv
<1>6. Messages(posted) = {}
  BY <1>1, NoMessages
<1>7. ConnectInv
  BY <1>1 DEF ConnectInv
<1>8. OwnedInv
  BY <1>1, <1>2, <1>6 DEF OwnedInv, Pairing
<1>9. ListsAgree
  BY <1>1, <1>2 DEF ListsAgree
<1>10. AnsweredInv
  BY <1>1, <1>2, <1>6 DEF AnsweredInv
<1> QED
  BY <1>1, <1>5, <1>7, <1>8, <1>9, <1>10 DEF PInv, CInv

LEMMA PInvStutter ==
  ASSUME PInv, UNCHANGED vars
  PROVE  PInv'
<1>1. /\ UNCHANGED <<paired, sessions, connecting, cancelled, watching, slots, linked, drops,
                     posted, faults, missed>>
      /\ UNCHANGED <<dialog, listed, pairing, finalizing, entry, confirmed, configured, file,
                     inputs, disturbed, answered>>
  BY DEF vars, centralVars, appVars
<1>2. TypeOK' /\ SlotInv' /\ LinkInv' /\ ConnectInv'
  BY <1>1 DEF PInv, TypeOK, CentralTypeOK, SlotInv, LinkInv, ConnectInv, Attached, Registered,
              Running
<1>3. OwnedInv' /\ ListsAgree' /\ AnsweredInv'
  BY <1>1 DEF PInv, OwnedInv, ListsAgree, AnsweredInv, Messages, Theirs, Pairing, Running, Registered
<1> QED
  BY <1>2, <1>3 DEF PInv

LEMMA PInvStep ==
  ASSUME PInv, [Next]_vars
  PROVE  PInv'
<1>1. CASE UiMessage
  BY <1>1, RescanHolds, ConnectionsChangedHolds, DeviceInfoEventHolds, ConnectionErrorHolds,
     DialogHandlerHolds, TimerHolds DEF UiMessage
<1>2. CASE User
  <2>1. CASE ShowPairDeviceDialog \/ Close \/ \E d \in Devices : DialogAdvertisement(d)
    BY <1>2, <2>1, DialogHolds DEF User
  <2>2. ASSUME NEW d \in Devices, PairSelectedDevice(d)
        PROVE  PInv'
    BY <1>2, <2>2, PairSelectedDeviceHolds DEF User
  <2>3. ASSUME NEW d \in Devices, RemovePairedDevice(d)
        PROVE  PInv'
    BY <1>2, <2>3, RemovePairedDeviceHolds DEF User
  <2> QED
    BY <1>2, <2>1, <2>2, <2>3 DEF User
<1>3. ASSUME NEW s \in Slots, ConnectStep(s) \/ BackgroundStep(s) \/ Disconnected(s)
      PROVE  PInv'
  BY <1>3, ConnectStepHolds, BackgroundStepHolds, DisconnectedHolds
<1>4. ASSUME NEW d \in Devices, Radio(d) \/ Loss(d)
      PROVE  PInv'
  BY <1>4, RadioHolds
<1>5. CASE UNCHANGED vars
  BY <1>5, PInvStutter
<1> QED
  BY <1>1, <1>2, <1>3, <1>4, <1>5 DEF Next

\* Whatever the user, the radio and the threads do, the parts of PInv hold.
THEOREM PairingInvariance == Spec => []PInv
<1>1. PInv /\ [Next]_vars => PInv'
  BY PInvStep
<1> QED
  BY PInvInit, <1>1, PTL DEF Spec

\* Type correctness, the queue of the UI thread included.
THEOREM PairingTypes == Spec => []TypeOK
<1>1. PInv => TypeOK
  BY DEF PInv
<1> QED
  BY PairingInvariance, <1>1, PTL

\* The claim on an address passes from the advertisement or the dialog to the
\* connect and on to the session, over three threads, and never is there a
\* second connect, or a connect beside a session.
THEOREM OneConnectAlways == Spec => []OneConnect
<1>1. ASSUME PInv PROVE OneConnect
  <2> SUFFICES ASSUME NEW d \in Devices \ disturbed
               PROVE  Cardinality(Running(d)) <= 1 /\ (sessions[d] # 0 => Running(d) = {})
    BY DEF OneConnect
  <2>1. /\ \A s, t \in Running(d) : s = t
        /\ Running(d) # {} => sessions[d] = 0
    BY <1>1 DEF PInv, ConnectInv
  <2>2. Cardinality(Running(d)) <= 1
    <3>1. CASE Running(d) = {}
      BY <3>1, FS_EmptySet
    <3>2. CASE Running(d) # {}
      <4>1. PICK s : s \in Running(d)
        BY <3>2
      <4>2. Running(d) = {s}
        BY <2>1, <4>1
      <4> QED
        BY <4>2, FS_Singleton
    <3> QED
      BY <3>1, <3>2
  <2> QED
    BY <2>1, <2>2
<1> QED
  BY PairingInvariance, <1>1, PTL

\* The central, the coordinator, its configuration and the file hold the same
\* list of paired devices, whatever was saved, posted or overtaken.
THEOREM ListsAgreeAlways == Spec => []ListsAgree
<1>1. PInv => ListsAgree
  BY DEF PInv
<1> QED
  BY PairingInvariance, <1>1, PTL

\* A session in the table whose device has no link has its event to come, or
\* had it before it was in the table.
THEOREM LostIsForgottenAlways == Spec => []LostIsForgotten
<1>1. ASSUME PInv PROVE LostIsForgotten
  <2> SUFFICES ASSUME NEW d \in Registered, d \notin linked
               PROVE  sessions[d] \in drops \union missed
    BY DEF LostIsForgotten
  <2>1. sessions[d] \in Slots
    BY <1>1 DEF PInv, TypeOK, CentralTypeOK, Registered
  <2>2. slots[sessions[d]].device = d /\ slots[sessions[d]].step \in Late
    BY <1>1 DEF PInv, SlotInv, Late
  <2> QED
    BY <1>1, <2>1, <2>2 DEF PInv, LinkInv
<1> QED
  BY PairingInvariance, <1>1, PTL

\* A device is added to the list only after it has answered.
THEOREM SavedHasAnsweredAlways == Spec => SavedHasAnswered
<1>1. ASSUME PInv, Next, NEW d \in confirmed' \ confirmed
      PROVE  d \in answered
  <2>1. CASE UiMessage
    <3>1. ASSUME Pairing, FinalizePairing
          PROVE  d = pairing
      BY <3>1 DEF FinalizePairing, ConfirmPairedDeviceIds
    <3>2. CASE HandlePairingSucceeded
      <4>1. Pairing /\ pairing = Head(posted).device /\ FinalizePairing
        BY <3>2 DEF HandlePairingSucceeded
      <4>2. Head(posted).device \in answered
        BY <1>1, <3>2, FirstMessage DEF HandlePairingSucceeded, Next1, PInv, AnsweredInv
      <4> QED
        BY <3>1, <4>1, <4>2
    <3>3. CASE HandlePairingFinalize
      BY <1>1, <3>1, <3>3 DEF HandlePairingFinalize, PInv, AnsweredInv
    <3>4. CASE ~(HandlePairingSucceeded \/ HandlePairingFinalize)
      <4>1. confirmed' = confirmed
        BY <2>1, <3>4 DEF UiMessage, Rescan, ConnectionsChanged, DeviceInfoEvent, ConnectionError,
              HandlePairingConnected, HandlePairingError, HandlePairingTimeout, ScanAgain, appVars
      <4> QED
        BY <4>1
    <3> QED
      BY <3>2, <3>3, <3>4
  <2>2. CASE User
    <3>1. confirmed' = confirmed \/ \E e \in Devices : confirmed' = confirmed \ {e}
      BY <2>2 DEF User, ShowPairDeviceDialog, Close, PairSelectedDevice, RemovePairedDevice,
                  DialogAdvertisement
    <3> QED
      BY <3>1
  <2>3. ASSUME NEW s \in Slots, ConnectStep(s) \/ BackgroundStep(s) \/ Disconnected(s)
        PROVE  confirmed' = confirmed
    BY <2>3 DEF ConnectStep, BackgroundStep, Disconnected, SetPairingError, appVars
  <2>4. ASSUME NEW e \in Devices, Radio(e) \/ Loss(e)
        PROVE  confirmed' = confirmed
    BY <2>4 DEF Radio, Loss, appVars
  <2> QED
    BY <1>1, <2>1, <2>2, <2>3, <2>4 DEF Next
<1>2. PInv /\ [Next]_vars => [\A d \in confirmed' \ confirmed : d \in answered]_vars
  BY <1>1
<1> QED
  BY PairingInvariance, <1>2, PTL DEF Spec, SavedHasAnswered
=============================================================================
