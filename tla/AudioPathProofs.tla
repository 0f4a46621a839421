-------------------------- MODULE AudioPathProofs --------------------------
(***************************************************************************)
(* Proofs about AudioPath, for every value of its constants.               *)
(*                                                                         *)
(* IInv is the inductive invariant of the tasks.  The step is proved for   *)
(* each of the tasks by a lemma of its own; the theorems that follow from  *)
(* IInv come after them.  Then StreamInv, of what the radio holds, which   *)
(* gives the refinement of AudioStream; and WInv, of the window.           *)
(***************************************************************************)
EXTENDS AudioPath, TLAPS

-----------------------------------------------------------------------------
\* Sequences.

\* What Head and Tail give of a queue.
LEMMA TailFacts ==
  ASSUME NEW S, NEW s \in Seq(S), s # <<>>
  PROVE  /\ Head(s) \in S
         /\ Head(s) = s[1]
         /\ 1 \in DOMAIN s
         /\ Len(s) \in Nat \ {0}
         /\ Tail(s) \in Seq(S)
         /\ Len(Tail(s)) = Len(s) - 1
         /\ DOMAIN s = 1..Len(s)
         /\ DOMAIN Tail(s) = 1..(Len(s) - 1)
         /\ \A i \in DOMAIN Tail(s) : i + 1 \in DOMAIN s /\ Tail(s)[i] = s[i + 1]
OBVIOUS

LEMMA TailLast ==
  ASSUME NEW S, NEW s \in Seq(S), s # <<>>, Len(s) # 1
  PROVE  Tail(s) # <<>> /\ Last(Tail(s)) = Last(s)
<1>1. Len(s) \in Nat \ {0, 1} /\ Len(Tail(s)) = Len(s) - 1
  BY TailFacts
<1>2. Len(s) - 1 \in DOMAIN Tail(s)
  BY <1>1, TailFacts
<1>3. Tail(s)[Len(s) - 1] = s[Len(s)]
  BY <1>1, <1>2
<1>4. Tail(s) # <<>>
  BY <1>1
<1> QED
  BY <1>1, <1>3, <1>4 DEF Last

\* What Append makes of a queue.
LEMMA AppendFacts ==
  ASSUME NEW S, NEW s \in Seq(S), NEW e \in S
  PROVE  /\ Append(s, e) \in Seq(S)
         /\ Append(s, e) # <<>>
         /\ Len(s) \in Nat
         /\ Len(Append(s, e)) = Len(s) + 1
         /\ DOMAIN s = 1..Len(s)
         /\ DOMAIN Append(s, e) = 1..(Len(s) + 1)
         /\ Append(s, e)[Len(s) + 1] = e
         /\ \A i \in DOMAIN s : Append(s, e)[i] = s[i]
OBVIOUS

LEMMA AppendCases ==
  ASSUME NEW S, NEW s \in Seq(S), NEW e \in S, NEW i \in DOMAIN Append(s, e)
  PROVE  \/ i \in DOMAIN s /\ i \in 1..Len(s) /\ Append(s, e)[i] = s[i]
         \/ i = Len(s) + 1 /\ Append(s, e)[i] = e
BY AppendFacts

\* Order survives taking the first entry out and adding a later one.
LEMMA TailOrder ==
  ASSUME NEW s \in Seq(Entry), s # <<>>, Ascending(s)
  PROVE  /\ Ascending(Tail(s))
         /\ \A n : Numbered(s, n) => Numbered(Tail(s), n)
         /\ \A t : Before(t, s) => Before(t, Tail(s))
         /\ \A i \in DOMAIN Tail(s) : Head(s).seq < Tail(s)[i].seq
BY TailFacts DEF Ascending, Numbered, Before

LEMMA TailNoSentinel ==
  ASSUME NEW s \in Seq(Entry), s # <<>>, NoSentinel(s)
  PROVE  NoSentinel(Tail(s))
BY TailFacts DEF NoSentinel

LEMMA AppendOrder ==
  ASSUME NEW s \in Seq(Entry), NEW e \in Entry, Ascending(s),
         \A i \in DOMAIN s : s[i].seq < e.seq
  PROVE  Ascending(Append(s, e))
<1> SUFFICES ASSUME NEW i \in DOMAIN Append(s, e), NEW j \in DOMAIN Append(s, e), i < j
             PROVE  Append(s, e)[i].seq < Append(s, e)[j].seq
  BY DEF Ascending
<1>1. i \in DOMAIN s /\ i \in 1..Len(s) /\ Append(s, e)[i] = s[i]
  BY AppendCases, AppendFacts
<1>2. CASE j \in DOMAIN s /\ Append(s, e)[j] = s[j]
  BY <1>1, <1>2 DEF Ascending
<1>3. CASE Append(s, e)[j] = e
  BY <1>1, <1>3
<1> QED
  BY <1>2, <1>3, AppendCases

LEMMA EntrySeq ==
  ASSUME NEW s \in Seq(Entry), NEW i \in DOMAIN s
  PROVE  s[i] \in Entry /\ s[i].seq \in 0..MaxFrames /\ s[i].seq \in Nat
<1>1. s[i] \in Entry
  OBVIOUS
<1> QED
  BY <1>1, PipelineAssumption DEF Entry

\* A sentinel is the last entry of the queue.
LEMMA SentinelIsLast ==
  ASSUME NEW s \in Seq(Entry), NEW n \in Nat, Ascending(s), Numbered(s, n),
         NEW i \in DOMAIN s, IsSentinel(s[i])
  PROVE  i = Len(s)
<1> SUFFICES ASSUME i # Len(s) PROVE FALSE
  OBVIOUS
<1>1. i \in 1..Len(s) /\ Len(s) \in DOMAIN s /\ i < Len(s)
  OBVIOUS
<1>2. s[i].seq < s[Len(s)].seq /\ s[i].seq = n /\ s[Len(s)].seq <= n
  BY <1>1 DEF Ascending, Numbered
<1>3. s[Len(s)].seq \in Nat
  BY <1>1, EntrySeq
<1> QED
  BY <1>2, <1>3

-----------------------------------------------------------------------------
\* Values.

\* A recording is always configured with a profile its tasks can use.
LEMMA ProfileType ==
  ASSUME NEW version \in {V1, V2}, NEW mtu \in Nat
  PROVE  TransportProfile(version, mtu) \in Profile
<1>1. V1Profile \in Profile
  BY TransportAssumption DEF V1Profile, Profile, V1, V2, MaxPacketSize, V1Bitrate
<1>2. ASSUME NEW bundleSize \in 2..MaxBundle, LoopStopsAt(mtu, bundleSize)
      PROVE  V2Profile(mtu, bundleSize) \in Profile
  <2> DEFINE budget == V2PacketBudget(mtu, bundleSize)
             bitrate == V2Bitrate(mtu, bundleSize)
  <2>1. budget \in 2..255 /\ bitrate >= V2MinBitrate
    BY <1>2 DEF LoopStopsAt, V2Carries
  <2>2. bitrate \in Nat
    BY <2>1 DEF V2Bitrate, FrameMs
  <2>3. bundleSize * AckWindowBatches \in Nat
    BY TransportAssumption
  <2>4. bundleSize \in 1..MaxBundle
    BY TransportAssumption
  <2> QED
    BY <2>1, <2>2, <2>3, <2>4 DEF V2Profile, Profile, V1, V2, V2MaxBitrate
<1> QED
  BY <1>1, <1>2 DEF TransportProfile

\* The length of a session's packets is a number.
LEMMA PacketBytesType ==
  ASSUME NEW p \in Profile PROVE OpusPacketBytes(p) \in Nat
BY DEF OpusPacketBytes, Profile, FrameMs

-----------------------------------------------------------------------------
\* The conjuncts of the invariant.

\* The invariant holds in the initial state.
LEMMA InitIInv == Init => IInv
<1> SUFFICES ASSUME Init PROVE IInv
  OBVIOUS
<1> USE DEF Init, LinkInit, PipelineInit
<1>1. TypeOK
  <2>1. LinkTypeOK
    <3>1. ackInHand \in SUBSET [next : Nat, of : Sessions] /\ crossed \in BOOLEAN
      OBVIOUS
    <3> QED
      BY <3>1, PipelineAssumption DEF LinkTypeOK, Sessions, V1, V2, DefaultMtu
  <2>2. HostTypeOK
    <3>1. Unheard \in [next : 0..MaxFrames, prefix : 0..MaxFrames, ended : BOOLEAN]
      BY PipelineAssumption DEF Unheard
    <3>2. heard \in [Sessions -> [next : 0..MaxFrames, prefix : 0..MaxFrames, ended : BOOLEAN]]
      BY <3>1
    <3>3. air \in Seq(Notification)
      OBVIOUS
    <3>4. control \in Seq(ControlWrite)
      OBVIOUS
    <3>5. controlKnown \in BOOLEAN
      OBVIOUS
    <3> QED
      BY <3>2, <3>3, <3>4, <3>5 DEF HostTypeOK
  <2>3. PipelineTypeOK
    <3>1. V1Profile \in Profile /\ V1Profile.bundleSize = 1
      BY TransportAssumption DEF V1Profile, Profile, V1, V2, MaxPacketSize, V1Bitrate
    <3> QED
      BY <3>1, PipelineAssumption DEF PipelineTypeOK, Sessions
  <2> QED
    BY <2>1, <2>2, <2>3 DEF TypeOK
<1>2. TasksInv
  BY DEF TasksInv, TasksExited
<1>3. SentinelInv
  BY DEF SentinelInv, SentinelTaken
<1>4. BundleInv
  BY DEF BundleInv
<1>5. OneSession /\ OrderInv /\ AirInv
  BY DEF OneSession, OrderInv, AirInv, Ascending, Numbered
<1> QED
  BY <1>1, <1>2, <1>3, <1>4, <1>5 DEF IInv

-----------------------------------------------------------------------------
\* Every step keeps the invariant.  First audio_task.

\* What audio_task queues is a queue entry.
LEMMA EntryTypes ==
  ASSUME PipelineTypeOK
  PROVE  /\ Frame \in Entry /\ ~IsSentinel(Frame) /\ Frame.seq = seq /\ Frame.session = sessionId
         /\ Sentinel \in Entry /\ IsSentinel(Sentinel)
         /\ Sentinel.seq = seq /\ Sentinel.session = sessionId
BY DEF PipelineTypeOK, Frame, Sentinel, Entry, IsSentinel, START, END

\* The history of captured frames follows s_seq.
LEMMA RecordType ==
  ASSUME PipelineTypeOK, Record, sessionId' \in Sessions, seq' \in 0..MaxFrames
  PROVE  recorded' \in [Sessions -> 0..MaxFrames]
BY DEF PipelineTypeOK, Record

\* What queueing a frame keeps of the order.
LEMMA FrameOrder ==
  ASSUME PipelineTypeOK, NEW s \in Seq(Entry), Ascending(s), Numbered(s, seq), NoSentinel(s)
  PROVE  /\ Ascending(Append(s, Frame))
         /\ Numbered(Append(s, Frame), seq + 1)
         /\ NoSentinel(Append(s, Frame))
         /\ \A b \in Seq(Entry) :
              Before(b, s) /\ Numbered(b, seq) /\ NoSentinel(b) =>
                Before(b, Append(s, Frame)) /\ Numbered(b, seq + 1)
<1>1. Frame \in Entry /\ Frame.seq = seq /\ seq \in Nat /\ ~IsSentinel(Frame)
  BY EntryTypes, PipelineAssumption DEF PipelineTypeOK
<1>2. ASSUME NEW b \in Seq(Entry), Numbered(b, seq), NoSentinel(b), NEW i \in DOMAIN b
      PROVE  b[i].seq < seq /\ b[i].seq \in Nat
  BY <1>1, <1>2, EntrySeq DEF Numbered, NoSentinel
<1>3. Ascending(Append(s, Frame))
  <2>1. \A i \in DOMAIN s : s[i].seq < Frame.seq
    BY <1>1, <1>2
  <2> QED
    BY <1>1, <2>1, AppendOrder
<1>4. ASSUME NEW i \in DOMAIN Append(s, Frame)
      PROVE  /\ Append(s, Frame)[i].seq < seq + 1 /\ ~IsSentinel(Append(s, Frame)[i])
             /\ Append(s, Frame)[i].seq # seq + 1
  <2>1. CASE i \in DOMAIN s /\ Append(s, Frame)[i] = s[i]
    BY <1>1, <1>2, <2>1 DEF NoSentinel
  <2>2. CASE Append(s, Frame)[i] = Frame
    BY <1>1, <2>2
  <2> QED
    BY <1>1, <2>1, <2>2, AppendCases
<1>5. ASSUME NEW b \in Seq(Entry), Before(b, s), Numbered(b, seq), NoSentinel(b)
      PROVE  Before(b, Append(s, Frame)) /\ Numbered(b, seq + 1)
  <2>0. Numbered(b, seq + 1)
    BY <1>1, <1>2, <1>5 DEF Numbered, NoSentinel
  <2> SUFFICES ASSUME NEW i \in DOMAIN b, NEW j \in DOMAIN Append(s, Frame)
               PROVE  b[i].seq < Append(s, Frame)[j].seq
    BY <2>0 DEF Before
  <2>1. b[i].seq < Frame.seq
    BY <1>1, <1>2, <1>5
  <2> QED
    BY <1>1, <1>5, <2>1, AppendCases DEF Before
<1>6. Numbered(Append(s, Frame), seq + 1)
  <2>1. \A i \in DOMAIN Append(s, Frame) :
          Append(s, Frame)[i].seq <= seq + 1
    BY <1>1, <1>2, AppendCases
  <2> QED
    BY <1>4, <2>1 DEF Numbered
<1>7. NoSentinel(Append(s, Frame))
  BY <1>4 DEF NoSentinel
<1> QED
  BY <1>3, <1>5, <1>6, <1>7

\* What queueing the sentinel keeps of it.
LEMMA SentinelOrder ==
  ASSUME PipelineTypeOK, NEW s \in Seq(Entry), Ascending(s), Numbered(s, seq), NoSentinel(s)
  PROVE  /\ Ascending(Append(s, Sentinel))
         /\ Numbered(Append(s, Sentinel), seq)
         /\ Append(s, Sentinel) # <<>> /\ IsSentinel(Last(Append(s, Sentinel)))
         /\ \A b \in Seq(Entry) :
              Before(b, s) /\ Numbered(b, seq) /\ NoSentinel(b) => Before(b, Append(s, Sentinel))
<1>1. Sentinel \in Entry /\ Sentinel.seq = seq /\ seq \in Nat /\ IsSentinel(Sentinel)
  BY EntryTypes, PipelineAssumption DEF PipelineTypeOK
<1>2. ASSUME NEW b \in Seq(Entry), Numbered(b, seq), NoSentinel(b), NEW i \in DOMAIN b
      PROVE  b[i].seq < seq /\ b[i].seq \in Nat
  BY <1>1, <1>2, EntrySeq DEF Numbered, NoSentinel
<1>3. Ascending(Append(s, Sentinel))
  <2>1. \A i \in DOMAIN s : s[i].seq < Sentinel.seq
    BY <1>1, <1>2
  <2> QED
    BY <1>1, <2>1, AppendOrder
<1>4. ASSUME NEW i \in DOMAIN Append(s, Sentinel)
      PROVE  /\ Append(s, Sentinel)[i].seq <= seq
             /\ IsSentinel(Append(s, Sentinel)[i]) <=> Append(s, Sentinel)[i].seq = seq
  <2>1. CASE i \in DOMAIN s /\ Append(s, Sentinel)[i] = s[i]
    BY <1>1, <1>2, <2>1 DEF NoSentinel
  <2>2. CASE Append(s, Sentinel)[i] = Sentinel
    BY <1>1, <2>2
  <2> QED
    BY <1>1, <2>1, <2>2, AppendCases
<1>5. ASSUME NEW b \in Seq(Entry), Before(b, s), Numbered(b, seq), NoSentinel(b)
      PROVE  Before(b, Append(s, Sentinel))
  <2> SUFFICES ASSUME NEW i \in DOMAIN b, NEW j \in DOMAIN Append(s, Sentinel)
               PROVE  b[i].seq < Append(s, Sentinel)[j].seq
    BY DEF Before
  <2>1. b[i].seq < Sentinel.seq
    BY <1>1, <1>2, <1>5
  <2> QED
    BY <1>1, <1>5, <2>1, AppendCases DEF Before
<1>6. Append(s, Sentinel) # <<>> /\ Last(Append(s, Sentinel)) = Sentinel
  BY <1>1, AppendFacts DEF Last
<1> QED
  BY <1>1, <1>3, <1>4, <1>5, <1>6 DEF Numbered

LEMMA AudioKeepsIInv ==
  ASSUME IInv, AudioStep
  PROVE  IInv'
<1>1. /\ TypeOK /\ TasksInv /\ SentinelInv /\ BundleInv /\ OneSession /\ OrderInv /\ AirInv
      /\ LinkTypeOK /\ HostTypeOK /\ PipelineTypeOK
  BY DEF IInv, TypeOK
<1>2. /\ UNCHANGED <<bleVars, hostVars, txVars, startVars, running, sessionId>>
      /\ Record
  BY DEF AudioStep, AudioTask, AudioLoop, AudioReadFailed, AudioEnqueued, AudioQueueFull,
         AudioOverflowed, AudioClosed, AudioExited
<1>3. LinkTypeOK' /\ HostTypeOK' /\ AirInv'
  <2>1. LinkTypeOK'
    BY <1>1, <1>2 DEF LinkTypeOK, bleVars, linkVars, windowVars
  <2>2. HostTypeOK'
    BY <1>1, <1>2 DEF HostTypeOK, bleVars, hostVars
  <2>3. AirInv'
    BY <1>1, <1>2 DEF AirInv, bleVars
  <2> QED BY <2>1, <2>2, <2>3
<1>4. CASE AudioEnqueued \/ AudioOverflowed
  <2>1. NoSentinel(queue) /\ ~SentinelTaken /\ seq < MaxFrames /\ audioTask' = "loop"
    BY <1>1, <1>4 DEF SentinelInv, TasksInv, AudioEnqueued, AudioOverflowed
  <2>2. /\ queue \in Seq(Entry) /\ bundle \in Seq(Entry) /\ seq \in Nat
        /\ seq' = seq + 1 /\ bundle' = bundle /\ txTask' = txTask
    BY <1>1, <1>2, <1>4, PipelineAssumption
    DEF AudioEnqueued, AudioOverflowed, PipelineTypeOK, txVars
  \* the queue, or what the overflow has left of it
  <2>3. PICK rest \in Seq(Entry) :
          /\ queue' = Append(rest, Frame)
          /\ Len(rest) < QueueDepth
          /\ Ascending(rest) /\ Numbered(rest, seq) /\ NoSentinel(rest)
          /\ \A b : Before(b, queue) => Before(b, rest)
          /\ \A i \in DOMAIN rest : rest[i].session = sessionId
    <3>1. CASE AudioEnqueued
      BY <1>1, <2>1, <2>2, <3>1 DEF AudioEnqueued, OrderInv, OneSession
    <3>2. CASE AudioOverflowed /\ queue = <<>>
      <4>1. queue' = Append(queue, Frame)
        <5>1. queue' = <<Frame>>
          BY <3>2 DEF AudioOverflowed, Overflowed
        <5>2. <<Frame>> = Append(<<>>, Frame)
          BY <1>1, EntryTypes
        <5> QED
          BY <3>2, <5>1, <5>2
      <4>2. Len(queue) < QueueDepth
        BY <3>2, PipelineAssumption
      <4>3. /\ Ascending(queue) /\ Numbered(queue, seq)
            /\ \A i \in DOMAIN queue : queue[i].session = sessionId
        BY <1>1 DEF OrderInv, OneSession
      <4> QED
        BY <2>1, <2>2, <4>1, <4>2, <4>3
    <3>3. CASE AudioOverflowed /\ queue # <<>>
      <4>1. queue' = Append(Tail(queue), Frame)
        BY <3>3 DEF AudioOverflowed, Overflowed
      <4>2. Tail(queue) \in Seq(Entry) /\ Len(Tail(queue)) < QueueDepth
        BY <1>1, <2>2, <3>3, TailFacts, PipelineAssumption DEF PipelineTypeOK
      <4>3. /\ Ascending(Tail(queue)) /\ Numbered(Tail(queue), seq) /\ NoSentinel(Tail(queue))
            /\ \A b : Before(b, queue) => Before(b, Tail(queue))
        BY <1>1, <2>1, <2>2, <3>3, TailOrder, TailNoSentinel DEF OrderInv
      <4>4. \A i \in DOMAIN Tail(queue) : Tail(queue)[i].session = sessionId
        BY <1>1, <2>2, <3>3, TailFacts DEF OneSession
      <4> QED
        BY <4>1, <4>2, <4>3, <4>4
    <3> QED
      BY <1>4, <3>1, <3>2, <3>3
  <2>4. PipelineTypeOK'
    <3>1. queue' \in Seq(Entry) /\ Len(queue') <= QueueDepth
      BY <1>1, <2>3, EntryTypes, AppendFacts, PipelineAssumption
    <3>2. seq' \in 0..MaxFrames
      BY <2>1, <2>2, PipelineAssumption
    <3>3. recorded' \in [Sessions -> 0..MaxFrames]
      BY <1>1, <1>2, <3>2, RecordType DEF PipelineTypeOK
    <3> QED
      BY <1>1, <1>2, <2>1, <3>1, <3>2, <3>3 DEF PipelineTypeOK, txVars, startVars
  <2>5. TasksInv'
    BY <1>1, <1>2, <1>4, <2>1 DEF TasksInv, AudioEnqueued, AudioOverflowed, txVars, startVars, TasksExited
  <2>6. SentinelInv'
    <3>1. NoSentinel(queue')
      BY <1>1, <2>3, FrameOrder
    <3> QED
      BY <1>1, <1>2, <1>4, <2>1, <3>1
      DEF SentinelInv, SentinelTaken, TasksInv, txVars, startVars, AudioEnqueued, AudioOverflowed
  <2>7. BundleInv'
    BY <1>1, <1>2 DEF BundleInv, txVars, startVars
  <2>8. OneSession'
    BY <1>1, <1>2, <2>2, <2>3, EntryTypes, AppendCases DEF OneSession
  <2>9. OrderInv'
    <3>1. Ascending(queue') /\ Numbered(queue', seq')
      BY <1>1, <2>2, <2>3, FrameOrder
    <3>2. ASSUME txTask \in {"collect", "window", "notify"}
          PROVE  Ascending(bundle) /\ Numbered(bundle, seq') /\ Before(bundle, queue')
      <4>1. Ascending(bundle) /\ Numbered(bundle, seq) /\ Before(bundle, queue) /\ NoSentinel(bundle)
        BY <1>1, <3>2 DEF OrderInv, BundleInv
      <4> QED
        BY <1>1, <2>2, <2>3, <4>1, FrameOrder
    <3> QED
      BY <2>2, <3>1, <3>2 DEF OrderInv
  <2> QED
    BY <1>3, <2>4, <2>5, <2>6, <2>7, <2>8, <2>9 DEF IInv, TypeOK
<1>5. CASE AudioClosed
  <2>1. NoSentinel(queue) /\ ~SentinelTaken /\ audioTask' = "exiting"
    BY <1>1, <1>5 DEF SentinelInv, AudioClosed
  <2>2. /\ queue \in Seq(Entry) /\ bundle \in Seq(Entry) /\ queue' = Append(queue, Sentinel)
        /\ seq' = seq /\ bundle' = bundle /\ txTask' = txTask
    BY <1>1, <1>2, <1>5 DEF AudioClosed, PipelineTypeOK, txVars
  <2>3. PipelineTypeOK'
    <3>1. queue' \in Seq(Entry) /\ Len(queue') <= QueueDepth
      BY <1>1, <1>5, <2>2, EntryTypes, AppendFacts, PipelineAssumption DEF AudioClosed
    <3>2. recorded' \in [Sessions -> 0..MaxFrames]
      BY <1>1, <1>2, <2>2, RecordType DEF PipelineTypeOK
    <3> QED
      BY <1>1, <1>2, <2>1, <2>2, <3>1, <3>2 DEF PipelineTypeOK, txVars, startVars
  <2>4. TasksInv'
    BY <1>1, <1>2, <1>5 DEF TasksInv, AudioClosed, txVars, startVars, TasksExited
  <2>5. SentinelInv'
    <3>1. queue' # <<>> /\ IsSentinel(Last(queue'))
      BY <1>1, <2>1, <2>2, SentinelOrder DEF OrderInv
    <3> QED
      BY <1>1, <1>2, <1>5, <2>1, <3>1
      DEF SentinelInv, SentinelTaken, TasksInv, txVars, startVars, AudioClosed
  <2>6. BundleInv'
    BY <1>1, <1>2 DEF BundleInv, txVars, startVars
  <2>7. OneSession'
    BY <1>1, <1>2, <2>2, EntryTypes, AppendCases DEF OneSession
  <2>8. OrderInv'
    <3>1. Ascending(queue') /\ Numbered(queue', seq')
      BY <1>1, <2>1, <2>2, SentinelOrder DEF OrderInv
    <3>2. ASSUME txTask \in {"collect", "window", "notify"}
          PROVE  Ascending(bundle) /\ Numbered(bundle, seq') /\ Before(bundle, queue')
      <4>1. Ascending(bundle) /\ Numbered(bundle, seq) /\ Before(bundle, queue) /\ NoSentinel(bundle)
        BY <1>1, <3>2 DEF OrderInv, BundleInv
      <4> QED
        BY <1>1, <2>1, <2>2, <4>1, SentinelOrder DEF OrderInv
    <3> QED
      BY <2>2, <3>1, <3>2 DEF OrderInv
  <2> QED
    BY <1>3, <2>3, <2>4, <2>5, <2>6, <2>7, <2>8 DEF IInv, TypeOK
<1>6. CASE AudioLoop \/ AudioReadFailed \/ AudioQueueFull \/ AudioExited
  <2>1. UNCHANGED <<queue, seq, bundle, txTask>>
    BY <1>2, <1>6 DEF AudioLoop, AudioReadFailed, AudioQueueFull, AudioExited, txVars
  <2>2. PipelineTypeOK'
    <3>1. recorded' \in [Sessions -> 0..MaxFrames]
      BY <1>1, <1>2, <2>1, RecordType DEF PipelineTypeOK
    <3>2. audioTask' \in {"none", "loop", "reading", "overflow", "closing", "exiting"}
      BY <1>6 DEF AudioLoop, AudioReadFailed, AudioQueueFull, AudioExited
    <3> QED
      BY <1>1, <1>2, <2>1, <3>1, <3>2 DEF PipelineTypeOK, txVars, startVars
  <2>3. TasksInv'
    BY <1>1, <1>2, <1>6, <2>1
    DEF TasksInv, AudioLoop, AudioReadFailed, AudioQueueFull, AudioExited, txVars, startVars, TasksExited
  <2>4. SentinelInv'
    BY <1>1, <1>2, <1>6, <2>1
    DEF SentinelInv, SentinelTaken, TasksInv, txVars, startVars,
        AudioLoop, AudioReadFailed, AudioQueueFull, AudioExited
  <2>5. BundleInv' /\ OneSession' /\ OrderInv'
    BY <1>1, <1>2, <2>1 DEF BundleInv, OneSession, OrderInv, txVars, startVars
  <2> QED
    BY <1>3, <2>2, <2>3, <2>4, <2>5 DEF IInv, TypeOK
<1> QED
  BY <1>4, <1>5, <1>6 DEF AudioStep, AudioTask

-----------------------------------------------------------------------------
\* Then app_event_task.

LEMMA CallerKeepsIInv ==
  ASSUME IInv, CallerStep
  PROVE  IInv'
<1>1. /\ TypeOK /\ TasksInv /\ SentinelInv /\ BundleInv /\ OneSession /\ OrderInv /\ AirInv
      /\ LinkTypeOK /\ HostTypeOK /\ PipelineTypeOK
  BY DEF IInv, TypeOK
<1>2. /\ UNCHANGED <<hostVars, bundle, stopping, endSeq, retries, air, control>>
      /\ Record
  BY DEF CallerStep, Caller, StartRequested, StartTimedOut, StartConfigured, StartSession,
         StartTxTask, StartAudioTask, Stop, txVars, bleVars
<1>3. HostTypeOK' /\ AirInv'
  <2>1. HostTypeOK'
    BY <1>1, <1>2 DEF HostTypeOK, hostVars
  <2>2. AirInv'
    BY <1>1, <1>2 DEF AirInv
  <2> QED BY <2>1, <2>2
<1>4. seq' \in 0..MaxFrames /\ sessionId' \in Sessions
  BY <1>1, PipelineAssumption
  DEF CallerStep, Caller, StartRequested, StartTimedOut, StartConfigured, StartSession,
      StartTxTask, StartAudioTask, Stop, captureVars, PipelineTypeOK, Sessions
<1>5. recorded' \in [Sessions -> 0..MaxFrames]
  BY <1>1, <1>2, <1>4, RecordType
\* When the tasks are gone, so are their entries.
<1>6. TasksExited => queue = <<>> /\ bundle = <<>> /\ ~SentinelTaken /\ txTask = "none"
  BY <1>1 DEF TasksExited, SentinelInv, BundleInv, SentinelTaken
<1>7. CASE StartRequested \/ StartTimedOut \/ Stop
  <2>1. UNCHANGED <<captureVars, queue, txVars, profile, resources>> \/ Stop
    BY <1>7 DEF StartRequested, StartTimedOut
  <2>2. UNCHANGED <<sessionId, seq, audioTask, queue, txVars, profile, resources, bleVars>>
    BY <1>7 DEF StartRequested, StartTimedOut, Stop, captureVars, startVars
  <2>3. LinkTypeOK'
    BY <1>1, <2>2 DEF LinkTypeOK, bleVars, linkVars, windowVars
  <2>4. PipelineTypeOK'
    <3>1. running' \in BOOLEAN
      BY <1>1, <1>7 DEF StartRequested, StartTimedOut, Stop, captureVars, PipelineTypeOK
    <3>2. /\ caller' \in {"idle", "starting", "configured", "begun", "txStarted"}
          /\ nextSession' \in 1..(MaxSessions + 1)
      BY <1>1, <1>7, PipelineAssumption
      DEF StartRequested, StartTimedOut, Stop, startVars, PipelineTypeOK
    <3> QED
      BY <1>1, <1>5, <2>2, <3>1, <3>2 DEF PipelineTypeOK, txVars
  <2>5. caller \in {"idle", "starting"} /\ caller' \in {"idle", "starting"}
    BY <1>7 DEF StartRequested, StartTimedOut, Stop, startVars
  <2>6. TasksInv' /\ SentinelInv'
    BY <1>1, <2>2, <2>5 DEF TasksInv, SentinelInv, SentinelTaken, txVars, TasksExited
  <2>7. BundleInv' /\ OneSession' /\ OrderInv'
    BY <1>1, <2>2 DEF BundleInv, OneSession, OrderInv, txVars
  <2> QED
    BY <1>3, <2>3, <2>4, <2>6, <2>7 DEF IInv, TypeOK
<1>8. CASE StartConfigured
  <2>1. TasksExited /\ UNCHANGED <<captureVars, queue, txVars, nextSession>>
    BY <1>8 DEF StartConfigured, PreviousSessionGone
  <2>2. profile' \in Profile /\ profile'.bundleSize \in Nat \ {0}
    <3>1. profile' \in Profile
      BY <1>1, <1>8, ProfileType DEF StartConfigured, LinkTypeOK
    <3> QED
      BY <3>1, TransportAssumption DEF Profile
  <2>3. LinkTypeOK'
    <3>1. transportVersion' \in {V1, V2} /\ audioSessionId' \in Sessions /\ ackedSeq' \in Nat
      BY <1>1, <1>8, PipelineAssumption
      DEF StartConfigured, SetTransportVersion, LinkTypeOK, Sessions
    <3> QED
      BY <1>1, <1>8, <3>1 DEF StartConfigured, LinkTypeOK
  <2>4. PipelineTypeOK'
    <3>1. Len(bundle) <= profile'.bundleSize
      BY <1>6, <2>1, <2>2
    <3>2. /\ resources' \in BOOLEAN
          /\ caller' \in {"idle", "starting", "configured", "begun", "txStarted"}
      BY <1>1, <1>8 DEF StartConfigured, PipelineTypeOK
    <3> QED
      BY <1>1, <1>5, <2>1, <2>2, <3>1, <3>2 DEF PipelineTypeOK, captureVars, txVars
  <2>5. TasksInv'
    BY <1>1, <1>6, <1>8, <2>1 DEF TasksInv, StartConfigured, captureVars, txVars, TasksExited
  <2>6. SentinelInv' /\ BundleInv' /\ OneSession' /\ OrderInv'
    BY <1>1, <1>6, <2>1
    DEF SentinelInv, SentinelTaken, BundleInv, OneSession, OrderInv, captureVars, txVars
  <2> QED
    BY <1>3, <2>3, <2>4, <2>5, <2>6 DEF IInv, TypeOK
<1>9. CASE StartSession
  <2>1. TasksExited /\ UNCHANGED <<running, audioTask, txVars, profile, resources, nextSession>>
    BY <1>1, <1>9 DEF StartSession, TasksInv
  <2>2. LinkTypeOK'
    <3>1. audioSessionId' \in Sessions
      BY <1>1, <1>9, PipelineAssumption DEF StartSession, PipelineTypeOK, Sessions
    <3> QED
      BY <1>1, <1>9, <3>1 DEF StartSession, LinkTypeOK, linkVars
  <2>3. PipelineTypeOK'
    BY <1>1, <1>4, <1>5, <1>9, <2>1, PipelineAssumption DEF StartSession, PipelineTypeOK, txVars
  <2>4. TasksInv'
    BY <1>1, <1>9, <2>1 DEF StartSession, TasksInv, TasksExited, txVars
  <2>5. SentinelInv' /\ BundleInv'
    BY <1>1, <1>6, <1>9, <2>1 DEF StartSession, SentinelInv, SentinelTaken, BundleInv, txVars
  <2>6. OneSession' /\ OrderInv'
    BY <1>1, <1>6, <1>9, <2>1
    DEF StartSession, OneSession, OrderInv, Ascending, Numbered, txVars
  <2> QED
    BY <1>3, <2>2, <2>3, <2>4, <2>5, <2>6 DEF IInv, TypeOK
<1>10. CASE StartTxTask
  <2>1. TasksExited /\ resources
        /\ UNCHANGED <<sessionId, seq, audioTask, queue, bundle, stopping, endSeq, retries,
                       profile, nextSession>>
    BY <1>1, <1>10 DEF StartTxTask, TasksInv
  <2>2. LinkTypeOK'
    BY <1>1, <1>10 DEF StartTxTask, LinkTypeOK, linkVars
  <2>3. PipelineTypeOK'
    <3>1. running' \in BOOLEAN /\ resources' \in BOOLEAN
      BY <1>1, <1>10 DEF StartTxTask, PipelineTypeOK
    <3>2. /\ txTask' \in {"none", "receive", "collect", "window", "notify", "end", "endNotify", "await"}
          /\ caller' \in {"idle", "starting", "configured", "begun", "txStarted"}
      BY <1>1, <1>10 DEF StartTxTask, PipelineTypeOK
    <3> QED
      BY <1>1, <1>5, <2>1, <3>1, <3>2 DEF PipelineTypeOK
  <2>4. TasksInv'
    BY <1>1, <1>6, <1>10, <2>1 DEF StartTxTask, TasksInv, TasksExited
  <2>5. SentinelInv' /\ BundleInv'
    <3>1. /\ audioTask' = "none" /\ txTask' \in {"none", "receive"}
          /\ txTask' = "receive" => caller' = "txStarted"
      BY <1>6, <1>10, <2>1 DEF StartTxTask, TasksExited
    <3>2. ~stopping'
      BY <1>6, <2>1 DEF SentinelTaken
    <3>3. queue' = <<>> /\ bundle' = <<>>
      BY <1>6, <2>1
    <3>4. ~SentinelTaken'
      BY <3>1, <3>2 DEF SentinelTaken
    <3> QED
      BY <3>1, <3>2, <3>3, <3>4 DEF SentinelInv, BundleInv, NoSentinel
  <2>6. OneSession' /\ OrderInv'
    BY <1>1, <1>6, <1>10, <2>1 DEF StartTxTask, OneSession, OrderInv
  <2> QED
    BY <1>3, <2>2, <2>3, <2>4, <2>5, <2>6 DEF IInv, TypeOK
<1>11. CASE StartAudioTask
  <2>1. /\ queue = <<>> /\ txTask = "receive" /\ audioTask = "none" /\ ~SentinelTaken /\ bundle = <<>>
        /\ UNCHANGED <<sessionId, seq, txVars, profile, resources, nextSession, bleVars>>
    BY <1>1, <1>11 DEF StartAudioTask, TasksInv, SentinelInv, SentinelTaken, BundleInv
  <2>2. LinkTypeOK'
    BY <1>1, <2>1 DEF LinkTypeOK, bleVars, linkVars, windowVars
  <2>3. CASE UNCHANGED queue /\ audioTask' = "loop" /\ caller' = "idle" /\ UNCHANGED running
    <3>1. PipelineTypeOK'
      BY <1>1, <1>5, <2>1, <2>3 DEF PipelineTypeOK, txVars
    <3>2. TasksInv'
      BY <1>1, <2>1, <2>3 DEF TasksInv, TasksExited, txVars
    <3>3. SentinelInv'
      BY <1>1, <2>1, <2>3 DEF SentinelInv, SentinelTaken, txVars, NoSentinel
    <3>4. BundleInv' /\ OneSession' /\ OrderInv'
      BY <1>1, <2>1, <2>3 DEF BundleInv, OneSession, OrderInv, txVars
    <3> QED
      BY <1>3, <2>2, <3>1, <3>2, <3>3, <3>4 DEF IInv, TypeOK
  <2>4. CASE /\ queue' = Append(queue, Sentinel) /\ UNCHANGED audioTask
             /\ caller' = "idle" /\ running' = FALSE
    <3>1. /\ queue' \in Seq(Entry) /\ Len(queue') = 1
          /\ queue \in Seq(Entry) /\ NoSentinel(queue)
      BY <1>1, <2>1, <2>4, EntryTypes, AppendFacts DEF PipelineTypeOK, NoSentinel
    <3>2. PipelineTypeOK'
      <4>1. Len(queue') <= QueueDepth
        BY <3>1, PipelineAssumption
      <4> QED
        BY <1>1, <1>5, <2>1, <2>4, <3>1, <4>1 DEF PipelineTypeOK, txVars
    <3>3. TasksInv'
      BY <1>1, <2>1, <2>4 DEF TasksInv, TasksExited, txVars
    <3>4. /\ Ascending(queue') /\ Numbered(queue', seq)
          /\ queue' # <<>> /\ IsSentinel(Last(queue'))
      BY <1>1, <2>4, <3>1, SentinelOrder DEF OrderInv
    <3>5. SentinelInv'
      BY <1>1, <2>1, <2>4, <3>4 DEF SentinelInv, SentinelTaken, txVars
    <3>6. BundleInv'
      BY <1>1, <2>1, <2>4 DEF BundleInv, txVars
    <3>7. OneSession'
      BY <1>1, <2>1, <2>4, <3>1, EntryTypes, AppendCases DEF OneSession, txVars
    <3>8. OrderInv'
      BY <1>1, <2>1, <2>4, <3>4 DEF OrderInv, txVars
    <3> QED
      BY <1>3, <2>2, <3>2, <3>3, <3>5, <3>6, <3>7, <3>8 DEF IInv, TypeOK
  <2> QED
    BY <1>11, <2>3, <2>4 DEF StartAudioTask
<1> QED
  BY <1>7, <1>8, <1>9, <1>10, <1>11 DEF CallerStep, Caller

-----------------------------------------------------------------------------
\* Then tx_task.

\* The steps of tx_task leave the capture side and the link alone.
LEMMA TxFrame ==
  ASSUME IInv, TxStep
  PROVE  /\ UNCHANGED <<captureVars, linkVars, windowVars, control, hostVars, profile, nextSession>>
         /\ UNCHANGED <<running, sessionId, seq, audioTask, caller>>
         /\ LinkTypeOK'
         /\ recorded' \in [Sessions -> 0..MaxFrames]
<1>1. LinkTypeOK /\ PipelineTypeOK
  BY DEF IInv, TypeOK
<1>2. UNCHANGED <<captureVars, linkVars, windowVars, control, profile, caller, nextSession>>
  BY DEF TxStep, TxTask, TxReceive, TxCollect, TxCollectTimedOut, TxWindowOpen, TxWindowFailed,
         TxNotified, TxNotifyFailed, TxEndFormed, TxEndNotified, TxEndFailed, TxExited,
         startVars, bleVars
<1>3. UNCHANGED <<running, sessionId, seq, audioTask>>
  BY <1>2 DEF captureVars
<1>4. LinkTypeOK'
  BY <1>1, <1>2 DEF LinkTypeOK, linkVars, windowVars
<1>5. recorded' \in [Sessions -> 0..MaxFrames]
  BY <1>1, <1>3, RecordType DEF TxStep, PipelineTypeOK
<1> QED
  BY <1>2, <1>3, <1>4, <1>5 DEF TxStep

\* The steps that take an entry out of the queue.
LEMMA TxTakes ==
  ASSUME IInv, TxStep, TxReceive \/ TxCollect
  PROVE  IInv'
<1>1. /\ TypeOK /\ TasksInv /\ SentinelInv /\ BundleInv /\ OneSession /\ OrderInv /\ AirInv
      /\ LinkTypeOK /\ HostTypeOK /\ PipelineTypeOK
  BY DEF IInv, TypeOK
<1>2. /\ UNCHANGED <<captureVars, linkVars, windowVars, control, hostVars, profile, nextSession>>
      /\ UNCHANGED <<running, sessionId, seq, audioTask, caller>>
      /\ LinkTypeOK'
      /\ recorded' \in [Sessions -> 0..MaxFrames]
  BY TxFrame
<1>3. UNCHANGED <<air, resources, retries>> /\ queue # <<>> /\ queue' = Tail(queue)
  BY DEF TxReceive, TxCollect, TakeFrame, TakeSentinel, startVars, bleVars
<1>4. HostTypeOK' /\ AirInv'
  <2>1. HostTypeOK'
    BY <1>1, <1>2, <1>3 DEF HostTypeOK, hostVars
  <2>2. AirInv'
    BY <1>1, <1>3 DEF AirInv
  <2> QED BY <2>1, <2>2
<1>5. /\ queue \in Seq(Entry) /\ bundle \in Seq(Entry) /\ Head(queue) \in Entry
      /\ queue' \in Seq(Entry) /\ Len(queue') <= QueueDepth
      /\ 1 \in DOMAIN queue /\ Head(queue) = queue[1]
  BY <1>1, <1>3, TailFacts, PipelineAssumption DEF PipelineTypeOK
<1>6. profile.bundleSize \in Nat \ {0}
  BY <1>1, TransportAssumption DEF PipelineTypeOK, Profile
<1>7. /\ Ascending(queue') /\ Numbered(queue', seq)
      /\ \A i \in DOMAIN queue' : Head(queue).seq < queue'[i].seq
      /\ \A b : Before(b, queue) => Before(b, queue')
  BY <1>1, <1>3, <1>5, TailOrder DEF OrderInv
<1>8. \A i \in DOMAIN queue' : queue'[i].session = sessionId
  BY <1>1, <1>3, <1>5, TailFacts DEF OneSession
<1>9. Head(queue).session = sessionId
  BY <1>1, <1>5 DEF OneSession
\* it is not too early for the next entry, nor too late
<1>10. /\ caller # "txStarted" /\ ~SentinelTaken /\ ~stopping
       /\ txTask = "receive" => bundle = <<>>
       /\ txTask = "collect" => bundle # <<>> /\ Len(bundle) < profile.bundleSize
       /\ txTask \in {"receive", "collect"}
  BY <1>1, <1>3, <1>6 DEF TasksInv, SentinelInv, BundleInv, SentinelTaken, TxReceive, TxCollect, PipelineTypeOK
<1>11. CASE TakeFrame
  <2> DEFINE taken == Head(queue)
  <2>1. /\ ~IsSentinel(taken) /\ bundle' = Append(bundle, taken)
        /\ txTask' = IF Len(bundle) + 1 < profile.bundleSize THEN "collect" ELSE SendStart
        /\ UNCHANGED <<stopping, endSeq>>
    BY <1>11 DEF TakeFrame
  <2>2. txTask' \in {"collect", "window", "notify"} /\ (txTask' = "window" => profile.version = V2)
    BY <2>1 DEF SendStart
  <2>3. /\ bundle' \in Seq(Entry) /\ Len(bundle') = Len(bundle) + 1 /\ bundle' # <<>>
        /\ Len(bundle) \in Nat
    BY <1>5, <2>1, AppendFacts
  <2>4. PipelineTypeOK'
    <3>1. Len(bundle') <= profile.bundleSize
      BY <1>6, <1>10, <2>3
    <3> QED
      BY <1>1, <1>2, <1>3, <1>5, <2>1, <2>2, <2>3, <3>1 DEF PipelineTypeOK
  <2>5. TasksInv'
    BY <1>1, <1>2, <1>3, <1>10, <2>2 DEF TasksInv, TasksExited
  <2>6. SentinelInv'
    <3>1. NoSentinel(queue) => NoSentinel(queue')
      BY <1>3, <1>5, TailNoSentinel
    <3>2. queue # <<>> /\ IsSentinel(Last(queue)) => queue' # <<>> /\ IsSentinel(Last(queue'))
      <4>1. ASSUME IsSentinel(Last(queue)) PROVE Len(queue) # 1
        BY <1>5, <2>1, <4>1 DEF Last
      <4> QED
        BY <1>3, <1>5, <4>1, TailLast
    <3>3. ~SentinelTaken' /\ txTask' # "none"
      BY <1>10, <2>1, <2>2 DEF SentinelTaken
    <3> QED
      BY <1>1, <1>2, <1>10, <2>2, <3>1, <3>2, <3>3 DEF SentinelInv, TasksInv
  <2>7. bundle = <<>> \/ txTask = "collect"
    BY <1>10
  <2>8. NoSentinel(bundle')
    <3>1. NoSentinel(bundle)
      BY <1>1, <2>7 DEF BundleInv, NoSentinel
    <3> QED
      BY <1>5, <2>1, <3>1, AppendCases DEF NoSentinel
  <2>9. BundleInv'
    <3>1. txTask' = "collect" => Len(bundle') \in 1..(profile.bundleSize - 1)
      BY <1>6, <2>1, <2>3 DEF SendStart
    <3> QED
      BY <1>2, <1>10, <2>1, <2>2, <2>3, <2>8, <3>1 DEF BundleInv
  <2>10. OneSession'
    BY <1>1, <1>2, <1>5, <1>8, <1>9, <2>1, AppendCases DEF OneSession
  <2>11. OrderInv'
    <3>1. Ascending(bundle) /\ Numbered(bundle, seq) /\ Before(bundle, queue)
      BY <1>1, <2>7 DEF OrderInv, Ascending, Numbered, Before
    <3>2. Ascending(bundle')
      BY <1>5, <2>1, <3>1, AppendOrder DEF Before
    <3>3. Numbered(bundle', seq)
      <4>1. taken.seq <= seq /\ (IsSentinel(taken) <=> taken.seq = seq)
        BY <1>1, <1>5 DEF OrderInv, Numbered
      <4> QED
        BY <1>5, <2>1, <3>1, <4>1, AppendCases DEF Numbered
    <3>4. Before(bundle', queue')
      <4>1. Before(bundle, queue')
        BY <1>7, <3>1
      <4> QED
        BY <1>5, <1>7, <2>1, <4>1, AppendCases DEF Before
    <3> QED
      BY <1>2, <1>7, <3>2, <3>3, <3>4 DEF OrderInv
  <2> QED
    BY <1>2, <1>4, <2>4, <2>5, <2>6, <2>9, <2>10, <2>11 DEF IInv, TypeOK
<1>12. CASE TakeSentinel
  <2>1. /\ IsSentinel(Head(queue)) /\ endSeq' = Head(queue).seq /\ bundle' = bundle
        /\ \/ txTask' = "end" /\ bundle = <<>> /\ UNCHANGED stopping
           \/ txTask' = SendStart /\ stopping' = TRUE /\ txTask = "collect"
    BY <1>10, <1>12 DEF TxReceive, TxCollect, TakeFrame, TakeSentinel
  <2>2. queue' = <<>>
    <3>1. 1 = Len(queue)
      <4>1. seq \in Nat
        BY <1>1, PipelineAssumption DEF PipelineTypeOK
      <4>2. Ascending(queue) /\ Numbered(queue, seq)
        BY <1>1 DEF OrderInv
      <4> QED
        BY <1>5, <2>1, <4>1, <4>2, SentinelIsLast
    <3> QED
      BY <1>3, <1>5, <3>1, TailFacts
  <2>3. endSeq' = seq
    BY <1>1, <1>5, <2>1 DEF OrderInv, Numbered
  <2>4. audioTask \in {"exiting", "none"}
    BY <1>1, <1>5, <2>1 DEF SentinelInv, NoSentinel, PipelineTypeOK
  <2>5. /\ txTask' \in {"end", "window", "notify"} /\ (txTask' = "window" => profile.version = V2)
        /\ SentinelTaken'
        /\ txTask' # "end" => bundle # <<>> /\ txTask = "collect"
        /\ txTask' = "end" => bundle = <<>>
    BY <1>10, <2>1 DEF SendStart, SentinelTaken
  <2>6. PipelineTypeOK'
    <3>1. stopping' \in BOOLEAN
      BY <1>1, <2>1 DEF PipelineTypeOK
    <3>2. /\ bundle' = bundle
          /\ txTask' \in {"none", "receive", "collect", "window", "notify", "end", "endNotify", "await"}
      BY <2>1, <2>5
    <3>3. endSeq' \in 0..MaxFrames
      BY <1>1, <2>3 DEF PipelineTypeOK
    <3> QED
      BY <1>1, <1>2, <1>3, <1>5, <3>1, <3>2, <3>3 DEF PipelineTypeOK
  <2>7. TasksInv'
    BY <1>1, <1>2, <1>3, <1>10, <2>5 DEF TasksInv, TasksExited
  <2>8. SentinelInv'
    BY <1>2, <1>10, <2>2, <2>3, <2>4, <2>5 DEF SentinelInv
  <2>9. BundleInv'
    BY <1>1, <1>2, <2>1, <2>5 DEF BundleInv
  <2>10. OneSession'
    BY <1>1, <1>2, <1>8, <2>1 DEF OneSession
  <2>11. OrderInv'
    BY <1>1, <1>2, <1>7, <2>1, <2>5 DEF OrderInv
  <2> QED
    BY <1>2, <1>4, <2>6, <2>7, <2>8, <2>9, <2>10, <2>11 DEF IInv, TypeOK
<1> QED
  BY <1>11, <1>12 DEF TxReceive, TxCollect

\* The notification of a bundle, and of the end marker.
LEMMA BundleNotification ==
  ASSUME IInv, txTask = "notify", CanNotify(bundle[1].seq, BundlePackets)
  PROVE  LET audio == EncodedAudio(transportVersion, bundle[1].session, bundle[1].seq, {}, BundlePackets)
         IN  audio \in Notification /\ NextFrame(audio) <= MaxFrames
<1> DEFINE packets == BundlePackets
           count == IF profile.version = V2 THEN Len(bundle) ELSE 1
<1>1. /\ TypeOK /\ BundleInv /\ OneSession /\ OrderInv /\ LinkTypeOK /\ PipelineTypeOK
  BY DEF IInv, TypeOK
<1>2. bundle \in Seq(Entry) /\ Len(bundle) \in Nat \ {0} /\ 1 \in DOMAIN bundle /\ count \in 1..Len(bundle)
  BY <1>1 DEF PipelineTypeOK, BundleInv
<1>3. /\ packets = [i \in 1..count |->
                     [seq |-> bundle[i].seq, flags |-> bundle[i].flags, len |-> OpusPacketBytes(profile)]]
      /\ packets \in Seq([seq : Nat, flags : SUBSET {START, END}, len : Nat])
      /\ Len(packets) = count /\ DOMAIN packets = 1..count
  <2>1. OpusPacketBytes(profile) \in Nat
    BY <1>1, PacketBytesType DEF PipelineTypeOK
  <2>2. \A i \in 1..count : bundle[i].seq \in Nat /\ bundle[i].flags \in SUBSET {START, END}
    <3> SUFFICES ASSUME NEW i \in 1..count
                 PROVE  bundle[i].seq \in Nat /\ bundle[i].flags \in SUBSET {START, END}
      OBVIOUS
    <3>1. i \in DOMAIN bundle
      BY <1>2
    <3>2. bundle[i] \in Entry /\ bundle[i].seq \in Nat
      BY <1>2, <3>1, EntrySeq
    <3> QED
      BY <3>2 DEF Entry
  <2> QED
    BY <1>2, <2>1, <2>2 DEF BundlePackets
\* the packets are numbered without a gap, so the last number bounds them
<1>4. bundle[1].seq + count <= MaxFrames
  <2>1. count \in DOMAIN bundle /\ count \in DOMAIN packets /\ count \in Nat
    BY <1>2, <1>3
  <2>2. packets[count].seq = bundle[1].seq + count - 1
    <3>1. Contiguous(bundle[1].seq, packets)
      BY DEF CanNotify, Encodable
    <3> QED
      BY <2>1, <3>1 DEF Contiguous
  <2>3. packets[count].seq = bundle[count].seq
    BY <1>3, <2>1
  <2>4. bundle[count].seq < seq
    <3>1. Numbered(bundle, seq) /\ NoSentinel(bundle)
      BY <1>1 DEF OrderInv, BundleInv
    <3>2. seq \in Nat /\ bundle[count].seq \in Nat
      BY <1>1, <1>2, <2>1, EntrySeq, PipelineAssumption DEF PipelineTypeOK
    <3> QED
      BY <2>1, <3>1, <3>2 DEF Numbered, NoSentinel
  <2>5. bundle[1].seq \in Nat /\ bundle[count].seq \in Nat
    BY <1>2, <2>1, EntrySeq
  <2>6. seq \in Nat /\ seq <= MaxFrames /\ MaxFrames \in Nat
    BY <1>1, PipelineAssumption DEF PipelineTypeOK
  <2> QED
    BY <2>1, <2>2, <2>3, <2>4, <2>5, <2>6
<1>5. UNION {packets[i].flags : i \in DOMAIN packets} \in SUBSET {START, END}
  BY <1>3
<1>6. [i \in DOMAIN packets |-> packets[i].len] \in Seq(Nat)
      /\ Len([i \in DOMAIN packets |-> packets[i].len]) = count
  BY <1>2, <1>3
<1>7. bundle[1].session \in Sessions /\ bundle[1].seq \in 0..MaxFrames
  BY <1>2, EntrySeq DEF Entry
<1> QED
  BY <1>1, <1>4, <1>5, <1>6, <1>7 DEF EncodedAudio, Notification, NextFrame, LinkTypeOK

LEMMA EndNotification ==
  ASSUME IInv, txTask = "endNotify"
  PROVE  LET audio == EncodedAudio(transportVersion, sessionId, endSeq, EndEnvelope, EndPackets)
         IN  audio \in Notification /\ IsEmptyEnd(audio)
<1>1. LinkTypeOK /\ PipelineTypeOK /\ BundleInv
  BY DEF IInv, TypeOK
<1>2. bundle \in Seq(Entry) /\ Len(bundle) \in {0, 1} /\ DOMAIN bundle = 1..Len(bundle)
  <2>1. bundle \in Seq(Entry)
    BY <1>1 DEF PipelineTypeOK
  <2>2. Len(bundle) <= 1
    BY <1>1 DEF BundleInv
  <2>3. Len(bundle) \in Nat /\ DOMAIN bundle = 1..Len(bundle)
    BY <2>1
  <2>4. Len(bundle) \in {0, 1}
    BY <2>2, <2>3
  <2> QED
    BY <2>1, <2>3, <2>4
<1>3. /\ EndPackets = [i \in 1..Len(bundle) |-> [seq |-> endSeq, flags |-> {END}, len |-> 0]]
      /\ DOMAIN EndPackets = 1..Len(bundle)
  BY <1>2 DEF EndPackets
<1>4. [i \in DOMAIN EndPackets |-> EndPackets[i].len] = [i \in 1..Len(bundle) |-> 0]
  BY <1>3
<1>5. EndEnvelope \cup UNION {EndPackets[i].flags : i \in DOMAIN EndPackets} = {END}
  <2>1. CASE bundle = <<>>
    BY <1>2, <1>3, <2>1 DEF EndEnvelope
  <2>2. CASE bundle # <<>>
    <3>1. DOMAIN EndPackets = {1} /\ EndPackets[1].flags = {END} /\ EndEnvelope = {}
      BY <1>2, <1>3, <2>2 DEF EndEnvelope
    <3> QED
      BY <3>1
  <2> QED
    BY <2>1, <2>2
<1>6. [i \in 1..Len(bundle) |-> 0] \in Seq(Nat)
  BY <1>2
<1> QED
  BY <1>1, <1>4, <1>5, <1>6 DEF EncodedAudio, Notification, IsEmptyEnd, LinkTypeOK, PipelineTypeOK

\* The end of an attempt to send a bundle, in whatever way it ended.
LEMMA TxSends ==
  ASSUME IInv, TxStep,
         TxCollectTimedOut \/ TxWindowOpen \/ TxWindowFailed \/ TxNotified \/ TxNotifyFailed
  PROVE  IInv'
<1>1. /\ TypeOK /\ TasksInv /\ SentinelInv /\ BundleInv /\ OneSession /\ OrderInv /\ AirInv
      /\ LinkTypeOK /\ HostTypeOK /\ PipelineTypeOK
  BY DEF IInv, TypeOK
<1>2. /\ UNCHANGED <<captureVars, linkVars, windowVars, control, hostVars, profile, nextSession>>
      /\ UNCHANGED <<running, sessionId, seq, audioTask, caller>>
      /\ LinkTypeOK'
      /\ recorded' \in [Sessions -> 0..MaxFrames]
  BY TxFrame
<1>3. UNCHANGED <<queue, resources, stopping, endSeq>>
  BY DEF TxCollectTimedOut, TxWindowOpen, TxWindowFailed, TxNotified, TxNotifyFailed, startVars
<1>4. HostTypeOK' /\ AirInv'
  <2>1. CASE UNCHANGED air
    <3>1. HostTypeOK'
      BY <1>1, <1>2, <2>1 DEF HostTypeOK, hostVars
    <3>2. AirInv'
      BY <1>1, <2>1 DEF AirInv
    <3> QED BY <3>1, <3>2
  <2>2. CASE TxNotified
    <3> DEFINE audio == EncodedAudio(transportVersion, bundle[1].session, bundle[1].seq, {}, BundlePackets)
    <3>1. air' = Append(air, audio) /\ audio \in Notification /\ NextFrame(audio) <= MaxFrames
      BY <2>2, BundleNotification DEF TxNotified, Notify
    <3>2. air \in Seq(Notification)
      BY <1>1 DEF HostTypeOK
    <3> HIDE DEF audio
    <3>3. HostTypeOK'
      BY <1>1, <1>2, <3>1, <3>2, AppendFacts DEF HostTypeOK, hostVars
    <3>4. AirInv'
      BY <1>1, <3>1, <3>2, AppendCases DEF AirInv
    <3> QED BY <3>3, <3>4
  <2> QED
    BY <2>1, <2>2
    DEF TxCollectTimedOut, TxWindowOpen, TxWindowFailed, TxNotified, TxNotifyFailed, bleVars
<1>5. /\ txTask \in {"collect", "window", "notify"} /\ bundle # <<>> /\ caller # "txStarted"
      /\ txTask = "collect" => ~stopping
  BY <1>1 DEF BundleInv, TasksInv, TxCollectTimedOut, TxWindowOpen, TxWindowFailed, TxNotified, TxNotifyFailed
\* the bundle is tried (again), or is done with
<1>6. \/ bundle' = bundle /\ txTask' \in {"window", "notify"} /\ (txTask' = "window" => profile.version = V2)
      \/ bundle' = <<>> /\ txTask' = IF stopping THEN "end" ELSE "receive"
  <2>1. CASE TxCollectTimedOut
    BY <2>1 DEF TxCollectTimedOut, SendStart
  <2>2. CASE TxWindowOpen
    BY <2>2 DEF TxWindowOpen
  <2>3. CASE TxWindowFailed \/ TxNotifyFailed
    BY <2>3 DEF TxWindowFailed, TxNotifyFailed, BundleFailed, BundleDone, SendStart
  <2>4. CASE TxNotified
    BY <2>4 DEF TxNotified, BundleDone
  <2> QED
    BY <2>1, <2>2, <2>3, <2>4
<1>7. retries' \in 0..(MaxRetries - 1)
  BY <1>1, PipelineAssumption
  DEF TxCollectTimedOut, TxWindowOpen, TxWindowFailed, TxNotified, TxNotifyFailed,
      BundleFailed, BundleDone, PipelineTypeOK
<1>8. /\ txTask' \in {"window", "notify", "end", "receive"}
      /\ SentinelTaken' <=> SentinelTaken
      /\ bundle' \in Seq(Entry) /\ Len(bundle') <= profile.bundleSize
  <2>1. profile.bundleSize \in Nat \ {0}
    BY <1>1, TransportAssumption DEF PipelineTypeOK, Profile
  <2>2. txTask' \in {"window", "notify", "end", "receive"}
    BY <1>6
  <2>3. SentinelTaken' <=> SentinelTaken
    <3>1. stopping \in BOOLEAN /\ stopping' = stopping
      BY <1>1, <1>3 DEF PipelineTypeOK
    <3>2. SentinelTaken <=> stopping
      BY <1>5 DEF SentinelTaken
    <3>3. SentinelTaken' <=> stopping
      BY <1>6, <3>1 DEF SentinelTaken
    <3> QED
      BY <3>2, <3>3
  <2>4. bundle' \in Seq(Entry) /\ Len(bundle') <= profile.bundleSize
    <3>1. CASE bundle' = bundle
      BY <1>1, <3>1 DEF PipelineTypeOK
    <3>2. CASE bundle' = <<>>
      BY <2>1, <3>2
    <3> QED
      BY <1>6, <3>1, <3>2
  <2> QED
    BY <2>2, <2>3, <2>4
<1>9. PipelineTypeOK'
  BY <1>1, <1>2, <1>3, <1>7, <1>8 DEF PipelineTypeOK
<1>10. TasksInv'
  BY <1>1, <1>2, <1>3, <1>5, <1>8 DEF TasksInv, TasksExited
<1>11. SentinelInv'
  BY <1>1, <1>2, <1>3, <1>5, <1>8 DEF SentinelInv
<1>12. BundleInv'
  BY <1>1, <1>2, <1>3, <1>5, <1>6 DEF BundleInv
<1>13. OneSession'
  BY <1>1, <1>2, <1>3, <1>6 DEF OneSession
<1>14. OrderInv'
  BY <1>1, <1>2, <1>3, <1>5, <1>6 DEF OrderInv
<1> QED
  BY <1>2, <1>4, <1>9, <1>10, <1>11, <1>12, <1>13, <1>14 DEF IInv, TypeOK

\* The end marker and what follows it.
LEMMA TxEnds ==
  ASSUME IInv, TxStep, TxEndFormed \/ TxEndNotified \/ TxEndFailed \/ TxExited
  PROVE  IInv'
<1>1. /\ TypeOK /\ TasksInv /\ SentinelInv /\ BundleInv /\ OneSession /\ OrderInv /\ AirInv
      /\ LinkTypeOK /\ HostTypeOK /\ PipelineTypeOK
  BY DEF IInv, TypeOK
<1>2. /\ UNCHANGED <<captureVars, linkVars, windowVars, control, hostVars, profile, nextSession>>
      /\ UNCHANGED <<running, sessionId, seq, audioTask, caller>>
      /\ LinkTypeOK'
      /\ recorded' \in [Sessions -> 0..MaxFrames]
  BY TxFrame
<1>3. UNCHANGED queue
  BY DEF TxEndFormed, TxEndNotified, TxEndFailed, TxExited
<1>4. HostTypeOK' /\ AirInv'
  <2>1. CASE UNCHANGED air
    <3>1. HostTypeOK'
      BY <1>1, <1>2, <2>1 DEF HostTypeOK, hostVars
    <3>2. AirInv'
      BY <1>1, <2>1 DEF AirInv
    <3> QED BY <3>1, <3>2
  <2>2. CASE TxEndNotified
    <3> DEFINE audio == EncodedAudio(transportVersion, sessionId, endSeq, EndEnvelope, EndPackets)
    <3>1. air' = Append(air, audio) /\ audio \in Notification /\ IsEmptyEnd(audio)
      BY <2>2, EndNotification DEF TxEndNotified
    <3>2. air \in Seq(Notification)
      BY <1>1 DEF HostTypeOK
    <3> HIDE DEF audio
    <3>3. HostTypeOK'
      BY <1>1, <1>2, <3>1, <3>2, AppendFacts DEF HostTypeOK, hostVars
    <3>4. AirInv'
      BY <1>1, <3>1, <3>2, AppendCases DEF AirInv
    <3> QED BY <3>3, <3>4
  <2> QED
    BY <2>1, <2>2 DEF TxEndFormed, TxEndNotified, TxEndFailed, TxExited, bleVars
<1>5. /\ txTask \in {"end", "endNotify", "await"} /\ SentinelTaken
      /\ queue = <<>> /\ audioTask \in {"exiting", "none"} /\ endSeq = seq
      /\ caller \notin {"configured", "begun", "txStarted"}
  BY <1>1
  DEF SentinelInv, SentinelTaken, TasksInv, TasksExited, TxEndFormed, TxEndNotified, TxEndFailed, TxExited
<1>6. OrderInv'
  <2>1. txTask' \notin {"collect", "window", "notify"}
    BY DEF TxEndFormed, TxEndNotified, TxEndFailed, TxExited
  <2> QED
    BY <1>1, <1>2, <1>3, <2>1 DEF OrderInv
<1>7. retries' \in 0..(MaxRetries - 1)
  BY <1>1, PipelineAssumption
  DEF TxEndFormed, TxEndNotified, TxEndFailed, TxExited, PipelineTypeOK
<1>8. CASE TxEndFormed \/ TxEndNotified \/ TxEndFailed
  <2> DEFINE marker == [session |-> sessionId, seq |-> endSeq, flags |-> {END}]
  <2>1. /\ UNCHANGED <<resources, stopping, endSeq>>
        /\ txTask' \in {"end", "endNotify", "await"}
        /\ bundle' = <<>> \/ (bundle' = <<marker>> /\ txTask' = "endNotify")
    <3>1. UNCHANGED <<resources, stopping, endSeq>>
      BY <1>8 DEF TxEndFormed, TxEndNotified, TxEndFailed, startVars
    <3>2. txTask' \in {"end", "endNotify", "await"}
      BY <1>8 DEF TxEndFormed, TxEndNotified, TxEndFailed
    <3>3. bundle' = <<>> \/ (bundle' = <<marker>> /\ txTask' = "endNotify")
      BY <1>8 DEF TxEndFormed, TxEndNotified, TxEndFailed
    <3> QED
      BY <3>1, <3>2, <3>3
  <2>2. marker \in Entry /\ marker.session = sessionId
    BY <1>1 DEF PipelineTypeOK, Entry
  <2> HIDE DEF marker
  <2>4. /\ bundle' \in Seq(Entry) /\ Len(bundle') <= 1
        /\ \A i \in DOMAIN bundle' : bundle'[i].session = sessionId
    <3>1. CASE bundle' = <<>>
      BY <3>1
    <3>2. CASE bundle' = <<marker>>
      BY <2>2, <3>2
    <3> QED
      BY <2>1, <3>1, <3>2
  <2>5. profile.bundleSize \in Nat \ {0} /\ Len(bundle') \in Nat
    BY <1>1, <2>4, TransportAssumption DEF PipelineTypeOK, Profile
  <2>6. PipelineTypeOK'
    <3>1. Len(bundle') <= profile.bundleSize
      BY <2>4, <2>5
    <3>2. txTask' \in {"none", "receive", "collect", "window", "notify", "end", "endNotify", "await"}
      BY <2>1
    <3> QED
      BY <1>1, <1>2, <1>3, <1>7, <2>1, <2>4, <3>1, <3>2 DEF PipelineTypeOK
  <2>7. TasksInv'
    BY <1>1, <1>2, <1>5, <2>1 DEF TasksInv, TasksExited
  <2>8. SentinelInv'
    BY <1>1, <1>2, <1>3, <1>5, <2>1 DEF SentinelInv, SentinelTaken
  <2>9. BundleInv'
    BY <2>1, <2>4 DEF BundleInv
  <2>10. OneSession'
    BY <1>1, <1>2, <1>3, <2>4 DEF OneSession
  <2> QED
    BY <1>2, <1>4, <1>6, <2>6, <2>7, <2>8, <2>9, <2>10 DEF IInv, TypeOK
<1>9. CASE TxExited
  <2>1. /\ txTask = "await" /\ txTask' = "none" /\ audioTask = "none" /\ resources' = FALSE
        /\ stopping' = FALSE /\ endSeq' = 0 /\ bundle' = bundle /\ bundle = <<>>
    BY <1>1, <1>9 DEF TxExited, CaptureGone, BundleInv
  <2>2. PipelineTypeOK'
    <3>1. endSeq' \in 0..MaxFrames
      BY <2>1, PipelineAssumption
    <3>2. stopping' \in BOOLEAN /\ resources' \in BOOLEAN
      BY <2>1
    <3>3. bundle' \in Seq(Entry) /\ Len(bundle') <= profile.bundleSize
      BY <1>1, <2>1 DEF PipelineTypeOK
    <3>4. txTask' \in {"none", "receive", "collect", "window", "notify", "end", "endNotify", "await"}
      BY <2>1
    <3> QED
      BY <1>1, <1>2, <1>3, <1>7, <3>1, <3>2, <3>3, <3>4 DEF PipelineTypeOK
  <2>3. TasksInv'
    BY <1>1, <1>2, <1>5, <2>1 DEF TasksInv, TasksExited
  <2>4. SentinelInv'
    <3>1. ~stopping' /\ ~SentinelTaken'
      BY <2>1 DEF SentinelTaken
    <3> QED
      BY <1>2, <1>3, <1>5, <2>1, <3>1 DEF SentinelInv
  <2>5. BundleInv' /\ OneSession'
    BY <1>1, <1>2, <1>3, <2>1 DEF BundleInv, OneSession
  <2> QED
    BY <1>2, <1>4, <1>6, <2>2, <2>3, <2>4, <2>5 DEF IInv, TypeOK
<1> QED
  BY <1>8, <1>9

LEMMA TxKeepsIInv ==
  ASSUME IInv, TxStep
  PROVE  IInv'
BY TxTakes, TxSends, TxEnds DEF TxStep, TxTask

-----------------------------------------------------------------------------
\* Then the NimBLE host task and the app.

\* Steps that leave the pipeline alone keep its part of the invariant.
LEMMA PipelineUnchanged ==
  ASSUME IInv, UNCHANGED <<pipelineVars, recorded>>
  PROVE  PipelineTypeOK' /\ TasksInv' /\ SentinelInv' /\ BundleInv' /\ OneSession' /\ OrderInv'
<1> USE DEF pipelineVars, captureVars, txVars, startVars
<1>1. PipelineTypeOK'
  BY DEF IInv, TypeOK, PipelineTypeOK
<1>2. TasksInv'
  BY DEF IInv, TasksInv, TasksExited
<1>3. SentinelInv'
  BY DEF IInv, SentinelInv, SentinelTaken
<1>4. BundleInv'
  BY DEF IInv, BundleInv
<1>5. OneSession' /\ OrderInv'
  BY DEF IInv, OneSession, OrderInv
<1> QED
  BY <1>1, <1>2, <1>3, <1>4, <1>5

\* What a write to control_rx can carry.
LEMMA WriteTypes ==
  ASSUME HostTypeOK, control # <<>>
  PROVE  /\ Head(control) \in ControlWrite /\ Tail(control) \in Seq(ControlWrite)
         /\ Head(control).type = "audio_transport" => Head(control).version \in {V1, V2}
         /\ Head(control).type = "audio_ack" => Head(control).next \in Nat
<1>1. Head(control) \in ControlWrite /\ Tail(control) \in Seq(ControlWrite)
  BY TailFacts DEF HostTypeOK
<1> QED
  BY <1>1 DEF ControlWrite

LEMMA HostTaskKeepsIInv ==
  ASSUME IInv, HostTaskStep
  PROVE  IInv'
<1>1. LinkTypeOK /\ HostTypeOK /\ AirInv
  BY DEF IInv, TypeOK
<1>2. PipelineTypeOK' /\ TasksInv' /\ SentinelInv' /\ BundleInv' /\ OneSession' /\ OrderInv'
  BY PipelineUnchanged DEF HostTaskStep
<1>3. UNCHANGED <<air, hostVars>>
  BY DEF HostTaskStep, HostTask, SubscribeAudio, SubscribeState, MtuExchanged, ControlVersion,
         ControlAckRejected, ControlAck, ControlAckStored
<1>4. AirInv'
  BY <1>1, <1>3 DEF AirInv
<1>5. HostTypeOK'
  <2>1. control' \in Seq(ControlWrite)
    BY <1>1, WriteTypes
    DEF HostTypeOK, HostTaskStep, HostTask, SubscribeAudio, SubscribeState, MtuExchanged,
        ControlVersion, ControlAckRejected, ControlAck, ControlAckStored, NextWrite
  <2> QED
    BY <1>1, <1>3, <2>1 DEF HostTypeOK, hostVars
<1>6. LinkTypeOK'
  <2>1. CASE SubscribeAudio \/ SubscribeState
    BY <1>1, <2>1 DEF SubscribeAudio, SubscribeState, LinkTypeOK, windowVars
  <2>2. CASE MtuExchanged
    BY <1>1, <2>2, LinkAssumption DEF MtuExchanged, LinkTypeOK, windowVars
  <2>3. CASE ControlVersion
    <3>1. transportVersion' \in {V1, V2} /\ audioSessionId' = 0 /\ ackedSeq' = 0
      BY <1>1, <2>3, WriteTypes DEF ControlVersion, NextWrite, SetTransportVersion
    <3>2. 0 \in Sessions
      BY PipelineAssumption DEF Sessions
    <3> QED
      BY <1>1, <2>3, <3>1, <3>2 DEF ControlVersion, LinkTypeOK
  <2>4. CASE ControlAckRejected
    BY <1>1, <2>4 DEF ControlAckRejected, LinkTypeOK, linkVars, windowVars
  <2>5. CASE ControlAck
    <3>1. [next |-> Head(control).next, of |-> audioSessionId] \in [next : Nat, of : Sessions]
      BY <1>1, <2>5, WriteTypes DEF ControlAck, NextWrite, LinkTypeOK
    <3>2. ackInHand' \in SUBSET [next : Nat, of : Sessions]
      BY <2>5, <3>1 DEF ControlAck
    <3> QED
      BY <1>1, <2>5, <3>2 DEF ControlAck, LinkTypeOK, linkVars
  <2>6. CASE ControlAckStored
    <3>1. PICK ack \in ackInHand : /\ ackedSeq' = ack.next
                                   /\ crossed' = (crossed \/ ack.of # audioSessionId)
      BY <2>6 DEF ControlAckStored
    <3>2. ack.next \in Nat
      BY <1>1, <3>1 DEF LinkTypeOK
    <3>3. ackedSeq' \in Nat /\ crossed' \in BOOLEAN
      BY <1>1, <3>1, <3>2 DEF LinkTypeOK
    <3>4. ackInHand' \in SUBSET [next : Nat, of : Sessions]
      BY <2>6 DEF ControlAckStored
    <3> QED
      BY <1>1, <2>6, <3>3, <3>4 DEF ControlAckStored, LinkTypeOK, linkVars
  <2> QED
    BY <2>1, <2>2, <2>3, <2>4, <2>5, <2>6 DEF HostTaskStep, HostTask
<1> QED
  BY <1>2, <1>4, <1>5, <1>6 DEF IInv, TypeOK

\* The app never hears of a frame the recording cannot have.
LEMMA HeardType ==
  ASSUME HostTypeOK, AirInv, air # <<>>
  PROVE  /\ AcknowledgedNextSeq(Head(air)) \in 0..MaxFrames
         /\ Head(air).session \in Sessions
         /\ Heard(Head(air)) \in [Sessions -> [next : 0..MaxFrames, prefix : 0..MaxFrames, ended : BOOLEAN]]
<1> DEFINE audio == Head(air)
<1>1. audio \in Notification /\ (NextFrame(audio) <= MaxFrames \/ IsEmptyEnd(audio))
  BY TailFacts DEF HostTypeOK, AirInv
<1>2. audio.session \in Sessions /\ audio.first \in 0..MaxFrames /\ audio.lens \in Seq(Nat)
  BY <1>1 DEF Notification
<1>3. AcknowledgedNextSeq(audio) \in 0..MaxFrames
  <2>1. audio.first \in Nat /\ Len(audio.lens) \in Nat /\ MaxFrames \in Nat /\ audio.first <= MaxFrames
    BY <1>2, PipelineAssumption
  <2> HIDE DEF audio
  <2>2. CASE IsEmptyEnd(audio)
    BY <2>1, <2>2 DEF AcknowledgedNextSeq, BatchCount
  <2>3. CASE ~IsEmptyEnd(audio)
    BY <1>1, <2>1, <2>3 DEF AcknowledgedNextSeq, BatchCount, NextFrame
  <2> QED
    BY <2>2, <2>3
<1> HIDE DEF audio
<1>4. heard \in [Sessions -> [next : 0..MaxFrames, prefix : 0..MaxFrames, ended : BOOLEAN]]
  BY DEF HostTypeOK
<1>5. Heard(audio) \in [Sessions -> [next : 0..MaxFrames, prefix : 0..MaxFrames, ended : BOOLEAN]]
  <2> DEFINE old == heard[audio.session]
             new == [next   |-> AcknowledgedNextSeq(audio),
                     prefix |-> IF audio.first = old.prefix THEN AcknowledgedNextSeq(audio) ELSE old.prefix,
                     ended  |-> old.ended \/ END \in audio.flags]
  <2>1. old \in [next : 0..MaxFrames, prefix : 0..MaxFrames, ended : BOOLEAN]
    BY <1>2, <1>4
  <2>2. new \in [next : 0..MaxFrames, prefix : 0..MaxFrames, ended : BOOLEAN]
    BY <1>3, <2>1
  <2>3. Heard(audio) = [heard EXCEPT ![audio.session] = new]
    BY DEF Heard
  <2> HIDE DEF new
  <2> QED
    BY <1>4, <2>2, <2>3
<1> QED
  BY <1>2, <1>3, <1>5 DEF audio

LEMMA AppKeepsIInv ==
  ASSUME IInv, AppStep
  PROVE  IInv'
<1>1. LinkTypeOK /\ HostTypeOK /\ AirInv
  BY DEF IInv, TypeOK
<1>2. PipelineTypeOK' /\ TasksInv' /\ SentinelInv' /\ BundleInv' /\ OneSession' /\ OrderInv'
  BY PipelineUnchanged DEF AppStep
<1>3. 0 \in Sessions
  BY PipelineAssumption DEF Sessions
<1>4. CASE Connected \/ Disconnected
  <2>1. LinkTypeOK'
    <3>1. /\ connected' \in BOOLEAN /\ audioSubscribed' \in BOOLEAN /\ stateSubscribed' \in BOOLEAN
          /\ ackInHand' = ackInHand /\ crossed' = crossed
      BY <1>4 DEF Connected, Disconnected, GapConnect, GapDisconnect, ForgetLink
    <3>2. /\ attMtu' \in Nat /\ transportVersion' \in {V1, V2}
          /\ audioSessionId' \in Sessions /\ ackedSeq' \in Nat
      BY <1>3, <1>4
      DEF Connected, Disconnected, GapConnect, GapDisconnect, ForgetLink, SetTransportVersion, DefaultMtu
    <3> QED
      BY <1>1, <3>1, <3>2 DEF LinkTypeOK
  <2>2. /\ UNCHANGED heard
        /\ controlKnown' = controlKnown \/ controlKnown' = FALSE
        /\ air' = air \/ air' = <<>>
        /\ control' = control \/ control' = <<>>
    BY <1>4 DEF Connected, Disconnected, GapConnect, GapDisconnect, hostVars
  <2>3. HostTypeOK'
    <3>1. air' \in Seq(Notification)
      <4>1. air \in Seq(Notification) /\ <<>> \in Seq(Notification)
        BY <1>1 DEF HostTypeOK
      <4> QED
        BY <2>2, <4>1
    <3>2. control' \in Seq(ControlWrite)
      <4>1. control \in Seq(ControlWrite) /\ <<>> \in Seq(ControlWrite)
        BY <1>1 DEF HostTypeOK
      <4> QED
        BY <2>2, <4>1
    <3>3. controlKnown' \in BOOLEAN
      BY <1>1, <2>2 DEF HostTypeOK
    <3> QED
      BY <1>1, <2>2, <3>1, <3>2, <3>3 DEF HostTypeOK
  <2>4. AirInv'
    BY <1>1, <2>2 DEF AirInv
  <2> QED
    BY <1>2, <2>1, <2>3, <2>4 DEF IInv, TypeOK
<1>5. CASE ControlDiscovered
  <2>1. LinkTypeOK'
    BY <1>1, <1>5 DEF ControlDiscovered, LinkTypeOK, linkVars, windowVars
  <2>2. VersionWrite(V2) \in ControlWrite
    BY DEF VersionWrite, ControlWrite
  <2>3. HostTypeOK'
    BY <1>1, <1>5, <2>2, AppendFacts DEF ControlDiscovered, HostTypeOK
  <2>4. AirInv'
    BY <1>1, <1>5 DEF ControlDiscovered, AirInv
  <2> QED
    BY <1>2, <2>1, <2>3, <2>4 DEF IInv, TypeOK
<1>6. CASE AudioReceived
  <2>1. LinkTypeOK'
    BY <1>1, <1>6 DEF AudioReceived, LinkTypeOK, linkVars, windowVars
  <2>2. /\ air # <<>> /\ air' = Tail(air) /\ UNCHANGED controlKnown
        /\ heard' = heard \/ heard' = Heard(Head(air))
        /\ \/ control' = control
           \/ control' = Append(control, AckWrite(Head(air).session, AcknowledgedNextSeq(Head(air))))
    BY <1>6 DEF AudioReceived
  <2>3. heard' \in [Sessions -> [next : 0..MaxFrames, prefix : 0..MaxFrames, ended : BOOLEAN]]
    BY <1>1, <2>2, HeardType DEF HostTypeOK
  <2>4. AckWrite(Head(air).session, AcknowledgedNextSeq(Head(air))) \in ControlWrite
    BY <1>1, <2>2, HeardType, PipelineAssumption DEF AckWrite, ControlWrite
  <2>5. control' \in Seq(ControlWrite)
    <3>1. control \in Seq(ControlWrite)
      BY <1>1 DEF HostTypeOK
    <3> QED
      BY <2>2, <2>4, <3>1, AppendFacts
  <2>6. air \in Seq(Notification) /\ air' \in Seq(Notification)
    BY <1>1, <2>2, TailFacts DEF HostTypeOK
  <2>7. HostTypeOK'
    BY <1>1, <2>2, <2>3, <2>5, <2>6 DEF HostTypeOK
  <2>8. AirInv'
    BY <1>1, <2>2, <2>6, TailFacts DEF AirInv
  <2> QED
    BY <1>2, <2>1, <2>7, <2>8 DEF IInv, TypeOK
<1> QED
  BY <1>4, <1>5, <1>6 DEF AppStep, Host

-----------------------------------------------------------------------------
\* The theorems.

LEMMA StutterKeepsIInv ==
  ASSUME IInv, UNCHANGED vars
  PROVE  IInv'
<1>1. /\ UNCHANGED <<pipelineVars, recorded>>
      /\ UNCHANGED <<linkVars, windowVars, air, control, controlKnown, heard>>
  BY DEF vars, bleVars, hostVars
<1>2. PipelineTypeOK' /\ TasksInv' /\ SentinelInv' /\ BundleInv' /\ OneSession' /\ OrderInv'
  BY <1>1, PipelineUnchanged
<1>3. LinkTypeOK'
  BY <1>1 DEF IInv, TypeOK, LinkTypeOK, linkVars, windowVars
<1>4. HostTypeOK' /\ AirInv'
  BY <1>1 DEF IInv, TypeOK, HostTypeOK, AirInv
<1> QED
  BY <1>2, <1>3, <1>4 DEF IInv, TypeOK

(* IInv holds in every reachable state: the tasks of the pipeline hand     *)
(* over as each assumes the others do.                                     *)
THEOREM Invariance == Spec => []IInv
<1>1. Init => IInv
  BY InitIInv
<1>2. IInv /\ [Next]_vars => IInv'
  BY CallerKeepsIInv, AudioKeepsIInv, TxKeepsIInv, HostTaskKeepsIInv, AppKeepsIInv, StutterKeepsIInv
  DEF Next
<1> QED
  BY <1>1, <1>2, PTL DEF Spec

(* Every variable keeps its type: the queue and the array bundle[] of      *)
(* tx_task are never written past their ends.                              *)
THEOREM TypeCorrect == Spec => []TypeOK
<1>1. IInv => TypeOK
  BY DEF IInv
<1> QED
  BY <1>1, Invariance, PTL

(* The end marker of a recording counts its frames, because it is queued   *)
(* when audio_task has stopped capturing and not before.                   *)
THEOREM EndAfterCapture == Spec => []EndClosesCapture
<1>1. IInv => EndClosesCapture
  BY DEF IInv, SentinelInv, TasksInv, TasksExited, SentinelTaken, EndClosesCapture
<1> QED
  BY <1>1, Invariance, PTL

(* A finished recording leaves no entry in the queue for the next one.     *)
THEOREM QueueEmptied == Spec => []QueueDrained
<1>1. IInv => QueueDrained
  BY DEF IInv, SentinelInv, QueueDrained
<1> QED
  BY <1>1, Invariance, PTL

(* Entries of two recordings never meet in the queue or in a bundle.       *)
THEOREM SessionsApart == Spec => []OneSession
<1>1. IInv => OneSession
  BY DEF IInv
<1> QED
  BY <1>1, Invariance, PTL

(* The codec, the encoder and the I2S channel outlive audio_task and are   *)
(* released with the session.                                              *)
THEOREM ResourcesReleased == Spec => []ResourcesOwned
<1>1. IInv => ResourcesOwned
  BY DEF IInv, TasksInv, TasksExited, ResourcesOwned
<1> QED
  BY <1>1, Invariance, PTL

-----------------------------------------------------------------------------
\* The radio.

\* What a notification in the air consists of.
LEMMA AirTypes ==
  ASSUME HostTypeOK, NEW i \in DOMAIN air
  PROVE  /\ air[i] \in Notification
         /\ air[i].session \in Sessions /\ air[i].session \in Nat
         /\ air[i].first \in Nat /\ NextFrame(air[i]) \in Nat
         /\ heard[air[i].session].next \in Nat /\ heard[air[i].session].ended \in BOOLEAN
<1>1. air[i] \in Notification
  BY DEF HostTypeOK
<1>2. /\ air[i].session \in Sessions /\ air[i].first \in 0..MaxFrames /\ air[i].lens \in Seq(Nat)
  BY <1>1 DEF Notification
<1>3. air[i].session \in Nat /\ air[i].first \in Nat /\ NextFrame(air[i]) \in Nat
  BY <1>2, PipelineAssumption DEF Sessions, NextFrame
<1>4. heard[air[i].session] \in [next : 0..MaxFrames, prefix : 0..MaxFrames, ended : BOOLEAN]
  BY <1>2 DEF HostTypeOK
<1> QED
  BY <1>1, <1>2, <1>3, <1>4, PipelineAssumption

\* The device's own numbers.
LEMMA OwnTypes ==
  ASSUME TypeOK
  PROVE  /\ sessionId \in Sessions /\ sessionId \in Nat /\ seq \in Nat /\ nextSession \in Nat
         /\ \A s \in Sessions : s \in Nat /\ recorded[s] \in Nat /\ heard[s].next \in Nat
                                /\ heard[s].ended \in BOOLEAN
<1>1. PipelineTypeOK /\ HostTypeOK
  BY DEF TypeOK
<1>2. ASSUME NEW s \in Sessions
      PROVE  heard[s] \in [next : 0..MaxFrames, prefix : 0..MaxFrames, ended : BOOLEAN]
  BY <1>1 DEF HostTypeOK
<1> QED
  BY <1>1, <1>2, PipelineAssumption DEF PipelineTypeOK, Sessions

\* The history does not change while s_seq and s_session_id do not.
LEMMA RecordKept ==
  ASSUME TypeOK, recorded[sessionId] = seq, Record, UNCHANGED <<sessionId, seq>>
  PROVE  recorded' = recorded
BY DEF TypeOK, PipelineTypeOK, Record

\* The notifications in the air and what was heard have nothing to fear of a
\* step that takes nothing else away.
LEMMA RadioKept ==
  ASSUME IInv, StreamInv, UNCHANGED <<heard, sessionId, seq, recorded>>,
         air' = air \/ air' = <<>>,
         EndSent => EndSent',
         Unsent' \subseteq Unsent,
         sessionId < nextSession',
         caller' \in {"starting", "configured"} => sessionId < nextSession' - 1,
         caller' = "begun" => caller = "begun"
  PROVE  StreamInv'
<1>1. SessionsInv /\ RadioInv /\ AheadInv /\ HostTypeOK
  BY DEF StreamInv, IInv, TypeOK
<1>2. \A s \in Sessions : Silent(s)' <=> Silent(s)
  BY DEF Silent
<1>3. \A i \in DOMAIN air' : i \in DOMAIN air /\ air'[i] = air[i]
  BY <1>1 DEF HostTypeOK
<1>4. SessionsInv'
  BY <1>1, <1>2, <1>3 DEF SessionsInv
<1>5. RadioInv'
  <2>1. ASSUME NEW i \in DOMAIN air' PROVE (Genuine(air[i]) /\ Unheeded(air[i]))'
    <3>1. i \in DOMAIN air /\ air'[i] = air[i] /\ Genuine(air[i]) /\ Unheeded(air[i])
      BY <1>1, <1>3 DEF RadioInv
    <3> QED
      BY <1>2, <3>1 DEF Genuine, Unheeded
  <2>2. ASSUME NEW i \in DOMAIN air', NEW j \in DOMAIN air', i < j
        PROVE  Precedes(air[i], air[j])'
    BY <1>1, <1>3, <2>2 DEF RadioInv, Precedes
  <2>3. heard'[sessionId'].ended => EndSent'
    BY <1>1 DEF RadioInv
  <2> QED
    BY <2>1, <2>2, <2>3 DEF RadioInv
<1>6. AheadInv'
  <2>1. ASSUME NEW n, AheadOf(n) PROVE AheadOf(n)'
    BY <1>3, <2>1 DEF AheadOf
  <2> QED
    BY <1>1, <2>1 DEF AheadInv
<1> QED
  BY <1>4, <1>5, <1>6 DEF StreamInv

LEMMA InitStream == Init => StreamInv
<1> SUFFICES ASSUME Init PROVE StreamInv
  OBVIOUS
<1> USE DEF Init, LinkInit, PipelineInit
<1>1. \A s \in Sessions : Silent(s) /\ recorded[s] = 0
  BY DEF Silent, Unheard
<1>2. 0 \in Sessions
  BY PipelineAssumption DEF Sessions
<1>3. DOMAIN air = {} /\ DOMAIN queue = {} /\ DOMAIN bundle = {}
  OBVIOUS
<1>4. SessionsInv
  BY <1>1, <1>2 DEF SessionsInv
<1>5. RadioInv
  BY <1>1, <1>2, <1>3 DEF RadioInv, Silent
<1>6. AheadInv
  BY <1>1, <1>2, <1>3 DEF AheadInv, AheadOf, Unsent, Held, Silent
<1> QED
  BY <1>4, <1>5, <1>6 DEF StreamInv

-----------------------------------------------------------------------------
\* The steps of the three tasks.

\* A frame is captured.
LEMMA CaptureKeepsStream ==
  ASSUME IInv, StreamInv, UNCHANGED <<heard, air, sessionId, nextSession, caller, txTask>>,
         seq' = seq + 1, Record,
         audioTask \in {"loop", "reading", "overflow"}, audioTask' = "loop",
         Unsent' \subseteq Unsent \cup {seq + 1}
  PROVE  StreamInv'
<1>1. SessionsInv /\ RadioInv /\ AheadInv /\ HostTypeOK /\ TypeOK
  BY DEF StreamInv, IInv, TypeOK
<1>2. /\ recorded'[sessionId] = seq + 1
      /\ \A s \in Sessions : s # sessionId => recorded'[s] = recorded[s]
  BY <1>1 DEF Record, TypeOK, PipelineTypeOK
<1>3. \A s \in Sessions : Silent(s)' <=> Silent(s)
  BY DEF Silent
<1>4. ~EndSent
  BY DEF EndSent, Capturing
<1>5. SessionsInv'
  <2>1. sessionId \in Nat /\ \A s \in Sessions : s \in Nat
    BY <1>1, OwnTypes
  <2> QED
    BY <1>1, <1>2, <1>3, <2>1 DEF SessionsInv
<1>6. RadioInv'
  <2>1. ASSUME NEW i \in DOMAIN air PROVE (Genuine(air[i]) /\ Unheeded(air[i]))'
    <3>1. Genuine(air[i]) /\ Unheeded(air[i])
      BY <1>1 DEF RadioInv
    <3>2. Unheeded(air[i])'
      BY <1>3, <3>1 DEF Unheeded
    <3>3. air[i].session \in Sessions /\ NextFrame(air[i]) \in Nat /\ seq \in Nat
      BY <1>1, AirTypes, OwnTypes
    <3>4. Genuine(air[i])'
      <4>1. CASE air[i].session # sessionId
        BY <1>2, <3>1, <3>3, <4>1 DEF Genuine
      <4>2. CASE air[i].session = sessionId
        BY <1>1, <1>2, <1>4, <3>1, <3>3, <4>2 DEF Genuine, SessionsInv
      <4> QED
        BY <4>1, <4>2
    <3> QED
      BY <3>2, <3>4
  <2>2. \A i, j \in DOMAIN air : i < j => Precedes(air[i], air[j])
    BY <1>1 DEF RadioInv
  <2>3. ~heard[sessionId].ended
    BY <1>1, <1>4 DEF RadioInv
  <2> QED
    BY <2>1, <2>2, <2>3 DEF RadioInv, Precedes
<1>7. AheadInv'
  <2>1. ASSUME NEW n, AheadOf(n) PROVE AheadOf(n)'
    BY <2>1 DEF AheadOf
  <2>2. AheadOf(seq + 1)
    <3>1. AheadOf(seq)
      BY <1>1 DEF AheadInv, Unsent
    <3>2. seq \in Nat /\ heard[sessionId].next \in Nat
      BY <1>1, OwnTypes
    <3>3. \A i \in DOMAIN air : NextFrame(air[i]) \in Nat
      BY <1>1, AirTypes
    <3> QED
      BY <3>1, <3>2, <3>3 DEF AheadOf
  <2> QED
    BY <1>1, <2>1, <2>2 DEF AheadInv
<1> QED
  BY <1>5, <1>6, <1>7 DEF StreamInv

LEMMA AudioKeepsStream ==
  ASSUME IInv, StreamInv, AudioStep
  PROVE  StreamInv'
<1>1. /\ TypeOK /\ PipelineTypeOK /\ TasksInv /\ SessionsInv
      /\ queue \in Seq(Entry) /\ Frame \in Entry /\ Sentinel \in Entry
      /\ Frame.seq = seq /\ Sentinel.seq = seq
  BY EntryTypes DEF IInv, TypeOK, PipelineTypeOK, StreamInv
<1>2. /\ UNCHANGED <<heard, air, sessionId, nextSession, caller, txTask, bundle>> /\ Record
      /\ audioTask # "none"
  BY DEF AudioStep, AudioTask, AudioLoop, AudioReadFailed, AudioEnqueued, AudioQueueFull,
         AudioOverflowed, AudioClosed, AudioExited, txVars, startVars, bleVars, hostVars
<1>3. Held' = Held
  BY <1>2 DEF Held
<1>4. ASSUME NEW e \in Entry, e.seq = seq
      PROVE  \A i \in DOMAIN Append(queue, e) : Append(queue, e)[i].seq \in Unsent
  BY <1>1, <1>4, AppendCases DEF Unsent
<1>5. CASE AudioEnqueued \/ AudioOverflowed
  <2>1. \A i \in DOMAIN queue' : queue'[i].seq \in Unsent
    <3>1. CASE AudioEnqueued
      BY <1>1, <1>4, <3>1 DEF AudioEnqueued
    <3>2. CASE AudioOverflowed
      <4>1. CASE queue = <<>>
        BY <1>1, <3>2, <4>1 DEF AudioOverflowed, Overflowed, Unsent
      <4>2. CASE queue # <<>>
        <5>1. queue' = Append(Tail(queue), Frame)
          BY <3>2, <4>2 DEF AudioOverflowed, Overflowed
        <5>2. Tail(queue) \in Seq(Entry) /\ \A i \in DOMAIN Tail(queue) : Tail(queue)[i].seq \in Unsent
          BY <1>1, <4>2, TailFacts DEF Unsent
        <5> QED
          BY <1>1, <5>1, <5>2, AppendCases DEF Unsent
      <4> QED
        BY <4>1, <4>2
    <3> QED
      BY <1>5, <3>1, <3>2
  <2>2. seq' = seq + 1 /\ audioTask \in {"loop", "reading", "overflow"} /\ audioTask' = "loop"
    BY <1>5 DEF AudioEnqueued, AudioOverflowed
  <2>3. Unsent' \subseteq Unsent \cup {seq + 1}
    BY <1>3, <2>1, <2>2 DEF Unsent
  <2> QED
    BY <1>2, <2>2, <2>3, CaptureKeepsStream
<1>6. CASE AudioLoop \/ AudioReadFailed \/ AudioQueueFull \/ AudioClosed \/ AudioExited
  <2>1. /\ UNCHANGED <<sessionId, seq>>
        /\ queue' = queue \/ queue' = Append(queue, Sentinel)
    BY <1>6 DEF AudioLoop, AudioReadFailed, AudioQueueFull, AudioClosed, AudioExited
  <2>2. recorded' = recorded
    BY <1>1, <1>2, <2>1, RecordKept DEF SessionsInv
  <2>3. EndSent => EndSent'
    BY <1>2, <1>6
    DEF EndSent, Capturing, AudioLoop, AudioReadFailed, AudioQueueFull, AudioClosed, AudioExited
  <2>4. \A i \in DOMAIN queue' : queue'[i].seq \in Unsent
    <3>1. CASE queue' = queue
      BY <3>1 DEF Unsent
    <3>2. CASE queue' = Append(queue, Sentinel)
      BY <1>1, <1>4, <3>2
    <3> QED
      BY <2>1, <3>1, <3>2
  <2>5. Unsent' \subseteq Unsent
    BY <1>3, <2>1, <2>4 DEF Unsent
  <2> QED
    BY <1>1, <1>2, <2>1, <2>2, <2>3, <2>5, RadioKept DEF SessionsInv
<1> QED
  BY <1>5, <1>6 DEF AudioStep, AudioTask

\* A recording begins under a number above all others.
LEMMA SessionKeepsStream ==
  ASSUME IInv, StreamInv, CallerStep, StartSession
  PROVE  StreamInv'
<1>1. SessionsInv /\ RadioInv /\ TypeOK /\ HostTypeOK /\ PipelineTypeOK /\ BundleInv
  BY DEF StreamInv, IInv, TypeOK
<1>2. /\ UNCHANGED <<heard, air, nextSession, txTask, bundle, audioTask>>
      /\ sessionId' = nextSession - 1 /\ seq' = 0 /\ queue' = <<>> /\ caller' = "begun"
      /\ Record /\ TasksExited /\ caller = "configured"
  BY DEF CallerStep, StartSession, txVars, hostVars, IInv, TasksInv
<1>3. /\ sessionId' \in Sessions /\ sessionId' > sessionId /\ sessionId' < nextSession
      /\ sessionId \in Nat /\ sessionId' \in Nat /\ nextSession \in Nat
  <2>1. nextSession \in 1..(MaxSessions + 1) /\ sessionId < nextSession - 1
    BY <1>1, <1>2 DEF SessionsInv, PipelineTypeOK
  <2> QED
    BY <1>1, <1>2, <2>1, OwnTypes, PipelineAssumption DEF Sessions
<1>4. recorded' = recorded
  BY <1>1, <1>2, <1>3 DEF SessionsInv, Record, PipelineTypeOK
<1>5. \A s \in Sessions : (Silent(s)' <=> Silent(s)) /\ s \in Nat
  BY <1>1, <1>2, OwnTypes DEF Silent
<1>6. Silent(sessionId') /\ recorded[sessionId'] = 0
  BY <1>1, <1>3 DEF SessionsInv
<1>7. \A i \in DOMAIN air : /\ Genuine(air[i]) /\ Unheeded(air[i])
                            /\ air[i].session \in Sessions /\ air[i].session \in Nat
                            /\ air[i].session # sessionId' /\ air[i].session < sessionId'
  <2>1. \A i \in DOMAIN air : Genuine(air[i]) /\ Unheeded(air[i]) /\ air[i].session \in Sessions /\ air[i].session \in Nat
    BY <1>1, AirTypes DEF RadioInv
  <2> QED
    BY <1>3, <2>1 DEF Genuine
<1>8. SessionsInv'
  BY <1>1, <1>2, <1>3, <1>4, <1>5, <1>6, <1>7 DEF SessionsInv
<1>9. RadioInv'
  <2>1. ASSUME NEW i \in DOMAIN air PROVE (Genuine(air[i]) /\ Unheeded(air[i]))'
    BY <1>2, <1>3, <1>4, <1>5, <1>7 DEF Genuine, Unheeded
  <2>2. \A i, j \in DOMAIN air : i < j => Precedes(air[i], air[j])
    BY <1>1 DEF RadioInv
  <2>3. ~heard'[sessionId'].ended
    BY <1>2, <1>6 DEF Silent
  <2> QED
    BY <1>2, <2>1, <2>2, <2>3 DEF RadioInv, Precedes
<1>10. AheadInv'
  <2>1. Unsent' = {0}
    <3>1. DOMAIN queue' = {}
      BY <1>2
    <3>2. Held' = {}
      BY <1>2 DEF Held, TasksExited
    <3> QED
      BY <1>2, <3>1, <3>2 DEF Unsent
  <2>2. AheadOf(0)'
    BY <1>2, <1>6, <1>7 DEF AheadOf, Silent
  <2> QED
    BY <2>1, <2>2 DEF AheadInv
<1> QED
  BY <1>8, <1>9, <1>10 DEF StreamInv

LEMMA CallerKeepsStream ==
  ASSUME IInv, StreamInv, CallerStep
  PROVE  StreamInv'
<1>1. /\ TypeOK /\ PipelineTypeOK /\ TasksInv /\ SessionsInv /\ BundleInv
      /\ queue \in Seq(Entry) /\ Sentinel \in Entry /\ Sentinel.seq = seq
  BY EntryTypes DEF IInv, TypeOK, PipelineTypeOK, StreamInv
<1>2. CASE StartSession
  BY <1>2, SessionKeepsStream
<1>3. CASE StartRequested \/ StartTimedOut \/ StartConfigured \/ StartTxTask \/ StartAudioTask \/ Stop
  <2>1. /\ UNCHANGED <<heard, air, sessionId, seq, bundle>> /\ Record
        /\ queue' = queue \/ queue' = Append(queue, Sentinel)
    BY <1>3
    DEF CallerStep, StartRequested, StartTimedOut, StartConfigured, StartTxTask, StartAudioTask, Stop,
        captureVars, txVars, bleVars, hostVars
  <2>2. recorded' = recorded
    BY <1>1, <2>1, RecordKept DEF SessionsInv
  <2>3. txTask' = txTask \/ (txTask' = "receive" /\ caller = "begun")
    BY <1>3
    DEF StartRequested, StartTimedOut, StartConfigured, StartTxTask, StartAudioTask, Stop, txVars
  <2>4. Held' \subseteq Held
    BY <2>1, <2>3 DEF Held
  <2>5. \A i \in DOMAIN queue' : queue'[i].seq \in Unsent
    <3>1. CASE queue' = queue
      BY <3>1 DEF Unsent
    <3>2. CASE queue' = Append(queue, Sentinel)
      BY <1>1, <3>2, AppendCases DEF Unsent
    <3> QED
      BY <2>1, <3>1, <3>2
  <2>6. Unsent' \subseteq Unsent
    BY <2>1, <2>4, <2>5 DEF Unsent
  <2>7. EndSent => EndSent'
    BY <1>3
    DEF EndSent, Capturing, StartRequested, StartTimedOut, StartConfigured, StartTxTask, StartAudioTask,
        Stop, captureVars, txVars, startVars
  <2>8. /\ sessionId < nextSession'
        /\ caller' \in {"starting", "configured"} => sessionId < nextSession' - 1
        /\ caller' # "begun"
    <3>1. sessionId \in Nat /\ nextSession \in Nat
      BY <1>1, OwnTypes
    <3> QED
      BY <1>1, <1>3, <3>1
      DEF SessionsInv, StartRequested, StartTimedOut, StartConfigured, StartTxTask, StartAudioTask, Stop, startVars
  <2> QED
    BY <2>1, <2>2, <2>6, <2>7, <2>8, RadioKept
<1> QED
  BY <1>2, <1>3 DEF CallerStep, Caller

\* A notification is handed over: it comes after all that was sent, and what
\* is left comes after it.
LEMMA SentKeepsStream ==
  ASSUME IInv, StreamInv, NEW audio \in Notification, air' = Append(air, audio),
         UNCHANGED <<heard, sessionId, seq, recorded, caller, nextSession>>,
         audio.session = sessionId, ~EndSent, caller # "begun", AheadOf(audio.first),
         \/ /\ IsEmptyEnd(audio) /\ audio.first = seq
            /\ EndSent' /\ Unsent' \subseteq {seq}
         \/ /\ ~IsEmptyEnd(audio) /\ audio.lens # <<>> /\ END \notin audio.flags
            /\ Unsent' \subseteq Unsent
            /\ \A n \in Unsent' : NextFrame(audio) <= n
  PROVE  StreamInv'
<1>1. /\ SessionsInv /\ RadioInv /\ AheadInv /\ HostTypeOK /\ TypeOK
      /\ air \in Seq(Notification) /\ recorded[sessionId] = seq /\ sessionId \in Sessions
  BY OwnTypes DEF StreamInv, IInv, TypeOK, HostTypeOK, SessionsInv
<1>2. \A s \in Sessions : (Silent(s)' <=> Silent(s)) /\ s \in Nat
  BY <1>1, OwnTypes DEF Silent
<1>3. \A i \in DOMAIN air :
        /\ Genuine(air[i]) /\ Unheeded(air[i]) /\ air[i].session \in Nat
        /\ air[i].session = sessionId => ~IsEmptyEnd(air[i]) /\ NextFrame(air[i]) <= audio.first
  <2>1. \A i \in DOMAIN air : Genuine(air[i]) /\ Unheeded(air[i]) /\ air[i].session \in Nat
    BY <1>1, AirTypes DEF RadioInv
  <2> QED
    BY <2>1 DEF Genuine, AheadOf
<1>4. SessionsInv'
  BY <1>1, <1>2 DEF SessionsInv
<1>5. Genuine(audio)' /\ Unheeded(audio)'
  <2>1. NextFrame(audio) <= seq \/ IsEmptyEnd(audio)
    BY DEF Unsent
  <2>2. Genuine(audio)'
    BY <1>1, <2>1, OwnTypes DEF Genuine
  <2>3. Unheeded(audio)'
    <3>1. ~heard[sessionId].ended /\ heard[sessionId].next <= audio.first
      BY <1>1 DEF RadioInv, AheadOf
    <3>2. \A s \in Sessions : s > sessionId => Silent(s)
      BY <1>1 DEF SessionsInv
    <3> QED
      BY <1>2, <3>1, <3>2 DEF Unheeded
  <2> QED
    BY <2>2, <2>3
<1>6. RadioInv'
  <2>1. ASSUME NEW i \in DOMAIN air' PROVE (Genuine(air[i]) /\ Unheeded(air[i]))'
    <3>1. CASE i \in DOMAIN air /\ air'[i] = air[i]
      <4>1. Genuine(air[i]) /\ Unheeded(air[i]) /\ ~(IsEmptyEnd(air[i]) /\ air[i].session = sessionId)
        BY <1>3, <3>1
      <4> QED
        BY <1>2, <3>1, <4>1 DEF Genuine, Unheeded
    <3>2. CASE air'[i] = audio
      BY <1>5, <3>2 DEF Genuine, Unheeded
    <3> QED
      BY <1>1, <3>1, <3>2, AppendCases
  <2>2. ASSUME NEW i \in DOMAIN air', NEW j \in DOMAIN air', i < j
        PROVE  Precedes(air'[i], air'[j])
    <3>1. i \in DOMAIN air /\ air'[i] = air[i]
      BY <1>1, <2>2, AppendCases, AppendFacts
    <3>2. CASE j \in DOMAIN air /\ air'[j] = air[j]
      BY <1>1, <2>2, <3>1, <3>2 DEF RadioInv
    <3>3. CASE air'[j] = audio
      <4>1. air[i].session \in Nat /\ sessionId \in Nat /\ air[i].session <= sessionId
        BY <1>1, <1>3, <3>1, OwnTypes DEF Genuine
      <4> QED
        BY <1>3, <3>1, <3>3, <4>1 DEF Precedes
    <3> QED
      BY <1>1, <3>2, <3>3, AppendCases
  <2>3. ~heard[sessionId].ended
    BY <1>1 DEF RadioInv
  <2> QED
    BY <2>1, <2>2, <2>3 DEF RadioInv, Precedes
<1>7. AheadInv'
  <2> SUFFICES ASSUME NEW n \in Unsent' PROVE AheadOf(n)'
    BY DEF AheadInv
  <2>1. AheadOf(n) /\ (IsEmptyEnd(audio) \/ NextFrame(audio) <= n)
    BY <1>1 DEF AheadInv, Unsent
  <2> QED
    BY <1>1, <2>1, AppendCases DEF AheadOf
<1> QED
  BY <1>4, <1>6, <1>7 DEF StreamInv

\* The notification of a bundle: its frames are those of the bundle from the
\* first, without a gap.
LEMMA BundleFrames ==
  ASSUME IInv, txTask = "notify", CanNotify(bundle[1].seq, BundlePackets),
         NEW audio, audio = EncodedAudio(transportVersion, bundle[1].session, bundle[1].seq, {}, BundlePackets)
  PROVE  /\ audio \in Notification
         /\ audio.version = transportVersion
         /\ audio.session = sessionId /\ audio.first = bundle[1].seq
         /\ audio.lens # <<>> /\ END \notin audio.flags /\ ~IsEmptyEnd(audio)
         /\ Len(bundle) \in Nat \ {0}
         /\ \E n \in 1..Len(bundle) : /\ NextFrame(audio) = bundle[n].seq + 1
                                      /\ NextFrame(audio) = bundle[1].seq + n
                                      /\ profile.version = V2 => n = Len(bundle)
<1> DEFINE packets == BundlePackets
           n == IF profile.version = V2 THEN Len(bundle) ELSE 1
<1>1. /\ TypeOK /\ BundleInv /\ OneSession /\ OrderInv /\ PipelineTypeOK
  BY DEF IInv, TypeOK
<1>2. bundle \in Seq(Entry) /\ Len(bundle) \in Nat \ {0} /\ 1 \in DOMAIN bundle /\ n \in 1..Len(bundle)
      /\ DOMAIN bundle = 1..Len(bundle)
  BY <1>1 DEF PipelineTypeOK, BundleInv
<1>3. /\ packets = [i \in 1..n |->
                     [seq |-> bundle[i].seq, flags |-> bundle[i].flags, len |-> OpusPacketBytes(profile)]]
      /\ DOMAIN packets = 1..n /\ n \in DOMAIN packets
  BY <1>2 DEF BundlePackets
<1>4. \A i \in DOMAIN packets : END \notin packets[i].flags
  <2> SUFFICES ASSUME NEW i \in DOMAIN packets PROVE END \notin packets[i].flags
    OBVIOUS
  <2>1. i \in DOMAIN bundle /\ packets[i].flags = bundle[i].flags
    BY <1>2, <1>3
  <2>2. bundle[i] \in Entry /\ ~IsSentinel(bundle[i])
    BY <1>1, <1>2, <2>1, EntrySeq DEF BundleInv, NoSentinel
  <2> QED
    BY <2>1, <2>2 DEF Entry, IsSentinel, START, END
<1>5. packets[n].seq = bundle[1].seq + n - 1 /\ packets[n].seq = bundle[n].seq
  <2>1. Contiguous(bundle[1].seq, packets)
    BY DEF CanNotify, Encodable
  <2> QED
    BY <1>2, <1>3, <2>1 DEF Contiguous
<1>6. /\ audio.first = bundle[1].seq /\ audio.version = transportVersion
      /\ audio.session = bundle[1].session
      /\ audio.lens = [i \in 1..n |-> packets[i].len]
      /\ audio.flags = {} \cup UNION {packets[i].flags : i \in DOMAIN packets}
  BY <1>3 DEF EncodedAudio
<1>7. END \notin audio.flags
  BY <1>4, <1>6
<1> HIDE DEF packets
<1>8. Len(audio.lens) = n /\ audio.lens # <<>>
  BY <1>2, <1>6
<1>9. bundle[1].seq \in Nat /\ bundle[n].seq \in Nat
  BY <1>2, EntrySeq
<1>10. NextFrame(audio) = bundle[n].seq + 1 /\ NextFrame(audio) = bundle[1].seq + n
  BY <1>2, <1>5, <1>6, <1>8, <1>9 DEF NextFrame
<1>11. audio \in Notification
  BY BundleNotification
<1>12. bundle[1].session = sessionId
  BY <1>1, <1>2 DEF OneSession
<1> QED
  BY <1>2, <1>6, <1>7, <1>8, <1>10, <1>11, <1>12 DEF IsEmptyEnd

LEMMA BundleKeepsStream ==
  ASSUME IInv, StreamInv, TxStep, TxNotified
  PROVE  StreamInv'
<1> DEFINE sent == EncodedAudio(transportVersion, bundle[1].session, bundle[1].seq, {}, BundlePackets)
<1>0. PICK audio : audio = sent
  OBVIOUS
<1>1. /\ TypeOK /\ PipelineTypeOK /\ TasksInv /\ SessionsInv /\ AheadInv /\ OrderInv
  BY DEF IInv, TypeOK, StreamInv
<1>2. /\ txTask = "notify" /\ CanNotify(bundle[1].seq, BundlePackets) /\ air' = Append(air, audio)
      /\ UNCHANGED <<queue, heard, sessionId, seq, caller, nextSession>> /\ Record
      /\ bundle' = <<>>
  BY <1>0, TxFrame DEF TxNotified, Notify, BundleDone, hostVars, TxStep
<1> HIDE DEF sent
<1>3. recorded' = recorded
  BY <1>1, <1>2, RecordKept DEF SessionsInv
<1>4. /\ audio \in Notification /\ audio.session = sessionId /\ audio.first = bundle[1].seq
      /\ audio.lens # <<>> /\ END \notin audio.flags /\ ~IsEmptyEnd(audio)
      /\ Len(bundle) \in Nat \ {0}
  BY <1>0, <1>2, BundleFrames DEF sent
<1>5. PICK n \in 1..Len(bundle) : NextFrame(audio) = bundle[n].seq + 1
  BY <1>0, <1>2, BundleFrames DEF sent
<1>6. bundle \in Seq(Entry) /\ n \in DOMAIN bundle /\ 1 \in DOMAIN bundle /\ queue \in Seq(Entry)
  BY <1>1, <1>4, <1>5 DEF PipelineTypeOK
<1>7. AheadOf(audio.first)
  BY <1>1, <1>2, <1>4, <1>6 DEF AheadInv, Unsent, Held
<1>8. Unsent' \subseteq Unsent
  <2>1. Held' = {}
    BY <1>2 DEF Held
  <2> QED
    BY <1>2, <2>1 DEF Unsent
<1>9. ASSUME NEW m \in Unsent' PROVE NextFrame(audio) <= m
  <2>1. m = seq \/ \E i \in DOMAIN queue : m = queue[i].seq
    BY <1>2 DEF Unsent, Held
  <2>2. bundle[n].seq \in Nat /\ seq \in Nat /\ \A i \in DOMAIN queue : queue[i].seq \in Nat
    BY <1>1, <1>6, EntrySeq, OwnTypes
  <2>3. bundle[n].seq < seq
    <3>1. Numbered(bundle, seq) /\ NoSentinel(bundle)
      BY <1>1, <1>2 DEF OrderInv, BundleInv, IInv
    <3> QED
      BY <1>6, <2>2, <3>1 DEF Numbered, NoSentinel
  <2>4. \A i \in DOMAIN queue : bundle[n].seq < queue[i].seq
    BY <1>1, <1>2, <1>6 DEF OrderInv, Before
  <2> QED
    BY <1>5, <2>1, <2>2, <2>3, <2>4
<1>10. ~EndSent /\ caller # "begun"
  BY <1>1, <1>2 DEF EndSent, TasksInv, TasksExited
<1> QED
  BY <1>2, <1>3, <1>4, <1>7, <1>8, <1>9, <1>10, SentKeepsStream

LEMMA EndKeepsStream ==
  ASSUME IInv, StreamInv, TxStep, TxEndNotified
  PROVE  StreamInv'
<1> DEFINE sent == EncodedAudio(transportVersion, sessionId, endSeq, EndEnvelope, EndPackets)
<1>0. PICK audio : audio = sent
  OBVIOUS
<1>1. /\ TypeOK /\ PipelineTypeOK /\ TasksInv /\ SentinelInv /\ SessionsInv /\ AheadInv
  BY DEF IInv, TypeOK, StreamInv
<1>2. /\ txTask = "endNotify" /\ air' = Append(air, audio)
      /\ UNCHANGED <<queue, heard, sessionId, seq, caller, nextSession, audioTask>> /\ Record
      /\ bundle' = <<>> /\ txTask' = "await"
  BY <1>0, TxFrame DEF TxEndNotified, hostVars, TxStep
<1>3. audio \in Notification /\ IsEmptyEnd(audio)
  BY <1>0, <1>2, EndNotification
<1>4. audio.session = sessionId /\ audio.first = endSeq
  BY <1>0 DEF EncodedAudio
<1> HIDE DEF sent
<1>5. recorded' = recorded
  BY <1>1, <1>2, RecordKept DEF SessionsInv
<1>6. /\ queue = <<>> /\ endSeq = seq
      /\ audioTask \in {"exiting", "none"} /\ caller \notin {"begun", "txStarted"}
  BY <1>1, <1>2 DEF SentinelInv, SentinelTaken, TasksInv, TasksExited
<1>7. ~EndSent /\ EndSent'
  BY <1>2, <1>6 DEF EndSent, Capturing
<1>8. Unsent' \subseteq {seq}
  <2>1. DOMAIN queue' = {}
    BY <1>2, <1>6
  <2> QED
    BY <1>2, <2>1 DEF Unsent, Held
<1>9. AheadOf(audio.first)
  BY <1>1, <1>4, <1>6 DEF AheadInv, Unsent
<1> QED
  BY <1>2, <1>3, <1>4, <1>5, <1>6, <1>7, <1>8, <1>9, SentKeepsStream

\* What tx_task takes from the queue or gives up is not new.
LEMMA TxKeepsStream ==
  ASSUME IInv, StreamInv, TxStep
  PROVE  StreamInv'
<1>1. /\ TypeOK /\ PipelineTypeOK /\ TasksInv /\ SessionsInv /\ BundleInv
      /\ queue \in Seq(Entry) /\ bundle \in Seq(Entry)
  BY DEF IInv, TypeOK, PipelineTypeOK, StreamInv
<1>2. CASE TxNotified
  BY <1>2, BundleKeepsStream
<1>3. CASE TxEndNotified
  BY <1>3, EndKeepsStream
<1>4. CASE \/ TxReceive \/ TxCollect \/ TxCollectTimedOut \/ TxWindowOpen \/ TxWindowFailed
           \/ TxNotifyFailed \/ TxEndFormed \/ TxEndFailed \/ TxExited
  <2>1. UNCHANGED <<heard, sessionId, seq, caller, nextSession, audioTask>> /\ Record
    BY TxFrame DEF hostVars, TxStep
  <2>2. UNCHANGED air
    BY <1>4
    DEF TxReceive, TxCollect, TxCollectTimedOut, TxWindowOpen, TxWindowFailed, TxNotifyFailed,
        TxEndFormed, TxEndFailed, TxExited, bleVars
  <2>3. recorded' = recorded
    BY <1>1, <2>1, RecordKept DEF SessionsInv
  <2>4. EndSent => EndSent'
    <3>1. CASE TxExited
      BY <2>1, <3>1 DEF TxExited, EndSent, Capturing
    <3>2. CASE ~TxExited
      <4>1. txTask \notin {"none", "await"}
        BY <1>4, <3>2
        DEF TxReceive, TxCollect, TxCollectTimedOut, TxWindowOpen, TxWindowFailed, TxNotifyFailed,
            TxEndFormed, TxEndFailed
      <4> QED
        BY <4>1 DEF EndSent
    <3> QED
      BY <3>1, <3>2
  <2>5. Unsent' \subseteq Unsent
    <3>1. CASE TxReceive \/ TxCollect
      <4>1. /\ queue # <<>> /\ queue' = Tail(queue)
            /\ bundle' = bundle \/ bundle' = Append(bundle, Head(queue))
            /\ txTask = "receive" => bundle = <<>>
            /\ txTask \in {"receive", "collect"}
        BY <1>1, <3>1 DEF TxReceive, TxCollect, TakeFrame, TakeSentinel, BundleInv
      <4>2. /\ Head(queue) \in Entry /\ Head(queue).seq \in Unsent
            /\ \A i \in DOMAIN queue' : queue'[i].seq \in Unsent
        BY <1>1, <4>1, TailFacts DEF Unsent
      <4>3. \A i \in DOMAIN bundle : bundle[i].seq \in Unsent
        <5>1. CASE txTask = "receive"
          <6>1. DOMAIN bundle = {}
            BY <4>1, <5>1
          <6> QED
            BY <6>1
        <5>2. CASE txTask = "collect"
          BY <5>2 DEF Unsent, Held
        <5> QED
          BY <4>1, <5>1, <5>2
      <4>4. \A i \in DOMAIN bundle' : bundle'[i].seq \in Unsent
        <5>1. CASE bundle' = bundle
          BY <4>3, <5>1
        <5>2. CASE bundle' = Append(bundle, Head(queue))
          BY <1>1, <4>2, <4>3, <5>2, AppendCases
        <5> QED
          BY <4>1, <5>1, <5>2
      <4>5. Held' \subseteq Unsent
        BY <4>4 DEF Held
      <4> QED
        BY <2>1, <4>2, <4>5 DEF Unsent
    <3>2. CASE TxCollectTimedOut \/ TxWindowOpen \/ TxWindowFailed \/ TxNotifyFailed
      <4>1. /\ queue' = queue /\ txTask \in {"collect", "window", "notify"}
            /\ bundle' = bundle \/ bundle' = <<>>
        BY <3>2 DEF TxCollectTimedOut, TxWindowOpen, TxWindowFailed, TxNotifyFailed, BundleFailed, BundleDone
      <4>2. Held' \subseteq Held
        BY <4>1 DEF Held
      <4> QED
        BY <2>1, <4>1, <4>2 DEF Unsent
    <3>3. CASE TxEndFormed \/ TxEndFailed \/ TxExited
      <4>1. queue' = queue /\ txTask' \in {"endNotify", "end", "await", "none"}
        BY <3>3 DEF TxEndFormed, TxEndFailed, TxExited
      <4>2. Held' = {}
        BY <4>1 DEF Held
      <4> QED
        BY <2>1, <4>1, <4>2 DEF Unsent
    <3> QED
      BY <1>4, <3>1, <3>2, <3>3
  <2> QED
    BY <1>1, <2>1, <2>2, <2>3, <2>4, <2>5, RadioKept DEF SessionsInv
<1> QED
  BY <1>2, <1>3, <1>4 DEF TxStep, TxTask

-----------------------------------------------------------------------------
\* The app hears.

\* What a notification changes of what was heard.
LEMMA HeardEffect ==
  ASSUME IInv, StreamInv, air # <<>>, NEW audio, audio = Head(air)
  PROVE  /\ 1 \in DOMAIN air /\ audio = air[1] /\ audio \in Notification
         /\ audio.session \in Sessions /\ Genuine(audio) /\ Unheeded(audio)
         /\ AcknowledgedNextSeq(audio) = IF IsEmptyEnd(audio) THEN audio.first ELSE NextFrame(audio)
         /\ AcknowledgedNextSeq(audio) \in Nat /\ audio.first \in Nat
         /\ ~IsEmptyEnd(audio) => AcknowledgedNextSeq(audio) > audio.first
         /\ AcknowledgedNextSeq(audio) >= heard[audio.session].next
         /\ Heard(audio)[audio.session].next = AcknowledgedNextSeq(audio)
         /\ Heard(audio)[audio.session].ended <=> IsEmptyEnd(audio)
         /\ \A s \in Sessions : s # audio.session => Heard(audio)[s] = heard[s]
<1>1. HostTypeOK /\ RadioInv /\ air \in Seq(Notification)
  BY DEF IInv, TypeOK, HostTypeOK, StreamInv
<1>2. 1 \in DOMAIN air /\ audio = air[1]
  BY <1>1, TailFacts
<1>3. /\ audio \in Notification /\ audio.session \in Sessions /\ audio.first \in Nat
      /\ NextFrame(audio) \in Nat /\ heard[audio.session].next \in Nat
  BY <1>1, <1>2, AirTypes
<1>4. Genuine(audio) /\ Unheeded(audio)
  BY <1>1, <1>2 DEF RadioInv
<1>5. AcknowledgedNextSeq(audio) = IF IsEmptyEnd(audio) THEN audio.first ELSE NextFrame(audio)
  BY <1>3 DEF AcknowledgedNextSeq, BatchCount, NextFrame
<1>6. ~IsEmptyEnd(audio) => NextFrame(audio) > audio.first
  <2>1. audio.lens \in Seq(Nat) /\ (~IsEmptyEnd(audio) => audio.lens # <<>>)
    BY <1>3, <1>4 DEF Notification, Genuine
  <2>2. Len(audio.lens) \in Nat /\ (~IsEmptyEnd(audio) => Len(audio.lens) # 0)
    BY <2>1
  <2> QED
    BY <1>3, <2>2 DEF NextFrame
<1>7. IsEmptyEnd(audio) <=> END \in audio.flags
  BY <1>4 DEF Genuine, IsEmptyEnd
<1>8. ~heard[audio.session].ended /\ heard[audio.session].next <= audio.first
  BY <1>4 DEF Unheeded
<1>9. DOMAIN heard = Sessions
  BY <1>1 DEF HostTypeOK
<1>10. Heard(audio)[audio.session] =
         [next   |-> AcknowledgedNextSeq(audio),
          prefix |-> IF audio.first = heard[audio.session].prefix THEN AcknowledgedNextSeq(audio)
                     ELSE heard[audio.session].prefix,
          ended  |-> heard[audio.session].ended \/ END \in audio.flags]
  BY <1>3, <1>9 DEF Heard
<1>11. \A s \in Sessions : s # audio.session => Heard(audio)[s] = heard[s]
  BY <1>3, <1>9 DEF Heard
<1>12. /\ Heard(audio)[audio.session].next = AcknowledgedNextSeq(audio)
       /\ Heard(audio)[audio.session].ended = (heard[audio.session].ended \/ END \in audio.flags)
  BY <1>10
<1>13. Heard(audio)[audio.session].ended <=> IsEmptyEnd(audio)
  BY <1>7, <1>8, <1>12
<1> QED
  BY <1>2, <1>3, <1>4, <1>5, <1>6, <1>8, <1>11, <1>12, <1>13

LEMMA ReceivedKeepsStream ==
  ASSUME IInv, StreamInv, AudioReceived, UNCHANGED <<pipelineVars, recorded>>
  PROVE  StreamInv'
<1>1. /\ SessionsInv /\ RadioInv /\ AheadInv /\ HostTypeOK /\ TypeOK /\ air \in Seq(Notification)
  BY DEF StreamInv, IInv, TypeOK, HostTypeOK
<1>2. /\ air # <<>> /\ air' = Tail(air)
      /\ heard' = heard \/ heard' = Heard(Head(air))
      /\ UNCHANGED <<sessionId, seq, recorded, nextSession, caller, txTask, audioTask, queue, bundle>>
  BY DEF AudioReceived, pipelineVars, captureVars, txVars, startVars
<1>3. Unsent' = Unsent /\ (EndSent' <=> EndSent)
  BY <1>2 DEF Unsent, Held, EndSent, Capturing
<1>4. PICK audio : audio = Head(air)
  OBVIOUS
<1>5. /\ 1 \in DOMAIN air /\ audio = air[1]
      /\ audio.session \in Sessions /\ Genuine(audio) /\ Unheeded(audio)
      /\ \A i \in DOMAIN air' : i + 1 \in DOMAIN air /\ 1 < i + 1 /\ air'[i] = air[i + 1]
      /\ \A i, j \in DOMAIN air' : i < j => i + 1 < j + 1
  BY <1>1, <1>2, <1>4, TailFacts, HeardEffect
<1>6. /\ \A s \in Sessions : s # audio.session => heard'[s] = heard[s]
      /\ \/ heard'[audio.session] = heard[audio.session]
         \/ /\ heard'[audio.session].ended <=> IsEmptyEnd(audio)
            /\ heard'[audio.session].next = IF IsEmptyEnd(audio) THEN audio.first ELSE NextFrame(audio)
  BY <1>2, <1>4, HeardEffect
<1>7. \A s \in Sessions : s > audio.session => (Silent(s)' <=> Silent(s))
  BY <1>1, <1>5, <1>6, OwnTypes DEF Silent
<1>8. audio.session <= sessionId /\ sessionId \in Nat /\ audio.session \in Nat
  BY <1>1, <1>5, AirTypes, OwnTypes DEF Genuine
<1>9. SessionsInv'
  <2>1. \A s \in Sessions : s > sessionId => recorded'[s] = 0 /\ Silent(s)'
    <3> SUFFICES ASSUME NEW s \in Sessions, s > sessionId
                 PROVE  recorded'[s] = 0 /\ Silent(s)'
      BY <1>2
    <3>1. s > audio.session
      BY <1>1, <1>8, OwnTypes
    <3> QED
      BY <1>1, <1>2, <1>7, <3>1 DEF SessionsInv
  <2> QED
    BY <1>1, <1>2, <1>5, <2>1 DEF SessionsInv
<1>10. RadioInv'
  <2>1. ASSUME NEW i \in DOMAIN air' PROVE (Genuine(air[i]) /\ Unheeded(air[i]))'
    <3> DEFINE next == air[i + 1]
    <3>1. /\ Genuine(next) /\ Unheeded(next) /\ Precedes(audio, next) /\ air'[i] = next
          /\ next.session \in Sessions /\ next.session \in Nat
      BY <1>1, <1>5, AirTypes DEF RadioInv
    <3> HIDE DEF next
    <3>2. Genuine(air[i])'
      BY <1>2, <1>3, <3>1 DEF Genuine
    <3>3. \A s \in Sessions : s > next.session => Silent(s)'
      <4> SUFFICES ASSUME NEW s \in Sessions, s > next.session PROVE Silent(s)'
        OBVIOUS
      <4>1. s > audio.session /\ Silent(s)
        BY <1>1, <1>8, <3>1, OwnTypes DEF Precedes, Unheeded
      <4> QED
        BY <1>7, <4>1
    <3>4. heard'[next.session].next <= next.first /\ ~heard'[next.session].ended
      <4>1. CASE heard'[next.session] = heard[next.session]
        BY <3>1, <4>1 DEF Unheeded
      <4>2. CASE heard'[next.session] # heard[next.session]
        <5>1. next.session = audio.session
          BY <1>6, <3>1, <4>2
        <5>2. ~IsEmptyEnd(audio) /\ NextFrame(audio) <= next.first
          BY <1>8, <3>1, <5>1 DEF Precedes
        <5> QED
          BY <1>6, <4>2, <5>1, <5>2
      <4> QED
        BY <4>1, <4>2
    <3> QED
      BY <3>1, <3>2, <3>3, <3>4 DEF Unheeded
  <2>2. ASSUME NEW i \in DOMAIN air', NEW j \in DOMAIN air', i < j
        PROVE  Precedes(air'[i], air'[j])
    BY <1>1, <1>5, <2>2 DEF RadioInv
  <2>3. heard'[sessionId'].ended => EndSent'
    <3>1. CASE heard'[sessionId] = heard[sessionId]
      BY <1>1, <1>2, <1>3, <3>1 DEF RadioInv
    <3>2. CASE heard'[sessionId] # heard[sessionId]
      <4>1. audio.session = sessionId /\ (heard'[sessionId].ended => IsEmptyEnd(audio))
        BY <1>1, <1>6, <3>2, OwnTypes
      <4> QED
        BY <1>2, <1>3, <1>5, <4>1 DEF Genuine
    <3> QED
      BY <3>1, <3>2
  <2> QED
    BY <2>1, <2>2, <2>3 DEF RadioInv, Precedes
<1>11. AheadInv'
  <2> SUFFICES ASSUME NEW n \in Unsent PROVE AheadOf(n)'
    BY <1>3 DEF AheadInv
  <2>1. AheadOf(n)
    BY <1>1 DEF AheadInv
  <2>2. heard'[sessionId].next <= n
    <3>1. CASE heard'[sessionId] = heard[sessionId]
      BY <2>1, <3>1 DEF AheadOf
    <3>2. CASE heard'[sessionId] # heard[sessionId]
      <4>1. audio.session = sessionId
        BY <1>1, <1>6, <3>2, OwnTypes
      <4>2. CASE ~IsEmptyEnd(audio)
        BY <1>5, <1>6, <2>1, <3>2, <4>1, <4>2 DEF AheadOf
      <4>3. CASE IsEmptyEnd(audio)
        <5>1. EndSent /\ audio.first = seq
          BY <1>1, <1>5, <4>1, <4>3 DEF Genuine, SessionsInv
        <5>2. n = seq
          <6>1. queue = <<>> \/ txTask = "await"
            BY <5>1 DEF EndSent, IInv, SentinelInv
          <6>2. queue = <<>>
            BY <6>1 DEF IInv, SentinelInv, SentinelTaken
          <6>3. DOMAIN queue = {}
            BY <6>2
          <6> QED
            BY <5>1, <6>3 DEF EndSent, Unsent, Held
        <5> QED
          BY <1>1, <1>6, <3>2, <4>1, <4>3, <5>1, <5>2, OwnTypes
      <4> QED
        BY <4>2, <4>3
    <3> QED
      BY <3>1, <3>2
  <2> QED
    BY <1>2, <1>5, <2>1, <2>2 DEF AheadOf
<1> QED
  BY <1>9, <1>10, <1>11 DEF StreamInv

\* Steps outside the pipeline that the app does not hear.
LEMMA UnheardKeepsStream ==
  ASSUME IInv, StreamInv, UNCHANGED <<pipelineVars, recorded, heard>>, air' = air \/ air' = <<>>
  PROVE  StreamInv'
<1>1. UNCHANGED <<sessionId, seq, recorded, nextSession, caller, txTask, audioTask, queue, bundle, heard>>
  BY DEF pipelineVars, captureVars, txVars, startVars
<1>2. Unsent' = Unsent /\ (EndSent' <=> EndSent)
  BY <1>1 DEF Unsent, Held, EndSent, Capturing
<1> QED
  BY <1>1, <1>2, RadioKept DEF StreamInv, SessionsInv

LEMMA LinkKeepsStream ==
  ASSUME IInv, StreamInv, HostTaskStep \/ AppStep \/ UNCHANGED vars
  PROVE  StreamInv'
<1>1. CASE HostTaskStep
  <2>1. UNCHANGED <<pipelineVars, recorded, heard, air>>
    BY <1>1
    DEF HostTaskStep, HostTask, SubscribeAudio, SubscribeState, MtuExchanged, ControlVersion,
        ControlAckRejected, ControlAck, ControlAckStored, hostVars
  <2> QED
    BY <2>1, UnheardKeepsStream
<1>2. CASE AppStep
  <2>1. UNCHANGED <<pipelineVars, recorded>>
    BY <1>2 DEF AppStep
  <2>2. CASE AudioReceived
    BY <2>1, <2>2, ReceivedKeepsStream
  <2>3. CASE Connected \/ Disconnected \/ ControlDiscovered
    <3>1. UNCHANGED heard /\ (air' = air \/ air' = <<>>)
      BY <2>3 DEF Connected, Disconnected, GapConnect, GapDisconnect, ControlDiscovered, hostVars
    <3> QED
      BY <2>1, <3>1, UnheardKeepsStream
  <2> QED
    BY <1>2, <2>2, <2>3 DEF AppStep, Host
<1>3. CASE UNCHANGED vars
  BY <1>3, UnheardKeepsStream DEF vars, hostVars, bleVars
<1> QED
  BY <1>1, <1>2, <1>3

LEMMA StreamStep ==
  ASSUME IInv, StreamInv, [Next]_vars
  PROVE  StreamInv'
BY CallerKeepsStream, AudioKeepsStream, TxKeepsStream, LinkKeepsStream DEF Next

(* Notifications wait in the order of their frames, claim what was         *)
(* captured and lie ahead of all that was heard; whatever is not sent yet  *)
(* comes after them.                                                       *)
THEOREM StreamInvariance == Spec => []StreamInv
<1>1. Init => StreamInv
  BY InitStream
<1>2. IInv /\ StreamInv /\ [Next]_vars => StreamInv'
  BY StreamStep
<1> QED
  BY <1>1, <1>2, Invariance, PTL DEF Spec

-----------------------------------------------------------------------------
\* The audio path keeps the promise of AudioStream.

\* A step the coordinator does not notice.
LEMMA Unnoticed ==
  ASSUME UNCHANGED <<sessionId, recorded, heard>>, Capturing' <=> Capturing
  PROVE  UNCHANGED Stream!streamVars
<1>1. Capturing' = Capturing
  BY DEF Capturing
<1> QED
  BY <1>1 DEF Stream!streamVars

LEMMA InitMaps == Init => Stream!StreamInit
<1> SUFFICES ASSUME Init PROVE Stream!StreamInit
  OBVIOUS
<1>1. sessionId = 0 /\ recorded = [s \in Sessions |-> 0] /\ heard = [s \in Sessions |-> Unheard]
  BY DEF Init, PipelineInit
<1>2. Capturing = FALSE
  BY DEF Init, PipelineInit, Capturing
<1>3. [s \in Sessions |-> [next |-> heard[s].next, ended |-> heard[s].ended]]
        = [s \in Sessions |-> [next |-> 0, ended |-> FALSE]]
  BY <1>1 DEF Unheard
<1> QED
  BY <1>1, <1>2, <1>3 DEF Stream!StreamInit, Stream!Sessions, Stream!Unheard, Sessions

LEMMA AudioMaps ==
  ASSUME IInv, StreamInv, AudioStep
  PROVE  [Stream!StreamNext]_(Stream!streamVars)
<1>1. TypeOK /\ PipelineTypeOK /\ TasksInv /\ SessionsInv
  BY DEF IInv, TypeOK, StreamInv
<1>2. /\ UNCHANGED <<heard, sessionId, caller>> /\ Record /\ audioTask # "none"
  BY DEF AudioStep, AudioTask, AudioLoop, AudioReadFailed, AudioEnqueued, AudioQueueFull,
         AudioOverflowed, AudioClosed, AudioExited, txVars, startVars, bleVars, hostVars
<1>3. caller \notin {"begun", "txStarted"}
  BY <1>1, <1>2 DEF TasksInv, TasksExited
<1>4. CASE AudioEnqueued \/ AudioOverflowed
  <2>1. /\ seq' = seq + 1 /\ Capturing /\ Capturing'
    BY <1>4 DEF AudioEnqueued, AudioOverflowed, Capturing
  <2>2. recorded' = [recorded EXCEPT ![sessionId] = @ + 1]
    BY <1>1, <1>2, <2>1 DEF Record, SessionsInv, TypeOK, PipelineTypeOK
  <2>3. Stream!Capture
    BY <1>2, <2>1, <2>2 DEF Stream!Capture, Capturing
  <2> QED
    BY <2>3 DEF Stream!StreamNext
<1>5. CASE AudioLoop \/ AudioReadFailed \/ AudioQueueFull \/ AudioClosed \/ AudioExited
  <2>1. recorded' = recorded
    <3>1. UNCHANGED <<sessionId, seq>>
      BY <1>5 DEF AudioLoop, AudioReadFailed, AudioQueueFull, AudioClosed, AudioExited
    <3> QED
      BY <1>1, <1>2, <3>1, RecordKept DEF SessionsInv
  <2>2. CASE AudioLoop /\ ~running
    <3>1. Capturing /\ ~Capturing'
      BY <1>2, <1>3, <2>2 DEF AudioLoop, Capturing
    <3>2. Stream!Close
      BY <1>2, <2>1, <3>1 DEF Stream!Close
    <3> QED
      BY <3>2 DEF Stream!StreamNext
  <2>3. CASE ~(AudioLoop /\ ~running)
    <3>1. Capturing' <=> Capturing
      BY <1>2, <1>5, <2>3
      DEF AudioLoop, AudioReadFailed, AudioQueueFull, AudioClosed, AudioExited, Capturing
    <3> QED
      BY <1>2, <2>1, <3>1, Unnoticed
  <2> QED
    BY <2>2, <2>3
<1> QED
  BY <1>4, <1>5 DEF AudioStep, AudioTask

LEMMA CallerMaps ==
  ASSUME IInv, StreamInv, CallerStep
  PROVE  [Stream!StreamNext]_(Stream!streamVars)
<1>1. TypeOK /\ PipelineTypeOK /\ TasksInv /\ SessionsInv
  BY DEF IInv, TypeOK, StreamInv
<1>2. UNCHANGED heard /\ Record
  BY DEF CallerStep, hostVars
<1>3. CASE StartSession
  <2>1. /\ sessionId' = nextSession - 1 /\ seq' = 0 /\ caller = "configured" /\ caller' = "begun"
        /\ UNCHANGED audioTask
    BY <1>3 DEF StartSession
  <2>2. sessionId' \in Sessions /\ sessionId' > sessionId
    <3>1. nextSession \in 1..(MaxSessions + 1) /\ sessionId < nextSession - 1
      BY <1>1, <2>1 DEF SessionsInv, PipelineTypeOK
    <3> QED
      BY <1>1, <2>1, <3>1, OwnTypes, PipelineAssumption DEF Sessions
  <2>3. recorded' = recorded
    BY <1>1, <1>2, <2>1, <2>2 DEF SessionsInv, Record, PipelineTypeOK
  <2>4. ~Capturing /\ Capturing'
    BY <1>1, <2>1 DEF TasksInv, TasksExited, Capturing
  <2>5. Stream!Open
    BY <1>2, <2>2, <2>3, <2>4 DEF Stream!Open, Stream!Sessions, Sessions
  <2> QED
    BY <2>5 DEF Stream!StreamNext
<1>4. CASE StartRequested \/ StartTimedOut \/ StartConfigured \/ StartTxTask \/ StartAudioTask \/ Stop
  <2>1. UNCHANGED <<sessionId, seq>>
    BY <1>4
    DEF StartRequested, StartTimedOut, StartConfigured, StartTxTask, StartAudioTask, Stop, captureVars
  <2>2. recorded' = recorded
    BY <1>1, <1>2, <2>1, RecordKept DEF SessionsInv
  <2>3. CASE (StartTxTask \/ StartAudioTask) /\ ~Capturing'
    <3>1. Capturing
      BY <2>3 DEF StartTxTask, StartAudioTask, Capturing
    <3>2. Stream!Close
      BY <1>2, <2>1, <2>2, <2>3, <3>1 DEF Stream!Close
    <3> QED
      BY <3>2 DEF Stream!StreamNext
  <2>4. CASE (StartTxTask \/ StartAudioTask) /\ Capturing'
    <3>1. Capturing
      BY <2>4 DEF StartTxTask, StartAudioTask, Capturing
    <3> QED
      BY <1>2, <2>1, <2>2, <2>4, <3>1, Unnoticed
  <2>5. CASE StartRequested \/ StartTimedOut \/ StartConfigured \/ Stop
    <3>1. /\ UNCHANGED audioTask
          /\ caller \notin {"begun", "txStarted"} /\ caller' \notin {"begun", "txStarted"}
      BY <2>5 DEF StartRequested, StartTimedOut, StartConfigured, Stop, captureVars, startVars
    <3>2. Capturing' <=> Capturing
      BY <3>1 DEF Capturing
    <3> QED
      BY <1>2, <2>1, <2>2, <3>2, Unnoticed
  <2> QED
    BY <1>4, <2>3, <2>4, <2>5
<1> QED
  BY <1>3, <1>4 DEF CallerStep, Caller

LEMMA TxMaps ==
  ASSUME IInv, StreamInv, TxStep
  PROVE  [Stream!StreamNext]_(Stream!streamVars)
<1>1. UNCHANGED <<heard, sessionId, seq, caller, audioTask>> /\ Record
  BY TxFrame DEF hostVars, TxStep
<1>2. recorded' = recorded
  BY <1>1, RecordKept DEF IInv, StreamInv, SessionsInv
<1>3. Capturing' <=> Capturing
  BY <1>1 DEF Capturing
<1> QED
  BY <1>1, <1>2, <1>3, Unnoticed

\* One field of what is told of a recording.
LEMMA NextReplaced ==
  ASSUME NEW n \in Nat, NEW e \in BOOLEAN, NEW r \in [next : Nat, ended : BOOLEAN], r.ended = e
  PROVE  [r EXCEPT !.next = n] = [next |-> n, ended |-> e]
OBVIOUS

\* The app hears frames or the end of a recording, the newest it has heard of.
LEMMA ReceivedMaps ==
  ASSUME IInv, StreamInv, AudioReceived, UNCHANGED <<pipelineVars, recorded>>
  PROVE  [Stream!StreamNext]_(Stream!streamVars)
<1> DEFINE told == [s \in Sessions |-> [next |-> heard[s].next, ended |-> heard[s].ended]]
<1>1. TypeOK /\ SessionsInv /\ air # <<>> /\ UNCHANGED <<sessionId, recorded>>
  BY DEF IInv, StreamInv, AudioReceived, pipelineVars, captureVars
<1>2. Capturing' <=> Capturing
  BY DEF pipelineVars, captureVars, startVars, Capturing
<1>3. CASE heard' = heard
  BY <1>1, <1>2, <1>3, Unnoticed
<1>4. CASE heard' = Heard(Head(air))
  <2>1. PICK audio : audio = Head(air)
    OBVIOUS
  <2> DEFINE s == audio.session
             n == AcknowledgedNextSeq(audio)
  <2>2. /\ s \in Sessions /\ Genuine(audio) /\ Unheeded(audio)
        /\ n = IF IsEmptyEnd(audio) THEN audio.first ELSE NextFrame(audio)
        /\ n \in Nat /\ audio.first \in Nat
        /\ ~IsEmptyEnd(audio) => n > audio.first
        /\ heard'[s].next = n
        /\ heard'[s].ended <=> IsEmptyEnd(audio)
        /\ \A t \in Sessions : t # s => heard'[t] = heard[t]
    BY <1>1, <1>4, <2>1, HeardEffect
  <2>3. /\ \A t \in Sessions : t # s => told'[t] = told[t]
        /\ told'[s] = [next |-> n, ended |-> IsEmptyEnd(audio)]
        /\ told[s] = [next |-> heard[s].next, ended |-> FALSE]
        /\ told' \in [Sessions -> [next : Nat, ended : BOOLEAN]]
        /\ told \in [Sessions -> [next : Nat, ended : BOOLEAN]]
    <3>1. \A t \in Sessions : heard[t].next \in Nat /\ heard[t].ended \in BOOLEAN
      BY <1>1, OwnTypes
    <3>2. IsEmptyEnd(audio) \in BOOLEAN
      BY DEF IsEmptyEnd
    <3>3. heard'[s].ended \in BOOLEAN
      BY <1>4, <2>1, <1>1, HeardType, <2>2 DEF IInv, TypeOK
    <3>4. heard'[s].ended = IsEmptyEnd(audio)
      BY <2>2, <3>2, <3>3
    <3>5. heard[s].ended = FALSE
      BY <2>2, <3>1 DEF Unheeded
    <3>6. \A t \in Sessions : heard'[t].next \in Nat /\ heard'[t].ended \in BOOLEAN
      BY <2>2, <3>1, <3>3
    <3> HIDE DEF n
    <3> QED
      BY <2>2, <3>1, <3>4, <3>5, <3>6
  <2>4. Stream!Newest(s)
    <3>1. s <= sessionId
      BY <2>2 DEF Genuine
    <3>2. \A later \in Sessions : later > s => told[later] = [next |-> 0, ended |-> FALSE]
      <4> SUFFICES ASSUME NEW later \in Sessions, later > s
                   PROVE  told[later] = [next |-> 0, ended |-> FALSE]
        OBVIOUS
      <4>1. heard[later].next = 0 /\ heard[later].ended = FALSE
        BY <1>1, <2>2, OwnTypes DEF Unheeded, Silent
      <4> QED
        BY <4>1
    <3>3. ~told[s].ended
      BY <2>3
    <3> HIDE DEF told
    <3>4. \A later \in Stream!Sessions : later > s => told[later] = Stream!Unheard
      BY <3>2 DEF Stream!Sessions, Sessions, Stream!Unheard
    <3> QED
      BY <3>1, <3>3, <3>4 DEF Stream!Newest, told
  <2>5. CASE IsEmptyEnd(audio)
    <3>1. n = recorded[s] /\ (s = sessionId => ~Capturing)
      BY <2>2, <2>5 DEF Genuine, EndSent
    <3>2. told' = [told EXCEPT ![s] = [next |-> recorded[s], ended |-> TRUE]]
      <4> HIDE DEF told, n, s
      <4> QED
        BY <2>2, <2>3, <2>5, <3>1
    <3>3. Stream!HearEnd(s)
      BY <1>1, <1>2, <2>4, <3>1, <3>2 DEF Stream!HearEnd, Capturing
    <3> QED
      BY <2>2, <3>3 DEF Stream!StreamNext, Stream!Sessions, Sessions
  <2>6. CASE ~IsEmptyEnd(audio)
    <3>1. n \in (told[s].next + 1)..recorded[s]
      <4>1. n <= recorded[s] /\ heard[s].next <= audio.first
        BY <2>2, <2>6 DEF Genuine, Unheeded
      <4>2. heard[s].next \in Nat /\ recorded[s] \in Nat
        BY <1>1, <2>2, OwnTypes
      <4>3. told[s].next = heard[s].next
        BY <2>3
      <4> HIDE DEF told, n
      <4> QED
        BY <2>2, <2>6, <4>1, <4>2, <4>3
    <3>2. told' = [told EXCEPT ![s].next = n]
      <4>1. IsEmptyEnd(audio) = FALSE
        BY <2>6 DEF IsEmptyEnd
      <4> HIDE DEF told, n, s
      <4>2. told'[s] = [next |-> n, ended |-> FALSE]
        BY <2>3, <4>1
      <4>3. [told[s] EXCEPT !.next = n] = [next |-> n, ended |-> FALSE]
        <5>1. PICK r \in [next : Nat, ended : BOOLEAN] : r = told[s]
          BY <2>2, <2>3
        <5>2. r.ended = FALSE /\ n \in Nat
          BY <2>2, <2>3, <5>1
        <5>3. [r EXCEPT !.next = n] = [next |-> n, ended |-> FALSE]
          BY <5>2, NextReplaced
        <5> QED
          BY <5>1, <5>3
      <4>4. told' = [told EXCEPT ![s] = [told[s] EXCEPT !.next = n]]
        BY <2>2, <2>3, <4>2, <4>3
      <4> QED
        BY <4>4
    <3>3. Stream!HearFrames(s)
      <4> HIDE DEF n
      <4> QED
        BY <1>1, <1>2, <2>4, <3>1, <3>2 DEF Stream!HearFrames, Capturing
    <3> QED
      BY <2>2, <3>3 DEF Stream!StreamNext, Stream!Sessions, Sessions
  <2> QED
    BY <2>5, <2>6
<1> QED
  BY <1>3, <1>4 DEF AudioReceived

LEMMA LinkMaps ==
  ASSUME IInv, StreamInv, HostTaskStep \/ AppStep \/ UNCHANGED vars
  PROVE  [Stream!StreamNext]_(Stream!streamVars)
<1>1. CASE AppStep /\ AudioReceived
  BY <1>1, ReceivedMaps DEF AppStep
<1>2. CASE ~(AppStep /\ AudioReceived)
  <2>1. UNCHANGED <<pipelineVars, recorded, heard>>
    BY <1>2
    DEF HostTaskStep, AppStep, Host, Connected, Disconnected, ControlDiscovered, vars, hostVars
  <2>2. UNCHANGED sessionId /\ (Capturing' <=> Capturing)
    BY <2>1 DEF pipelineVars, captureVars, startVars, Capturing
  <2> QED
    BY <2>1, <2>2, Unnoticed
<1> QED
  BY <1>1, <1>2

(* The refinement: the audio path, with any radio, any mixture of versions *)
(* and a preemptible ACK handler, gives the coordinator of each recording  *)
(* some of its frames, in order and none twice, then at most one end       *)
(* marker, and one recording after the other.                              *)
THEOREM PathKeepsPromise == Spec => StreamDelivered
<1>1. Init => Stream!StreamInit
  BY InitMaps
<1>2. IInv /\ StreamInv /\ [Next]_vars => [Stream!StreamNext]_(Stream!streamVars)
  BY CallerMaps, AudioMaps, TxMaps, LinkMaps DEF Next
<1> QED
  BY <1>1, <1>2, Invariance, StreamInvariance, PTL DEF Spec, StreamDelivered, Stream!StreamSpec

-----------------------------------------------------------------------------
\* The window, of a recording into which no ACK of an earlier one was stored.

LEMMA InitWindow == Init => WInv
<1> SUFFICES ASSUME Init PROVE WInv
  OBVIOUS
<1> USE DEF Init, LinkInit, PipelineInit
<1>1. DOMAIN control = {} /\ InFlight = {}
  <2>1. DOMAIN control = {} /\ DOMAIN air = {}
    OBVIOUS
  <2> QED
    BY <2>1 DEF InFlight
<1>2. 0 \in Sessions
  BY PipelineAssumption DEF Sessions
<1>3. ControlInv
  BY <1>1 DEF ControlInv
<1>4. AckedWasHeard
  BY <1>2 DEF AckedWasHeard, Unheard
<1>5. WindowInv /\ AirWithinWindow
  BY DEF WindowInv, AirWithinWindow, V1Profile, V1, V2
<1>6. HandInv
  BY DEF HandInv
<1> QED
  BY <1>3, <1>4, <1>5, <1>6 DEF WInv

\* Whatever takes notifications away, and changes nothing that tx_task holds.
LEMMA WindowKept ==
  ASSUME WindowInv, AirWithinWindow, UNCHANGED <<profile, sessionId, txTask, bundle>>,
         crossed => crossed',
         \A i \in InFlight' : \E j \in InFlight : air'[i] = air[j],
         connected' = FALSE => air' = <<>>, connected' \in BOOLEAN,
         transportVersion' = V1 => transportVersion = V1 \/ InFlight' = {}
  PROVE  WindowInv' /\ AirWithinWindow'
<1>1. InFlight = {} => InFlight' = {}
  OBVIOUS
<1>2. ASSUME profile.version = V2, txTask = "notify", ~crossed', NEW i \in InFlight'
      PROVE  bundle[Len(bundle)].seq + 1 - air'[i].first <= profile.maxInflight
  BY <1>2 DEF WindowInv
<1>3. WindowInv'
  BY <1>1, <1>2 DEF WindowInv
<1>4. AirWithinWindow'
  <2> SUFFICES ASSUME txTask # "none", profile.version = V2, ~crossed',
                      NEW i \in InFlight', NEW j \in InFlight'
               PROVE  NextFrame(air'[j]) - air'[i].first <= profile.maxInflight
    BY DEF AirWithinWindow, NextFrame
  <2>1. PICK k \in InFlight, l \in InFlight : air'[i] = air[k] /\ air'[j] = air[l]
    OBVIOUS
  <2> QED
    BY <2>1 DEF AirWithinWindow
<1> QED
  BY <1>3, <1>4

\* The link and the app's answers stay as they are.
LEMMA AnswersKept ==
  ASSUME ControlInv, HandInv, AckedWasHeard,
         UNCHANGED <<control, ackInHand, heard, audioSessionId, ackedSeq>>,
         caller = "begun" => caller' = "begun", crossed => crossed'
  PROVE  ControlInv' /\ HandInv' /\ AckedWasHeard'
BY DEF ControlInv, HandInv, AckedWasHeard

LEMMA AudioKeepsWindow ==
  ASSUME IInv, WInv, AudioStep
  PROVE  WInv'
<1>1. UNCHANGED <<bleVars, heard, profile, sessionId, txVars, caller>>
  BY DEF AudioStep, AudioTask, AudioLoop, AudioReadFailed, AudioEnqueued, AudioQueueFull,
         AudioOverflowed, AudioClosed, AudioExited, startVars, hostVars
<1>2. UNCHANGED <<connected, transportVersion, audioSessionId, ackedSeq, ackInHand, crossed, air,
                  control, txTask, bundle>>
  BY <1>1 DEF bleVars, linkVars, windowVars, txVars
<1>3. InFlight' = InFlight /\ connected \in BOOLEAN
  BY <1>1, <1>2 DEF InFlight, IInv, TypeOK, LinkTypeOK
<1>4. ControlInv' /\ HandInv' /\ AckedWasHeard'
  BY <1>1, <1>2, AnswersKept DEF WInv
<1>5. WindowInv' /\ AirWithinWindow'
  BY <1>1, <1>2, <1>3, WindowKept DEF WInv, WindowInv
<1> QED
  BY <1>4, <1>5 DEF WInv

\* A recording's window is as wide as a bundle at least.
LEMMA ProfileWindow ==
  ASSUME NEW version \in {V1, V2}, NEW mtu \in Nat
  PROVE  LET p == TransportProfile(version, mtu)
         IN  p.version = V2 => p.bundleSize <= p.maxInflight
<1>1. V1Profile.version # V2
  BY DEF V1Profile, V1, V2
<1>2. ASSUME NEW size \in 2..MaxBundle
      PROVE  V2Profile(mtu, size).bundleSize <= V2Profile(mtu, size).maxInflight
  <2>1. size \in Nat \ {0} /\ AckWindowBatches \in Nat \ {0}
    BY TransportAssumption
  <2>2. size <= size * AckWindowBatches
    <3>1. AckWindowBatches - 1 \in Nat /\ size * (AckWindowBatches - 1) \in Nat
      BY <2>1
    <3>2. size * AckWindowBatches = size * (AckWindowBatches - 1) + size
      BY <2>1
    <3> QED
      BY <2>1, <3>1, <3>2
  <2> QED
    BY <2>2 DEF V2Profile
<1>3. CASE version = V2 /\ \E size \in 2..MaxBundle : LoopStopsAt(mtu, size)
  <2>1. (CHOOSE size \in 2..MaxBundle : LoopStopsAt(mtu, size)) \in 2..MaxBundle
    BY <1>3
  <2>2. TransportProfile(version, mtu)
          = V2Profile(mtu, CHOOSE size \in 2..MaxBundle : LoopStopsAt(mtu, size))
    BY <1>3 DEF TransportProfile
  <2> QED
    BY <1>2, <2>1, <2>2
<1>4. CASE ~(version = V2 /\ \E size \in 2..MaxBundle : LoopStopsAt(mtu, size))
  BY <1>1, <1>4 DEF TransportProfile
<1> QED
  BY <1>3, <1>4

LEMMA CallerKeepsWindow ==
  ASSUME IInv, StreamInv, WInv, CallerStep
  PROVE  WInv'
<1>1. /\ TypeOK /\ LinkTypeOK /\ HostTypeOK /\ TasksInv /\ SentinelInv /\ SessionsInv
      /\ ControlInv /\ HandInv /\ AckedWasHeard /\ WindowInv /\ AirWithinWindow
  BY DEF IInv, TypeOK, StreamInv, WInv
<1>2. /\ UNCHANGED <<heard, air, control, bundle, ackInHand, connected>>
      /\ connected \in BOOLEAN
  BY <1>1
  DEF CallerStep, Caller, StartRequested, StartTimedOut, StartConfigured, StartSession, StartTxTask,
      StartAudioTask, Stop, hostVars, bleVars, linkVars, windowVars, txVars, LinkTypeOK
<1>3. \A s \in Sessions : heard[s].next \in Nat
  BY <1>1, OwnTypes
<1>4. CASE StartRequested \/ StartTimedOut \/ StartAudioTask \/ Stop
  <2>1. /\ UNCHANGED <<bleVars, sessionId, txVars, profile>>
        /\ caller # "begun"
    BY <1>4 DEF StartRequested, StartTimedOut, StartAudioTask, Stop, captureVars, startVars
  <2>2. UNCHANGED <<transportVersion, audioSessionId, ackedSeq, crossed, txTask>>
    BY <2>1 DEF bleVars, linkVars, windowVars, txVars
  <2>3. InFlight' = InFlight
    BY <1>2, <2>1 DEF InFlight
  <2>4. ControlInv' /\ HandInv' /\ AckedWasHeard'
    BY <1>1, <1>2, <2>1, <2>2, AnswersKept
  <2>5. WindowInv' /\ AirWithinWindow'
    BY <1>1, <1>2, <2>1, <2>2, <2>3, WindowKept DEF WindowInv
  <2> QED
    BY <2>4, <2>5 DEF WInv
<1>5. CASE StartConfigured
  <2>1. /\ txTask' = "none" /\ UNCHANGED sessionId /\ caller # "begun"
        /\ profile' = TransportProfile(transportVersion, attMtu)
        /\ \/ audioSessionId' = 0 /\ ackedSeq' = 0
           \/ UNCHANGED <<audioSessionId, ackedSeq>>
        /\ UNCHANGED crossed
    BY <1>5
    DEF StartConfigured, PreviousSessionGone, TasksExited, SetTransportVersion, captureVars, txVars
  <2>2. ControlInv' /\ HandInv'
    BY <1>1, <1>2 DEF ControlInv, HandInv
  <2>3. AckedWasHeard'
    <3>1. 0 \in Sessions
      BY PipelineAssumption DEF Sessions
    <3> QED
      BY <1>1, <1>2, <1>3, <2>1, <3>1 DEF AckedWasHeard
  <2>4. profile'.version = V2 => profile'.bundleSize <= profile'.maxInflight
    BY <1>1, <2>1, ProfileWindow DEF LinkTypeOK
  <2>5. WindowInv' /\ AirWithinWindow'
    BY <1>1, <1>2, <2>1, <2>4 DEF WindowInv, AirWithinWindow
  <2> QED
    BY <2>2, <2>3, <2>5 DEF WInv
<1>6. CASE StartSession
  <2>1. txTask' = "none" /\ UNCHANGED profile /\ caller' = "begun"
    BY <1>1, <1>6 DEF StartSession, TasksInv, TasksExited, txVars
  <2>2. ControlInv' /\ HandInv' /\ AckedWasHeard'
    BY <1>1, <1>2, <2>1 DEF ControlInv, HandInv, AckedWasHeard
  <2>3. WindowInv' /\ AirWithinWindow'
    BY <1>1, <1>2, <2>1 DEF WindowInv, AirWithinWindow
  <2> QED
    BY <2>2, <2>3 DEF WInv
<1>7. CASE StartTxTask
  <2>1. /\ txTask' \in {"none", "receive"} /\ UNCHANGED <<sessionId, profile, audioSessionId>>
        /\ caller = "begun" /\ ackedSeq' = 0
    BY <1>1, <1>7 DEF StartTxTask, TasksInv, TasksExited
  <2>2. InFlight' = {}
    BY <1>1, <1>2, <2>1 DEF InFlight, SessionsInv
  <2>3. ControlInv' /\ HandInv'
    BY <1>1, <1>2 DEF ControlInv, HandInv
  <2>4. AckedWasHeard'
    BY <1>1, <1>2, <1>3, <2>1 DEF AckedWasHeard, LinkTypeOK
  <2>5. WindowInv' /\ AirWithinWindow'
    BY <1>1, <1>2, <2>1, <2>2 DEF WindowInv, AirWithinWindow
  <2> QED
    BY <2>3, <2>4, <2>5 DEF WInv
<1> QED
  BY <1>4, <1>5, <1>6, <1>7 DEF CallerStep, Caller

\* A bundle is handed over: it spans no more than the window, with what is in
\* flight.
LEMMA BundleKeepsWindow ==
  ASSUME IInv, StreamInv, WInv, TxStep, TxNotified
  PROVE  WindowInv' /\ AirWithinWindow'
<1> DEFINE sent == EncodedAudio(transportVersion, bundle[1].session, bundle[1].seq, {}, BundlePackets)
<1>0. PICK audio : audio = sent
  OBVIOUS
<1>1. /\ TypeOK /\ PipelineTypeOK /\ HostTypeOK /\ LinkTypeOK /\ AheadInv
      /\ air \in Seq(Notification) /\ bundle \in Seq(Entry) /\ BundleInv
      /\ WindowInv /\ AirWithinWindow
  BY DEF IInv, TypeOK, StreamInv, PipelineTypeOK, HostTypeOK, WInv
<1>2. /\ txTask = "notify" /\ CanNotify(bundle[1].seq, BundlePackets) /\ air' = Append(air, audio)
      /\ txTask' \in {"end", "receive"}
  BY <1>0 DEF TxNotified, Notify, BundleDone
<1>3. UNCHANGED <<sessionId, profile, linkVars, crossed, connected, transportVersion>>
  BY TxFrame DEF linkVars, windowVars
<1>4. connected
  BY <1>2 DEF CanNotify, IsReady
<1>5. /\ audio \in Notification /\ audio.version = transportVersion
      /\ audio.session = sessionId /\ audio.first = bundle[1].seq
      /\ Len(bundle) \in Nat \ {0}
  BY <1>0, <1>2, BundleFrames
<1>6. PICK n \in 1..Len(bundle) : /\ NextFrame(audio) = bundle[n].seq + 1
                                  /\ NextFrame(audio) = bundle[1].seq + n
                                  /\ profile.version = V2 => n = Len(bundle)
  BY <1>0, <1>2, BundleFrames
<1> HIDE DEF sent
<1>7. /\ \A i \in InFlight' : (i \in InFlight /\ air'[i] = air[i]) \/ (audio.version = V2 /\ air'[i] = audio)
      /\ DOMAIN air \subseteq DOMAIN air'
  BY <1>1, <1>3, <1>5, AppendCases, AppendFacts, <1>2 DEF InFlight
<1>8. WindowInv'
  <2>1. ASSUME profile.version = V2, transportVersion = V1 PROVE InFlight' = {}
    <3>1. InFlight = {}
      BY <1>1, <1>2, <2>1 DEF WindowInv
    <3> QED
      BY <1>5, <1>7, <2>1, <3>1 DEF V1, V2
  <2> QED
    BY <1>1, <1>2, <1>3, <1>4, <2>1 DEF WindowInv
<1>9. ASSUME profile.version = V2, ~crossed, NEW i \in InFlight', NEW j \in InFlight'
      PROVE  NextFrame(air'[j]) - air'[i].first <= profile.maxInflight
  <2>1. /\ bundle[n].seq \in Nat /\ bundle[1].seq \in Nat /\ n \in Nat /\ n = Len(bundle)
        /\ 1 \in DOMAIN bundle
    BY <1>1, <1>5, <1>6, <1>9, EntrySeq
  <2>2. /\ n <= profile.maxInflight
        /\ profile.maxInflight \in Nat
    <3>1. profile.bundleSize \in Nat /\ profile.maxInflight \in Nat
      BY <1>1, TransportAssumption DEF PipelineTypeOK, Profile
    <3>2. Len(bundle) <= profile.bundleSize /\ profile.bundleSize <= profile.maxInflight
      BY <1>1, <1>9 DEF PipelineTypeOK, WindowInv
    <3> QED
      BY <2>1, <3>1, <3>2
  <2>3. \A k \in InFlight : k \in DOMAIN air /\ air[k].first \in Nat /\ NextFrame(air[k]) \in Nat
                            /\ air[k].session = sessionId
    BY <1>1, AirTypes DEF InFlight
  <2>4. CASE air'[i] = audio /\ air'[j] = audio
    BY <1>5, <1>6, <2>1, <2>2, <2>4
  <2>5. CASE i \in InFlight /\ air'[i] = air[i] /\ air'[j] = audio
    <3>1. bundle[n].seq + 1 - air[i].first <= profile.maxInflight
      BY <1>1, <1>2, <1>9, <2>1, <2>5 DEF WindowInv
    <3>2. NextFrame(air'[j]) = bundle[n].seq + 1 /\ air'[i].first = air[i].first
      BY <1>6, <2>5
    <3> QED
      BY <2>1, <2>2, <2>3, <2>5, <3>1, <3>2
  <2>6. CASE air'[i] = audio /\ j \in InFlight /\ air'[j] = air[j]
    <3>1. AheadOf(bundle[1].seq)
      BY <1>1, <1>2, <2>1 DEF AheadInv, Unsent, Held
    <3>2. ~IsEmptyEnd(air[j])
      <4>1. ~EndSent
        BY <1>2 DEF EndSent
      <4> QED
        BY <2>3, <2>6, <4>1 DEF StreamInv, RadioInv, Genuine
    <3>3. NextFrame(air[j]) <= bundle[1].seq
      BY <2>3, <2>6, <3>1, <3>2 DEF AheadOf
    <3> QED
      BY <1>5, <2>1, <2>2, <2>3, <2>6, <3>3
  <2>7. CASE i \in InFlight /\ air'[i] = air[i] /\ j \in InFlight /\ air'[j] = air[j]
    BY <1>1, <1>2, <1>9, <2>7 DEF AirWithinWindow
  <2> QED
    BY <1>7, <2>4, <2>5, <2>6, <2>7
<1>10. AirWithinWindow'
  BY <1>3, <1>9 DEF AirWithinWindow, NextFrame
<1> QED
  BY <1>8, <1>10

\* A v1 end marker enters v2's numbers when the version changes under it, and
\* finds nothing else in flight.
LEMMA EndKeepsWindow ==
  ASSUME IInv, StreamInv, WInv, TxStep, TxEndNotified
  PROVE  WindowInv' /\ AirWithinWindow'
<1> DEFINE sent == EncodedAudio(transportVersion, sessionId, endSeq, EndEnvelope, EndPackets)
<1>0. PICK audio : audio = sent
  OBVIOUS
<1>1. /\ TypeOK /\ PipelineTypeOK /\ HostTypeOK /\ LinkTypeOK
      /\ air \in Seq(Notification) /\ bundle \in Seq(Entry) /\ BundleInv
      /\ WindowInv /\ AirWithinWindow
  BY DEF IInv, TypeOK, PipelineTypeOK, HostTypeOK, WInv
<1>2. /\ txTask = "endNotify" /\ CanNotify(endSeq, EndPackets) /\ air' = Append(air, audio)
      /\ txTask' = "await"
  BY <1>0 DEF TxEndNotified
<1>3. UNCHANGED <<sessionId, profile, linkVars, crossed, connected, transportVersion>>
  BY TxFrame DEF linkVars, windowVars
<1>4. connected
  BY <1>2 DEF CanNotify, IsReady
<1>5. audio \in Notification
  BY <1>0, <1>2, EndNotification
<1>6. /\ audio.version = transportVersion /\ audio.first = endSeq
      /\ audio.lens = [i \in DOMAIN EndPackets |-> EndPackets[i].len]
  BY <1>0 DEF EncodedAudio
<1> HIDE DEF sent
<1>7. Len(bundle) \in {0, 1} /\ Len(bundle) \in Nat /\ DOMAIN bundle = 1..Len(bundle)
  <2>1. Len(bundle) \in Nat /\ DOMAIN bundle = 1..Len(bundle)
    BY <1>1
  <2>2. Len(bundle) <= 1
    BY <1>1, <1>2 DEF BundleInv
  <2>3. Len(bundle) \in {0, 1}
    BY <2>1, <2>2
  <2> QED
    BY <2>1, <2>3
<1>8. Len(audio.lens) = Len(bundle) /\ (bundle = <<>> => audio.lens = <<>>)
  <2>1. DOMAIN EndPackets = 1..Len(bundle)
    BY <1>7 DEF EndPackets
  <2>2. audio.lens \in Seq(Nat) /\ DOMAIN audio.lens = 1..Len(bundle)
    BY <1>5, <1>6, <2>1 DEF Notification
  <2>3. Len(audio.lens) = Len(bundle)
    BY <1>7, <2>2
  <2> QED
    BY <2>2, <2>3
<1>9. \A i \in InFlight' : (i \in InFlight /\ air'[i] = air[i])
                           \/ (audio.version = V2 /\ bundle # <<>> /\ air'[i] = audio)
  BY <1>1, <1>2, <1>3, <1>5, <1>8, AppendCases DEF InFlight
<1>10. WindowInv'
  <2>1. ASSUME profile.version = V2, transportVersion = V1 PROVE InFlight' = {}
    <3>1. InFlight = {}
      BY <1>1, <1>2, <2>1 DEF WindowInv
    <3> QED
      BY <1>6, <1>9, <2>1, <3>1 DEF V1, V2
  <2> QED
    BY <1>1, <1>2, <1>3, <1>4, <2>1 DEF WindowInv
<1>11. ASSUME profile.version = V2, ~crossed, NEW i \in InFlight', NEW j \in InFlight'
       PROVE  NextFrame(air'[j]) - air'[i].first <= profile.maxInflight
  <2>1. CASE bundle = <<>>
    BY <1>1, <1>2, <1>9, <1>11, <2>1 DEF AirWithinWindow
  <2>2. CASE bundle # <<>>
    <3>1. InFlight = {}
      BY <1>1, <1>2, <1>11, <2>2 DEF WindowInv
    <3>2. air'[i] = audio /\ air'[j] = audio
      BY <1>9, <3>1
    <3>3. Len(audio.lens) <= 1 /\ Len(audio.lens) \in Nat /\ audio.first \in Nat
      <4>1. PICK n \in Nat : n = Len(audio.lens) /\ n <= 1
        <5>1. PICK n \in {0, 1} : n = Len(bundle)
          BY <1>7
        <5>2. n = Len(audio.lens) /\ n \in Nat /\ n <= 1
          BY <1>8, <5>1
        <5> QED
          BY <5>2
      <4>2. audio.first \in Nat
        BY <1>1, <1>6, PipelineAssumption DEF PipelineTypeOK
      <4> QED
        BY <4>1, <4>2
    <3>4. profile.maxInflight \in Nat /\ profile.maxInflight >= 1
      <4>1. profile.bundleSize \in Nat \ {0} /\ profile.maxInflight \in Nat
        BY <1>1, TransportAssumption DEF PipelineTypeOK, Profile
      <4> QED
        BY <1>1, <1>11, <4>1 DEF WindowInv
    <3> QED
      BY <3>2, <3>3, <3>4 DEF NextFrame
  <2> QED
    BY <2>1, <2>2
<1>12. AirWithinWindow'
  BY <1>3, <1>11 DEF AirWithinWindow, NextFrame
<1> QED
  BY <1>10, <1>12

\* The window is open: what is in flight begins where the app stands, or later.
LEMMA OpenKeepsWindow ==
  ASSUME IInv, StreamInv, WInv, TxStep, TxWindowOpen
  PROVE  WindowInv' /\ AirWithinWindow'
<1>1. /\ TypeOK /\ PipelineTypeOK /\ HostTypeOK /\ LinkTypeOK /\ TasksInv /\ BundleInv /\ OneSession
      /\ bundle \in Seq(Entry) /\ WindowInv /\ AirWithinWindow /\ AckedWasHeard /\ RadioInv
  BY DEF IInv, TypeOK, StreamInv, PipelineTypeOK, WInv
<1>2. /\ txTask = "window" /\ txTask' = "notify" /\ BundleWindowOpen
      /\ UNCHANGED <<bundle, air>>
  BY DEF TxWindowOpen, bleVars
<1>3. UNCHANGED <<sessionId, profile, crossed, connected, transportVersion>>
  BY TxFrame DEF linkVars, windowVars
<1>4. InFlight' = InFlight
  BY <1>2, <1>3 DEF InFlight
<1>5. ASSUME ~crossed, NEW i \in InFlight
      PROVE  bundle[Len(bundle)].seq + 1 - air[i].first <= profile.maxInflight
  <2> DEFINE next == bundle[Len(bundle)].seq + 1
  <2>1. 1 \in DOMAIN bundle /\ Len(bundle) \in DOMAIN bundle /\ next \in Nat
        /\ bundle[1].session = sessionId /\ bundle[Len(bundle)].seq \in Nat
    <3>1. 1 \in DOMAIN bundle /\ Len(bundle) \in DOMAIN bundle
      BY <1>1, <1>2 DEF BundleInv
    <3>2. bundle[Len(bundle)].seq \in Nat
      BY <1>1, <3>1, EntrySeq
    <3> QED
      BY <1>1, <3>1, <3>2 DEF OneSession
  <2>2. transportVersion = V2
    BY <1>1, <1>2 DEF WindowInv, LinkTypeOK, BundleInv
  <2>3. /\ audioSessionId = sessionId
        /\ ackedSeq >= next \/ next - ackedSeq <= profile.maxInflight
    BY <1>2, <2>1, <2>2 DEF BundleWindowOpen, WindowOpen, V2
  <2>4. caller # "begun"
    BY <1>1, <1>2 DEF TasksInv, TasksExited
  <2>5. ackedSeq <= heard[sessionId].next
    BY <1>1, <1>5, <2>3, <2>4 DEF AckedWasHeard
  <2>6. i \in DOMAIN air /\ air[i].session = sessionId
    BY DEF InFlight
  <2>7. heard[sessionId].next <= air[i].first /\ heard[sessionId].next \in Nat /\ air[i].first \in Nat
    BY <1>1, <2>6, AirTypes DEF RadioInv, Unheeded
  <2>8. ackedSeq \in Nat /\ profile.maxInflight \in Nat
    BY <1>1 DEF LinkTypeOK, PipelineTypeOK, Profile
  <2> HIDE DEF next
  <2>9. next - air[i].first <= profile.maxInflight
    BY <2>1, <2>3, <2>5, <2>7, <2>8
  <2> QED
    BY <2>1, <2>7, <2>8, <2>9 DEF next
<1>6. WindowInv'
  BY <1>1, <1>2, <1>3, <1>4, <1>5 DEF WindowInv
<1>7. AirWithinWindow'
  BY <1>1, <1>2, <1>3, <1>4 DEF AirWithinWindow
<1> QED
  BY <1>6, <1>7

LEMMA TxKeepsWindow ==
  ASSUME IInv, StreamInv, WInv, TxStep
  PROVE  WInv'
<1>1. /\ LinkTypeOK /\ WindowInv /\ AirWithinWindow /\ ControlInv /\ HandInv /\ AckedWasHeard
  BY DEF IInv, TypeOK, WInv
<1>2. UNCHANGED <<sessionId, profile, ackInHand, crossed, connected, transportVersion, control, heard,
                  audioSessionId, ackedSeq, caller>>
  BY TxFrame DEF linkVars, windowVars, hostVars
<1>3. ControlInv' /\ HandInv' /\ AckedWasHeard'
  BY <1>1, <1>2, AnswersKept
<1>4. CASE TxNotified
  BY <1>3, <1>4, BundleKeepsWindow DEF WInv
<1>5. CASE TxEndNotified
  BY <1>3, <1>5, EndKeepsWindow DEF WInv
<1>6. CASE TxWindowOpen
  BY <1>3, <1>6, OpenKeepsWindow DEF WInv
<1>7. CASE \/ TxReceive \/ TxCollect \/ TxCollectTimedOut \/ TxWindowFailed
           \/ TxNotifyFailed \/ TxEndFormed \/ TxEndFailed \/ TxExited
  <2>1. /\ UNCHANGED air /\ txTask # "none"
        /\ profile.version = V2 => txTask' # "notify"
        /\ txTask' = "endNotify" => transportVersion = V2 \/ bundle' # <<>>
        /\ txTask' = "endNotify" /\ bundle' # <<>> => transportVersion # V2
    BY <1>7
    DEF TxReceive, TxCollect, TxCollectTimedOut, TxWindowFailed, TxNotifyFailed, TxEndFormed,
        TxEndFailed, TxExited, TakeFrame, SendStart, BundleFailed, BundleDone, bleVars
  <2>2. InFlight' = InFlight
    BY <1>2, <2>1 DEF InFlight
  <2>3. WindowInv'
    BY <1>1, <1>2, <2>1, <2>2 DEF WindowInv, LinkTypeOK
  <2>4. AirWithinWindow'
    BY <1>1, <1>2, <2>1, <2>2 DEF AirWithinWindow
  <2> QED
    BY <1>3, <2>3, <2>4 DEF WInv
<1> QED
  BY <1>4, <1>5, <1>6, <1>7 DEF TxStep, TxTask

\* A write is taken off the channel.
LEMMA WriteTaken ==
  ASSUME HostTypeOK, ControlInv, control # <<>>, control' = Tail(control), UNCHANGED heard
  PROVE  /\ ControlInv'
         /\ Head(control).type = "audio_transport" => Head(control).version = V2
         /\ Head(control).type = "audio_ack" =>
              Head(control).next <= heard[Head(control).session].next
<1>1. /\ control \in Seq(ControlWrite) /\ 1 \in DOMAIN control /\ Head(control) = control[1]
      /\ \A i \in DOMAIN control' : i + 1 \in DOMAIN control /\ control'[i] = control[i + 1]
  BY TailFacts DEF HostTypeOK
<1> QED
  BY <1>1 DEF ControlInv

LEMMA HostTaskKeepsWindow ==
  ASSUME IInv, WInv, HostTaskStep
  PROVE  WInv'
<1>1. /\ LinkTypeOK /\ HostTypeOK /\ WindowInv /\ AirWithinWindow
      /\ ControlInv /\ HandInv /\ AckedWasHeard
  BY DEF IInv, TypeOK, WInv
<1>2. UNCHANGED <<sessionId, profile, txTask, bundle, caller, heard>>
  BY DEF HostTaskStep, pipelineVars, captureVars, txVars, startVars, hostVars
<1>3. UNCHANGED <<connected, air>> /\ connected \in BOOLEAN
  BY <1>1
  DEF HostTaskStep, HostTask, SubscribeAudio, SubscribeState, MtuExchanged, ControlVersion,
      ControlAckRejected, ControlAck, ControlAckStored, linkVars, windowVars, LinkTypeOK
<1>4. InFlight' = InFlight
  BY <1>2, <1>3 DEF InFlight
<1>5. CASE SubscribeAudio \/ SubscribeState \/ MtuExchanged
  <2>1. UNCHANGED <<control, audioSessionId, ackedSeq, ackInHand, crossed, transportVersion>>
    BY <1>5 DEF SubscribeAudio, SubscribeState, MtuExchanged, windowVars
  <2>2. ControlInv' /\ HandInv' /\ AckedWasHeard'
    BY <1>1, <1>2, <2>1, AnswersKept
  <2>3. WindowInv' /\ AirWithinWindow'
    BY <1>1, <1>2, <1>3, <1>4, <2>1, WindowKept DEF WindowInv
  <2> QED
    BY <2>2, <2>3 DEF WInv
<1>6. CASE ControlVersion
  <2>1. /\ control # <<>> /\ control' = Tail(control) /\ Head(control).type = "audio_transport"
        /\ transportVersion' = Head(control).version /\ audioSessionId' = 0 /\ ackedSeq' = 0
        /\ UNCHANGED <<ackInHand, crossed>>
    BY <1>6 DEF ControlVersion, NextWrite, SetTransportVersion
  <2>2. ControlInv' /\ transportVersion' = V2
    BY <1>1, <1>2, <2>1, WriteTaken
  <2>3. HandInv'
    BY <1>1, <1>2, <2>1 DEF HandInv
  <2>4. AckedWasHeard'
    <3>1. 0 \in Sessions
      BY PipelineAssumption DEF Sessions
    <3>2. heard[0].next \in Nat
      BY <3>1, OwnTypes DEF IInv
    <3> QED
      BY <1>2, <2>1, <3>2 DEF AckedWasHeard
  <2>5. WindowInv' /\ AirWithinWindow'
    <3>1. transportVersion' # V1
      BY <2>2 DEF V1, V2
    <3> QED
      BY <1>1, <1>2, <1>3, <1>4, <2>1, <3>1, WindowKept DEF WindowInv
  <2> QED
    BY <2>2, <2>3, <2>4, <2>5 DEF WInv
<1>7. CASE ControlAckRejected \/ ControlAck
  <2>1. /\ control # <<>> /\ control' = Tail(control) /\ Head(control).type = "audio_ack"
        /\ UNCHANGED <<transportVersion, audioSessionId, ackedSeq, crossed>>
        /\ \/ UNCHANGED ackInHand
           \/ /\ ackInHand' = {[next |-> Head(control).next, of |-> audioSessionId]}
              /\ Head(control).session = audioSessionId
    BY <1>7 DEF ControlAckRejected, ControlAck, NextWrite, AckAccepted, linkVars, windowVars
  <2>2. ControlInv' /\ Head(control).next <= heard[Head(control).session].next
    BY <1>1, <1>2, <2>1, WriteTaken
  <2>3. HandInv'
    <3>1. CASE UNCHANGED ackInHand
      BY <1>1, <1>2, <3>1 DEF HandInv
    <3>2. CASE /\ ackInHand' = {[next |-> Head(control).next, of |-> audioSessionId]}
               /\ Head(control).session = audioSessionId
      BY <1>2, <2>2, <3>2 DEF HandInv
    <3> QED
      BY <2>1, <3>1, <3>2
  <2>4. AckedWasHeard'
    BY <1>1, <1>2, <2>1 DEF AckedWasHeard
  <2>5. WindowInv' /\ AirWithinWindow'
    BY <1>1, <1>2, <1>3, <1>4, <2>1, WindowKept DEF WindowInv
  <2> QED
    BY <2>2, <2>3, <2>4, <2>5 DEF WInv
<1>8. CASE ControlAckStored
  <2>1. /\ ackInHand' = {} /\ UNCHANGED <<transportVersion, audioSessionId, control>>
        /\ \E ack \in ackInHand : /\ ackedSeq' = ack.next
                                 /\ crossed' = (crossed \/ ack.of # audioSessionId)
    BY <1>8 DEF ControlAckStored, linkVars
  <2>2. PICK ack \in ackInHand : /\ ackedSeq' = ack.next
                                 /\ crossed' = (crossed \/ ack.of # audioSessionId)
    BY <2>1
  <2>3. ControlInv' /\ HandInv'
    BY <1>1, <1>2, <2>1 DEF ControlInv, HandInv
  <2>4. AckedWasHeard'
    <3>1. ack.next <= heard[ack.of].next
      BY <1>1 DEF HandInv
    <3> QED
      BY <1>2, <2>1, <2>2, <3>1 DEF AckedWasHeard
  <2>5. WindowInv' /\ AirWithinWindow'
    <3>1. crossed => crossed'
      BY <2>2
    <3> QED
      BY <1>1, <1>2, <1>3, <1>4, <2>1, <3>1, WindowKept DEF WindowInv
  <2> QED
    BY <2>3, <2>4, <2>5 DEF WInv
<1> QED
  BY <1>5, <1>6, <1>7, <1>8 DEF HostTaskStep, HostTask

LEMMA AppKeepsWindow ==
  ASSUME IInv, StreamInv, WInv, AppStep
  PROVE  WInv'
<1>1. /\ LinkTypeOK /\ HostTypeOK /\ WindowInv /\ AirWithinWindow
      /\ ControlInv /\ HandInv /\ AckedWasHeard
      /\ air \in Seq(Notification) /\ control \in Seq(ControlWrite)
  BY DEF IInv, TypeOK, WInv, HostTypeOK
<1>2. UNCHANGED <<sessionId, profile, txTask, bundle, caller>>
  BY DEF AppStep, pipelineVars, captureVars, txVars, startVars
<1>3. 0 \in Sessions /\ \A s \in Sessions : heard[s].next \in Nat
  BY OwnTypes, PipelineAssumption DEF IInv, Sessions
<1>4. CASE Connected \/ Disconnected
  <2>1. /\ air' = <<>> /\ connected' \in BOOLEAN /\ UNCHANGED <<ackInHand, crossed, heard>>
        /\ control' = control \/ control' = <<>>
        /\ audioSessionId' = 0 /\ ackedSeq' = 0
    BY <1>1, <1>4
    DEF Connected, Disconnected, GapConnect, GapDisconnect, ForgetLink, SetTransportVersion, hostVars,
        WindowInv, LinkTypeOK
  <2>2. InFlight' = {}
    <3>1. DOMAIN air' = {}
      BY <2>1
    <3> QED
      BY <3>1 DEF InFlight
  <2>3. ControlInv'
    <3>1. CASE control' = control
      BY <1>1, <2>1, <3>1 DEF ControlInv
    <3>2. CASE control' = <<>>
      <4>1. DOMAIN control' = {}
        BY <3>2
      <4> QED
        BY <4>1 DEF ControlInv
    <3> QED
      BY <2>1, <3>1, <3>2
  <2>4. AckedWasHeard' /\ HandInv'
    BY <1>1, <1>3, <2>1 DEF AckedWasHeard, HandInv
  <2>5. WindowInv' /\ AirWithinWindow'
    BY <1>1, <1>2, <2>1, <2>2, WindowKept
  <2> QED
    BY <2>3, <2>4, <2>5 DEF WInv
<1>5. CASE ControlDiscovered
  <2>1. /\ control' = Append(control, VersionWrite(V2))
        /\ UNCHANGED <<air, connected, transportVersion, audioSessionId, ackedSeq, ackInHand, crossed,
                       heard>>
    BY <1>5 DEF ControlDiscovered, linkVars, windowVars
  <2>2. /\ VersionWrite(V2) \in ControlWrite
        /\ VersionWrite(V2).type = "audio_transport" /\ VersionWrite(V2).version = V2
    BY DEF VersionWrite, ControlWrite
  <2>3. ControlInv'
    BY <1>1, <2>1, <2>2, AppendCases DEF ControlInv
  <2>4. AckedWasHeard' /\ HandInv' /\ InFlight' = InFlight
    BY <1>1, <1>2, <2>1 DEF AckedWasHeard, HandInv, InFlight
  <2>5. WindowInv' /\ AirWithinWindow'
    BY <1>1, <1>2, <2>1, <2>4, WindowKept DEF WindowInv, LinkTypeOK
  <2> QED
    BY <2>3, <2>4, <2>5 DEF WInv
<1>6. CASE AudioReceived
  <2>1. PICK audio : audio = Head(air)
    OBVIOUS
  <2>2. /\ air # <<>> /\ air' = Tail(air)
        /\ UNCHANGED <<connected, transportVersion, audioSessionId, ackedSeq, ackInHand, crossed>>
        /\ \/ heard' = heard /\ control' = control
           \/ /\ heard' = Heard(audio)
              /\ \/ control' = control
                 \/ control' = Append(control, AckWrite(audio.session, AcknowledgedNextSeq(audio)))
    BY <1>6, <2>1 DEF AudioReceived, linkVars, windowVars
  <2>3. /\ \A s \in Sessions : heard'[s].next >= heard[s].next /\ heard'[s].next \in Nat
        /\ heard' = Heard(audio) => heard'[audio.session].next = AcknowledgedNextSeq(audio)
        /\ audio.session \in Sessions
        /\ AcknowledgedNextSeq(audio) \in Nat
    <3>1. /\ audio.session \in Sessions
          /\ AcknowledgedNextSeq(audio) \in Nat
          /\ AcknowledgedNextSeq(audio) >= heard[audio.session].next
          /\ Heard(audio)[audio.session].next = AcknowledgedNextSeq(audio)
          /\ \A s \in Sessions : s # audio.session => Heard(audio)[s] = heard[s]
      BY <2>1, <2>2, HeardEffect
    <3> QED
      BY <1>3, <2>2, <3>1
  <2>4. \A i \in DOMAIN air' : i + 1 \in DOMAIN air /\ air'[i] = air[i + 1]
    BY <1>1, <2>2, TailFacts
  <2>5. \A i \in InFlight' : i + 1 \in InFlight /\ air'[i] = air[i + 1]
    BY <1>2, <2>4 DEF InFlight
  <2>6. WindowInv' /\ AirWithinWindow'
    <3>1. \A i \in InFlight' : \E j \in InFlight : air'[i] = air[j]
      BY <2>5
    <3>2. connected' = FALSE => air' = <<>>
      BY <1>1, <2>2 DEF WindowInv
    <3> QED
      BY <1>1, <1>2, <2>2, <3>1, <3>2, WindowKept DEF LinkTypeOK
  <2>7. AckedWasHeard'
    <3>1. audioSessionId \in Sessions /\ ackedSeq \in Nat
      BY <1>1 DEF LinkTypeOK
    <3> QED
      BY <1>1, <1>2, <1>3, <2>2, <2>3, <3>1 DEF AckedWasHeard
  <2>8. ASSUME NEW i \in DOMAIN control
        PROVE  /\ control[i].type = "audio_transport" => control[i].version = V2
               /\ control[i].type = "audio_ack" => control[i].next <= heard'[control[i].session].next
    <3>1. control[i] \in ControlWrite
      BY <1>1
    <3>2. control[i].type = "audio_ack" => control[i].session \in Sessions /\ control[i].next \in Nat
      BY <3>1 DEF ControlWrite
    <3> QED
      BY <1>1, <1>3, <2>3, <3>2 DEF ControlInv
  <2>9. ControlInv'
    <3>1. CASE control' = control
      BY <2>8, <3>1 DEF ControlInv
    <3>2. CASE /\ control' = Append(control, AckWrite(audio.session, AcknowledgedNextSeq(audio)))
               /\ heard' = Heard(audio)
      <4> DEFINE ack == AckWrite(audio.session, AcknowledgedNextSeq(audio))
      <4>1. /\ ack \in ControlWrite /\ ack.type = "audio_ack" /\ ack.session = audio.session
            /\ ack.next = AcknowledgedNextSeq(audio)
        BY <2>3 DEF AckWrite, ControlWrite
      <4>2. ack.next <= heard'[ack.session].next /\ control' = Append(control, ack)
        BY <2>3, <3>2, <4>1
      <4> HIDE DEF ack
      <4> QED
        BY <1>1, <2>8, <4>1, <4>2, AppendCases DEF ControlInv
    <3> QED
      BY <2>2, <3>1, <3>2
  <2>10. HandInv'
    <3>1. ASSUME NEW ack \in ackInHand PROVE ack.next <= heard'[ack.of].next
      <4>1. ack.next \in Nat /\ ack.of \in Sessions
        BY <1>1 DEF LinkTypeOK
      <4>2. ack.next <= heard[ack.of].next
        BY <1>1 DEF HandInv
      <4> QED
        BY <1>3, <2>3, <4>1, <4>2
    <3> QED
      BY <2>2, <3>1 DEF HandInv
  <2> QED
    BY <2>6, <2>7, <2>9, <2>10 DEF WInv
<1> QED
  BY <1>4, <1>5, <1>6 DEF AppStep, Host

LEMMA StutterKeepsWindow ==
  ASSUME WInv, UNCHANGED vars
  PROVE  WInv'
<1>1. UNCHANGED <<connected, transportVersion, audioSessionId, ackedSeq, ackInHand, crossed, air,
                  control, heard, txTask, bundle, profile, sessionId, caller>>
  BY DEF vars, bleVars, hostVars, linkVars, windowVars, pipelineVars, captureVars, txVars, startVars
<1> QED
  BY <1>1 DEF WInv, ControlInv, HandInv, AckedWasHeard, WindowInv, AirWithinWindow, InFlight

(* The window's invariant, though the handler of an ACK may be preempted   *)
(* between the comparison and the store: what is stored was heard of the   *)
(* recording it was compared with, which is the current one or the         *)
(* recording is marked as crossed.                                         *)
THEOREM WindowInvariance == Spec => []WInv
<1>1. Init => WInv
  BY InitWindow
<1>2. IInv /\ StreamInv /\ WInv /\ [Next]_vars => WInv'
  BY CallerKeepsWindow, AudioKeepsWindow, TxKeepsWindow, HostTaskKeepsWindow, AppKeepsWindow,
     StutterKeepsWindow DEF Next
<1> QED
  BY <1>1, <1>2, Invariance, StreamInvariance, PTL DEF Spec

(* What the window counts as acknowledged, the app has been given, but for *)
(* a recording into which an ACK of an earlier one was stored.             *)
THEOREM AckedWasHeardAlways == Spec => []AckedWasHeard
<1>1. WInv => AckedWasHeard
  BY DEF WInv
<1> QED
  BY <1>1, WindowInvariance, PTL

(* The v2 bundles of a recording in flight never span more than the window *)
(* of its profile, through retries, drops, reconnections and changes of    *)
(* version, with the same exception.                                       *)
THEOREM AirWithinWindowAlways == Spec => []AirWithinWindow
<1>1. WInv => AirWithinWindow
  BY DEF WInv
<1> QED
  BY <1>1, WindowInvariance, PTL
=============================================================================
