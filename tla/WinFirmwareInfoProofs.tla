----------------------- MODULE WinFirmwareInfoProofs -----------------------
(***************************************************************************)
(* Proofs about WinFirmwareInfo, for any devices and versions and any      *)
(* number of events and failures.                                          *)
(*                                                                         *)
(* FInv is the inductive invariant: the types, what the threads may have   *)
(* left to do, where each question that was decided is on its way to the   *)
(* user, and where the newest snapshot is.                                 *)
(***************************************************************************)
EXTENDS WinFirmwareInfo, FiniteSetTheorems, TLAPS

\* The steps of the two threads: a pairing is the longest list of them, and
\* only the first may have been replaced by what it led to.
ShapeInv ==
  /\ Len(todo["hour"]) <= 1 /\ Len(todo["ui"]) <= 4
  /\ \A i \in 2..Len(todo["ui"]) :
       todo["ui"][i].op = IF i = Len(todo["ui"]) THEN "refresh"
                          ELSE IF i = Len(todo["ui"]) - 1 THEN "check" ELSE "want"
  /\ Len(todo["ui"]) = 3 <=> At("ui", "want")
  /\ At("ui", "info") => Len(todo["ui"]) = 2
  /\ ~At("hour", "want") /\ ~At("hour", "info")

\* A check that is in flight has a thread that ends it.
FlightInv ==
  inFlight => check.pc \in {"fetching", "apply"} \/ \E t \in Threads : At(t, "join")

One(condition) == IF condition THEN 1 ELSE 0

\* How many of the snapshots posted in q ask about device d.
Asked(q, d) == Cardinality({i \in 1..Len(q) : d \in q[i].prompts})

\* The questions about d that were asked, that are on their way or that a
\* pairing still entitles to.
WantLeft(d) == \E i \in 1..Len(todo["ui"]) : todo["ui"][i].op = "want" /\ todo["ui"][i].device = d
AskLeft(t, d) == At(t, "publish") /\ d \in Head(todo[t]).prompts
CheckAsks(d) == check.pc = "publish" /\ d \in check.prompts
Questions(d) ==
  prompted[d] + Asked(posted, d) + One(CheckAsks(d)) + One(AskLeft("ui", d))
    + One(AskLeft("hour", d)) + One(d \in wanted) + One(WantLeft(d))

AskInv == \A d \in Devices : Questions(d) <= pairings[d]

\* A refresh is still to come.
Refreshing ==
  \/ \E t \in Threads : At(t, "join") \/ \E i \in 1..Len(todo[t]) : todo[t][i].op = "refresh"
  \/ check.pc \in {"fetching", "apply", "refresh"}
  \/ At("ui", "check") /\ paired # {}

\* Unless one was overtaken, at most one snapshot is under way.
OneUnderWay ==
  /\ Len(posted) <= 1
  /\ posted # <<>> => check.pc # "publish" /\ ~At("ui", "publish") /\ ~At("hour", "publish")
  /\ check.pc = "publish" => ~At("ui", "publish") /\ ~At("hour", "publish")
  /\ ~(At("ui", "publish") /\ At("hour", "publish"))

\* Wherever the newest snapshot is, it is what the coordinator knows.
NewestIsInfo ==
  /\ posted # <<>> => posted[1].info = info
  /\ check.pc = "publish" => check.info = info
  /\ \A t \in Threads : At(t, "publish") => Head(todo[t]).info = info
  /\ ~Undelivered => shown = info

SnapshotInv == ~overtaken => OneUnderWay /\ (Refreshing \/ NewestIsInfo)

FInv == TypeOK /\ ShapeInv /\ FlightInv /\ AskInv /\ SnapshotInv

-----------------------------------------------------------------------------
(***************************************************************************)
(* Sequences                                                               *)
(***************************************************************************)
\* A step replaced by another, and a step that is done.
LEMMA ReplacedFacts ==
  ASSUME NEW S, NEW s \in Seq(S), s # <<>>, NEW x \in S
  PROVE  /\ <<x>> \o Tail(s) \in Seq(S) /\ <<x>> \o Tail(s) # <<>>
         /\ Len(<<x>> \o Tail(s)) = Len(s)
         /\ Head(<<x>> \o Tail(s)) = x /\ (<<x>> \o Tail(s))[1] = x
         /\ \A i \in 2..Len(s) : (<<x>> \o Tail(s))[i] = s[i]
OBVIOUS

LEMMA DoneFacts ==
  ASSUME NEW S, NEW s \in Seq(S), s # <<>>
  PROVE  /\ <<>> \o Tail(s) \in Seq(S)
         /\ Len(<<>> \o Tail(s)) = Len(s) - 1
         /\ \A i \in 1..(Len(s) - 1) : (<<>> \o Tail(s))[i] = s[i + 1]
         /\ <<>> \o Tail(s) # <<>> <=> Len(s) >= 2
         /\ <<>> \o Tail(s) # <<>> => Head(<<>> \o Tail(s)) = s[2]
         /\ Len(s) \in Nat /\ Len(s) >= 1
OBVIOUS

\* The snapshots posted that ask about d, when one is posted or taken.
LEMMA AskedNat ==
  ASSUME NEW S, NEW q \in Seq(S), NEW d
  PROVE  Asked(q, d) \in Nat /\ IsFiniteSet({i \in 1..Len(q) : d \in q[i].prompts})
<1>1. IsFiniteSet(1..Len(q))
  BY FS_Interval
<1>2. IsFiniteSet({i \in 1..Len(q) : d \in q[i].prompts})
  BY <1>1, FS_Subset
<1> QED
  BY <1>2, FS_CardinalityType DEF Asked

LEMMA AskedEmpty ==
  ASSUME NEW d
  PROVE  Asked(<<>>, d) = 0
<1>1. {i \in 1..Len(<<>>) : d \in <<>>[i].prompts} = {}
  OBVIOUS
<1> QED
  BY <1>1, FS_EmptySet DEF Asked

LEMMA AskedAppend ==
  ASSUME NEW S, NEW q \in Seq(S), NEW m \in S, NEW d
  PROVE  Asked(Append(q, m), d) = Asked(q, d) + One(d \in m.prompts)
<1> DEFINE old == {i \in 1..Len(q) : d \in q[i].prompts}
           new == {i \in 1..Len(Append(q, m)) : d \in Append(q, m)[i].prompts}
<1>1. IsFiniteSet(old) /\ Cardinality(old) \in Nat
  BY AskedNat, FS_CardinalityType
<1>2. Len(q) + 1 \notin old
  OBVIOUS
<1>3. CASE d \in m.prompts
  <2>1. new = old \union {Len(q) + 1}
    BY <1>3
  <2>2. Cardinality(new) = Cardinality(old) + 1
    BY <1>1, <1>2, <2>1, FS_AddElement
  <2> QED
    BY <1>3, <2>2 DEF Asked, One
<1>4. CASE d \notin m.prompts
  <2>1. new = old
    BY <1>4
  <2>2. One(d \in m.prompts) = 0
    BY <1>4 DEF One
  <2>3. Asked(Append(q, m), d) = Asked(q, d) /\ Asked(q, d) \in Nat
    BY <1>1, <2>1 DEF Asked
  <2> QED
    BY <2>2, <2>3
<1> QED
  BY <1>3, <1>4

LEMMA AskedTail ==
  ASSUME NEW S, NEW q \in Seq(S), q # <<>>, NEW d
  PROVE  Asked(q, d) = Asked(Tail(q), d) + One(d \in Head(q).prompts)
<1> DEFINE all == {i \in 1..Len(q) : d \in q[i].prompts}
           rest == {i \in 1..Len(Tail(q)) : d \in Tail(q)[i].prompts}
           shift == [i \in rest |-> i + 1]
<1>1. IsFiniteSet(all) /\ IsFiniteSet(rest) /\ Cardinality(rest) \in Nat
  <2>1. Tail(q) \in Seq(S)
    OBVIOUS
  <2> QED
    BY <2>1, AskedNat, FS_CardinalityType
<1>2. Cardinality(all \ {1}) = Cardinality(rest)
  <2>1. \A i \in rest : i + 1 \in all \ {1}
    OBVIOUS
  <2>2. \A j \in all \ {1} : j - 1 \in rest /\ (j - 1) + 1 = j
    OBVIOUS
  <2>3. shift \in Bijection(rest, all \ {1})
    <3>1. shift \in [rest -> all \ {1}]
      BY <2>1
    <3>2. \A i, j \in rest : shift[i] = shift[j] => i = j
      OBVIOUS
    <3>3. \A j \in all \ {1} : \E i \in rest : shift[i] = j
      BY <2>2
    <3> QED
      BY <3>1, <3>2, <3>3 DEF Bijection, Injection, Surjection, IsInjective
  <2> QED
    BY <2>3, <1>1, FS_Bijection DEF ExistsBijection
<1>3. CASE d \in Head(q).prompts
  <2>1. 1 \in all /\ all = (all \ {1}) \union {1}
    BY <1>3
  <2>2. IsFiniteSet(all \ {1})
    BY <1>1, FS_Subset
  <2>3. Cardinality((all \ {1}) \union {1}) = Cardinality(all \ {1}) + 1
    BY <2>2, FS_AddElement
  <2>4. Cardinality(all) = Cardinality(rest) + 1
    BY <1>2, <2>1, <2>3
  <2> QED
    BY <1>3, <2>4 DEF Asked, One
<1>4. CASE d \notin Head(q).prompts
  <2>1. all \ {1} = all
    BY <1>4
  <2>2. One(d \in Head(q).prompts) = 0
    BY <1>4 DEF One
  <2>3. Asked(q, d) = Asked(Tail(q), d) /\ Asked(Tail(q), d) \in Nat
    BY <1>1, <1>2, <2>1 DEF Asked
  <2> QED
    BY <2>2, <2>3
<1> QED
  BY <1>3, <1>4

-----------------------------------------------------------------------------
(***************************************************************************)
(* What a step of a thread leaves of its list.                             *)
(***************************************************************************)
StepsTyped == todo \in [Threads -> Seq(Steps)]

\* A step that leads to another keeps the rest of the list.
LEMMA LedTo ==
  ASSUME StepsTyped, ShapeInv, NEW t \in Threads, todo[t] # <<>>, ~At(t, "want"),
         NEW x \in Steps, x.op \notin {"want", "info"}, Then(t, <<x>>)
  PROVE  /\ StepsTyped' /\ ShapeInv'
         /\ todo'[t] # <<>> /\ Head(todo'[t]) = x /\ todo'[t][1] = x
         /\ Len(todo'[t]) = Len(todo[t])
         /\ \A i \in 2..Len(todo[t]) : todo'[t][i] = todo[t][i]
         /\ \A u \in Threads : u # t => todo'[u] = todo[u]
<1> DEFINE rest == <<x>> \o Tail(todo[t])
<1>1. todo[t] \in Seq(Steps)
  BY DEF StepsTyped
<1>2. /\ rest \in Seq(Steps) /\ rest # <<>> /\ Head(rest) = x /\ rest[1] = x
      /\ Len(rest) = Len(todo[t])
      /\ \A i \in 2..Len(todo[t]) : rest[i] = todo[t][i]
  BY <1>1, ReplacedFacts
<1>3. todo' = [todo EXCEPT ![t] = rest]
  BY DEF Then
<1> HIDE DEF rest
<1>4. todo'[t] = rest /\ \A u \in Threads : u # t => todo'[u] = todo[u]
  BY <1>3 DEF StepsTyped
<1>5. StepsTyped'
  BY <1>2, <1>3 DEF StepsTyped
<1>6. ShapeInv'
  <2>1. CASE t = "hour"
    BY <1>2, <1>4, <2>1 DEF ShapeInv, At, Threads
  <2>2. CASE t = "ui"
    <3>1. todo'["ui"] = rest /\ todo'["hour"] = todo["hour"]
      BY <1>4, <2>2 DEF Threads
    <3>2. ~At("ui", "want")' /\ ~At("ui", "info")'
      BY <1>2, <3>1 DEF At
    <3>3. Len(todo'["ui"]) # 3
      BY <1>2, <2>2, <3>1 DEF ShapeInv
    <3> QED
      BY <1>1, <1>2, <2>2, <3>1, <3>2, <3>3 DEF ShapeInv, At
  <2> QED
    BY <2>1, <2>2 DEF Threads
<1> QED
  BY <1>2, <1>4, <1>5, <1>6

\* A step that is done leaves the rest, which ends with a refresh.
LEMMA StepDone ==
  ASSUME StepsTyped, ShapeInv, NEW t \in Threads, todo[t] # <<>>, Then(t, <<>>)
  PROVE  /\ StepsTyped' /\ ShapeInv'
         /\ \A u \in Threads : u # t => todo'[u] = todo[u]
         /\ Len(todo'[t]) = Len(todo[t]) - 1
         /\ \A i \in 1..Len(todo'[t]) : todo'[t][i] = todo[t][i + 1]
         /\ ~At(t, "publish")' /\ ~At(t, "join")'
         /\ todo'[t] # <<>> => \E i \in 1..Len(todo'[t]) : todo'[t][i].op = "refresh"
<1> DEFINE rest == <<>> \o Tail(todo[t])
<1>1. todo[t] \in Seq(Steps)
  BY DEF StepsTyped
<1>2. /\ rest \in Seq(Steps) /\ Len(rest) = Len(todo[t]) - 1
      /\ \A i \in 1..(Len(todo[t]) - 1) : rest[i] = todo[t][i + 1]
      /\ rest # <<>> <=> Len(todo[t]) >= 2
      /\ rest # <<>> => Head(rest) = todo[t][2]
      /\ Len(todo[t]) \in Nat /\ Len(todo[t]) >= 1
  BY <1>1, DoneFacts
<1>3. todo' = [todo EXCEPT ![t] = rest]
  BY DEF Then
<1> HIDE DEF rest
<1>4. todo'[t] = rest /\ \A u \in Threads : u # t => todo'[u] = todo[u]
  BY <1>3 DEF StepsTyped
<1>5. StepsTyped'
  BY <1>2, <1>3 DEF StepsTyped
<1>6. CASE t = "hour"
  <2>1. rest = <<>>
    <3>1. Len(todo[t]) <= 1
      BY <1>6, Zenon DEF ShapeInv
    <3> QED
      BY <1>2, <3>1
  <2>2. todo'["hour"] = <<>> /\ todo'["ui"] = todo["ui"]
    BY <1>4, <1>6, <2>1 DEF Threads
  <2>3. ShapeInv'
    BY <2>2 DEF ShapeInv, At
  <2> QED
    BY <1>2, <1>4, <1>5, <1>6, <2>2, <2>3 DEF At
<1>7. CASE t = "ui"
  <2>1. todo'["ui"] = rest /\ todo'["hour"] = todo["hour"]
    BY <1>4, <1>7 DEF Threads
  <2>2. PICK n \in Nat : n = Len(rest) /\ Len(todo["ui"]) = n + 1
    <3>1. Len(todo[t]) \in Nat /\ Len(todo[t]) >= 1 /\ Len(rest) = Len(todo[t]) - 1
      BY <1>2
    <3>2. \E n \in Nat : n = Len(rest) /\ Len(todo[t]) = n + 1
      BY <3>1
    <3> QED
      BY <1>7, <3>2
  <2>3. n <= 3
    <3>1. Len(todo["ui"]) <= 4
      BY Zenon DEF ShapeInv
    <3> QED
      BY <2>2, <3>1
  <2>4. rest # <<>> <=> n >= 1
    BY <1>2, <1>7, <2>2
  <2>5. ASSUME NEW i \in 1..n
        PROVE  rest[i].op = IF i = n THEN "refresh" ELSE IF i = n - 1 THEN "check" ELSE "want"
    <3>1. rest[i] = todo["ui"][i + 1] /\ i + 1 \in 2..(n + 1)
      BY <1>2, <1>7, <2>2
    <3> QED
      BY <2>2, <3>1 DEF ShapeInv
  <2>6. rest # <<>> => Head(rest) = rest[1]
    BY <1>2
  <2>7. rest # <<>> => rest[1].op = IF n = 1 THEN "refresh" ELSE IF n = 2 THEN "check" ELSE "want"
    BY <2>4, <2>5
  <2>8. At("ui", "want")' <=> n = 3
    BY <2>1, <2>3, <2>4, <2>6, <2>7 DEF At
  <2>9. ~At("ui", "info")' /\ ~At("ui", "publish")' /\ ~At("ui", "join")'
    BY <2>1, <2>6, <2>7 DEF At
  <2>10. ShapeInv'
    <3>1. (Len(todo["hour"]) <= 1 /\ ~At("hour", "want") /\ ~At("hour", "info"))'
      BY <2>1, Zenon DEF ShapeInv, At
    <3>2. (\A i \in 2..Len(todo["ui"]) :
             todo["ui"][i].op = IF i = Len(todo["ui"]) THEN "refresh"
                                ELSE IF i = Len(todo["ui"]) - 1 THEN "check" ELSE "want")'
      BY <2>1, <2>2, <2>5
    <3>3. Len(todo'["ui"]) <= 4 /\ (Len(todo'["ui"]) = 3 <=> n = 3)
      BY <2>1, <2>2, <2>3
    <3> QED
      BY <2>8, <2>9, <3>1, <3>2, <3>3 DEF ShapeInv
  <2>11. rest # <<>> => \E i \in 1..Len(rest) : rest[i].op = "refresh"
    BY <2>2, <2>4, <2>5
  <2> QED
    BY <1>2, <1>4, <1>5, <1>7, <2>1, <2>9, <2>10, <2>11
<1> QED
  BY <1>6, <1>7 DEF Threads

\* What the list still says of pairings not yet asked for, after such a step.
LEMMA LedToWant ==
  ASSUME StepsTyped, ShapeInv, NEW t \in Threads, todo[t] # <<>>, ~At(t, "want"),
         NEW x \in Steps, x.op \notin {"want", "info"}, Then(t, <<x>>), NEW d
  PROVE  /\ WantLeft(d)' => WantLeft(d)
         /\ \A u \in Threads : u # t => (AskLeft(u, d)' <=> AskLeft(u, d))
         /\ AskLeft(t, d)' <=> x.op = "publish" /\ d \in x.prompts
<1>1. /\ todo'[t] # <<>> /\ Head(todo'[t]) = x /\ todo'[t][1] = x
      /\ Len(todo'[t]) = Len(todo[t])
      /\ \A i \in 2..Len(todo[t]) : todo'[t][i] = todo[t][i]
      /\ \A u \in Threads : u # t => todo'[u] = todo[u]
  BY LedTo
<1>2. WantLeft(d)' => WantLeft(d)
  <2>1. CASE t = "hour"
    <3>1. todo'["ui"] = todo["ui"]
      BY <1>1, <2>1 DEF Threads
    <3> QED
      BY <3>1, Zenon DEF WantLeft
  <2>2. CASE t = "ui"
    <3> SUFFICES ASSUME NEW i \in 1..Len(todo'["ui"]), todo'["ui"][i].op = "want",
                        todo'["ui"][i].device = d
                 PROVE  \E j \in 1..Len(todo["ui"]) :
                          todo["ui"][j].op = "want" /\ todo["ui"][j].device = d
      BY DEF WantLeft
    <3>1. todo["ui"] \in Seq(Steps) /\ todo'["ui"] \in Seq(Steps)
      BY LedTo DEF StepsTyped, Threads
    <3>2. i \in 2..Len(todo["ui"]) /\ i \in 1..Len(todo["ui"])
      BY <1>1, <2>2, <3>1
    <3>3. todo'["ui"][i] = todo["ui"][i]
      BY <1>1, <2>2, <3>2
    <3> QED
      BY <3>2, <3>3
  <2> QED
    BY <2>1, <2>2 DEF Threads
<1> QED
  BY <1>1, <1>2 DEF AskLeft, At

LEMMA StepDoneWant ==
  ASSUME StepsTyped, ShapeInv, NEW t \in Threads, todo[t] # <<>>, Then(t, <<>>), NEW d
  PROVE  /\ WantLeft(d)' => WantLeft(d)
         /\ At(t, "want") => ~WantLeft(d)'
         /\ \A u \in Threads : u # t => (AskLeft(u, d)' <=> AskLeft(u, d))
         /\ ~AskLeft(t, d)'
<1>1. /\ \A u \in Threads : u # t => todo'[u] = todo[u]
      /\ Len(todo'[t]) = Len(todo[t]) - 1
      /\ \A i \in 1..Len(todo'[t]) : todo'[t][i] = todo[t][i + 1]
      /\ ~At(t, "publish")' /\ StepsTyped' /\ ShapeInv'
  BY StepDone
<1>2. CASE t = "hour"
  <2>1. todo'["ui"] = todo["ui"]
    BY <1>1, <1>2 DEF Threads
  <2>2. WantLeft(d)' <=> WantLeft(d)
    BY <2>1, Zenon DEF WantLeft
  <2>3. ~At(t, "want")
    BY <1>2, Zenon DEF ShapeInv
  <2> QED
    BY <1>1, <2>2, <2>3 DEF AskLeft, At
<1>3. CASE t = "ui"
  <2>1. PICK n \in Nat : n = Len(todo'["ui"]) /\ Len(todo["ui"]) = n + 1
    <3>1. todo'[t] \in Seq(Steps) /\ todo[t] \in Seq(Steps)
      BY <1>1 DEF StepsTyped
    <3>2. \E n \in Nat : n = Len(todo'[t]) /\ Len(todo[t]) = n + 1
      BY <1>1, <3>1
    <3> QED
      BY <1>3, <3>2
  <2>2. \A i \in 1..n : todo'["ui"][i] = todo["ui"][i + 1] /\ i + 1 \in 1..(n + 1)
    BY <1>1, <1>3, <2>1
  <2>3. WantLeft(d)' => WantLeft(d)
    BY <2>1, <2>2 DEF WantLeft
  <2>4. At("ui", "want") => ~WantLeft(d)'
    <3> SUFFICES ASSUME At("ui", "want"), NEW i \in 1..n
                 PROVE  todo'["ui"][i].op # "want"
      BY <2>1 DEF WantLeft
    <3>1. n + 1 = 3
      BY <2>1 DEF ShapeInv
    <3>2. i + 1 \in 2..Len(todo["ui"]) /\ i + 1 >= Len(todo["ui"]) - 1
      BY <2>1, <3>1
    <3>3. todo["ui"][i + 1].op \in {"refresh", "check"}
      BY <2>1, <3>1, <3>2 DEF ShapeInv
    <3> QED
      BY <2>2, <3>3
  <2> QED
    BY <1>1, <1>3, <2>3, <2>4 DEF AskLeft, At
<1> QED
  BY <1>2, <1>3 DEF Threads

-----------------------------------------------------------------------------
LEMMA OneFacts ==
  ASSUME NEW P \in BOOLEAN
  PROVE  One(P) \in {0, 1} /\ (P => One(P) = 1) /\ (~P => One(P) = 0)
BY DEF One

LEMMA RefreshedType ==
  ASSUME TypeOK
  PROVE  RefreshedInfo \in Snapshots /\ \A d \in Devices : Available(d) => Comparable(d)
<1>1. \A d \in Devices : Available(d) \in BOOLEAN
  BY DEF Available, IsOlderThan, Parses
<1>2. ASSUME NEW d \in Devices
      PROVE  RefreshedInfo[d] \in
               [known : BOOLEAN, current : Versions, latest : Versions,
                available : BOOLEAN, checking : BOOLEAN, failed : BOOLEAN]
  <2>1. (IF Comparable(d) THEN manifest ELSE NoVersion) \in Versions
    BY DEF TypeOK, Versions
  <2> QED
    BY <1>1, <2>1 DEF TypeOK, RefreshedInfo, Snapshots
<1>3. RefreshedInfo \in Snapshots
  BY <1>2 DEF RefreshedInfo, Snapshots
<1> QED
  BY <1>3 DEF Available

\* The parts of Questions are numbers.
LEMMA QuestionParts ==
  ASSUME TypeOK, NEW d \in Devices
  PROVE  /\ prompted[d] \in Nat /\ pairings[d] \in Nat
         /\ Asked(posted, d) \in Nat
         /\ One(CheckAsks(d)) \in {0, 1}
         /\ One(AskLeft("ui", d)) \in {0, 1} /\ One(AskLeft("hour", d)) \in {0, 1}
         /\ One(d \in wanted) \in {0, 1}
         /\ One(WantLeft(d)) \in {0, 1}
BY AskedNat DEF TypeOK, One

\* A step that asks about nothing new.
LEMMA AskKept ==
  ASSUME TypeOK, TypeOK', AskInv, UNCHANGED <<posted, prompted>>,
         \A d \in Devices : /\ WantLeft(d)' => WantLeft(d)
                            /\ CheckAsks(d)' => CheckAsks(d)
                            /\ \A t \in Threads : AskLeft(t, d)' => AskLeft(t, d)
                            /\ d \in wanted' => d \in wanted
                            /\ pairings'[d] = pairings[d]
  PROVE  AskInv'
<1> SUFFICES ASSUME NEW d \in Devices
             PROVE  (Questions(d) <= pairings[d])'
  BY DEF AskInv
<1>1. /\ One(CheckAsks(d))' <= One(CheckAsks(d))
      /\ \A t \in Threads : One(AskLeft(t, d))' <= One(AskLeft(t, d))
      /\ One(d \in wanted)' <= One(d \in wanted)
      /\ One(WantLeft(d))' <= One(WantLeft(d))
  BY DEF One
<1>2. Questions(d)' <= Questions(d)
  <2>1. /\ prompted[d] \in Nat /\ Asked(posted, d) \in Nat
        /\ One(CheckAsks(d)) \in {0, 1} /\ One(CheckAsks(d))' \in {0, 1}
        /\ One(AskLeft("ui", d)) \in {0, 1} /\ One(AskLeft("ui", d))' \in {0, 1}
        /\ One(AskLeft("hour", d)) \in {0, 1} /\ One(AskLeft("hour", d))' \in {0, 1}
        /\ One(d \in wanted) \in {0, 1} /\ One(d \in wanted)' \in {0, 1}
        /\ One(WantLeft(d)) \in {0, 1} /\ One(WantLeft(d))' \in {0, 1}
    BY QuestionParts DEF One, Threads
  <2>2. /\ One(AskLeft("ui", d))' <= One(AskLeft("ui", d))
        /\ One(AskLeft("hour", d))' <= One(AskLeft("hour", d))
    BY <1>1 DEF Threads
  <2> QED
    BY <1>1, <2>1, <2>2 DEF Questions
<1> QED
  <2>1. Questions(d) <= pairings[d] /\ pairings'[d] = pairings[d]
    BY DEF AskInv
  <2>2. Questions(d) \in Nat /\ Questions(d)' \in Nat /\ pairings[d] \in Nat
    BY QuestionParts DEF Questions, One, Threads
  <2> QED
    BY <1>2, <2>1, <2>2

\* The parts of Questions after a step that keeps the types.
LEMMA QuestionPartsAfter ==
  ASSUME TypeOK', NEW d \in Devices
  PROVE  /\ prompted'[d] \in Nat /\ pairings'[d] \in Nat
         /\ Asked(posted', d) \in Nat
         /\ One(CheckAsks(d))' \in {0, 1}
         /\ One(AskLeft("ui", d))' \in {0, 1} /\ One(AskLeft("hour", d))' \in {0, 1}
         /\ One(d \in wanted)' \in {0, 1}
         /\ One(WantLeft(d))' \in {0, 1}
<1>1. Asked(posted', d) \in Nat
  <2>1. posted' \in Seq(Publishing)
    BY DEF TypeOK
  <2> QED
    BY <2>1, AskedNat
<1> QED
  BY <1>1 DEF TypeOK, One

\* A step that keeps every snapshot where it is, and either leads to a refresh
\* or changes nothing that is shown.
LEMMA SnapshotKept ==
  ASSUME SnapshotInv, UNCHANGED <<posted, overtaken>>,
         check'.pc = "publish" <=> check.pc = "publish",
         check.pc = "publish" => check' = check,
         \A t \in Threads : /\ At(t, "publish")' <=> At(t, "publish")
                            /\ At(t, "publish") => Head(todo'[t]) = Head(todo[t]),
         Refreshing' \/ (UNCHANGED <<info, shown>> /\ ~Refreshing)
  PROVE  SnapshotInv'
<1> SUFFICES ASSUME ~overtaken
             PROVE  OneUnderWay' /\ (Refreshing' \/ NewestIsInfo')
  BY DEF SnapshotInv
<1>1. OneUnderWay'
  BY DEF SnapshotInv, OneUnderWay, Threads
<1>2. Undelivered' <=> Undelivered
  BY DEF Undelivered
<1>3. CASE UNCHANGED <<info, shown>> /\ ~Refreshing
  <2>1. NewestIsInfo
    BY <1>3 DEF SnapshotInv
  <2>2. NewestIsInfo'
    BY <1>2, <1>3, <2>1 DEF NewestIsInfo
  <2> QED
    BY <1>1, <2>2
<1> QED
  BY <1>1, <1>3

\* A step that is done, and was not a refresh, leaves a refresh that is due.
LEMMA RefreshingKept ==
  ASSUME StepsTyped, ShapeInv, NEW t \in Threads, todo[t] # <<>>, Then(t, <<>>),
         ~At(t, "join"), ~At(t, "refresh"), UNCHANGED <<check, paired>>,
         t = "ui" /\ At("ui", "check") => paired = {},
         Refreshing
  PROVE  Refreshing'
<1>1. /\ \A u \in Threads : u # t => todo'[u] = todo[u]
      /\ todo'[t] # <<>> => \E i \in 1..Len(todo'[t]) : todo'[t][i].op = "refresh"
      /\ Len(todo'[t]) = Len(todo[t]) - 1
      /\ StepsTyped'
  BY StepDone
<1>2. CASE check.pc \in {"fetching", "apply", "refresh"}
  BY <1>2 DEF Refreshing
<1>3. ASSUME NEW u \in Threads,
             At(u, "join") \/ \E i \in 1..Len(todo[u]) : todo[u][i].op = "refresh"
      PROVE  Refreshing'
  <2>1. CASE u = t
    <3>1. PICK i \in 1..Len(todo[u]) : todo[u][i].op = "refresh"
      BY <1>3, <2>1
    <3>2. todo[t] \in Seq(Steps) /\ todo'[t] \in Seq(Steps)
      BY <1>1 DEF StepsTyped
    <3>3. i # 1
      BY <2>1, <3>1, <3>2 DEF At
    <3>4. Len(todo'[t]) >= 1
      BY <1>1, <2>1, <3>1, <3>2, <3>3
    <3>5. todo'[t] # <<>>
      BY <3>2, <3>4
    <3> QED
      BY <1>1, <3>5 DEF Refreshing
  <2>2. CASE u # t
    BY <1>1, <1>3, <2>2 DEF Refreshing, At
  <2> QED
    BY <2>1, <2>2
<1>4. CASE At("ui", "check") /\ paired # {}
  <2>1. t # "ui" /\ todo'["ui"] = todo["ui"]
    BY <1>1, <1>4 DEF Threads
  <2> QED
    BY <1>4, <2>1 DEF Refreshing, At
<1> QED
  BY <1>2, <1>3, <1>4 DEF Refreshing

-----------------------------------------------------------------------------
(***************************************************************************)
(* CheckFirmwareUpdatesIfNeeded and the refresh.                           *)
(***************************************************************************)
LEMMA CheckSkippedStep ==
  ASSUME FInv, NEW t \in Threads, CheckSkipped(t)
  PROVE  FInv'
<1> USE DEF coordinatorVars, history
<1>1. todo[t] # <<>> /\ StepsTyped /\ ShapeInv /\ Then(t, <<>>)
  BY DEF FInv, TypeOK, StepsTyped, CheckSkipped, At
<1>2. TypeOK'
  BY <1>1, StepDone DEF FInv, TypeOK, StepsTyped, CheckSkipped
<1>3. ShapeInv'
  BY <1>1, StepDone
<1>4. FlightInv'
  <2>1. ~At(t, "join") /\ \A u \in Threads : u # t => todo'[u] = todo[u]
    BY <1>1, StepDone DEF CheckSkipped, At
  <2> QED
    BY <2>1 DEF FInv, FlightInv, At, CheckSkipped
<1>5. AskInv'
  <2>1. \A d \in Devices : /\ WantLeft(d)' => WantLeft(d)
                           /\ \A u \in Threads : AskLeft(u, d)' => AskLeft(u, d)
    BY <1>1, StepDoneWant
  <2> QED
    BY <1>2, <2>1, AskKept DEF FInv, CheckSkipped, CheckAsks
<1>6. SnapshotInv'
  <2>1. ~At(t, "publish") /\ ~At(t, "join") /\ ~At(t, "refresh")
    BY DEF CheckSkipped, At
  <2>2. \A u \in Threads : /\ At(u, "publish")' <=> At(u, "publish")
                           /\ At(u, "publish") => Head(todo'[u]) = Head(todo[u])
    BY <1>1, <2>1, StepDone DEF At
  <2>3. Refreshing => Refreshing'
    <3>1. CASE inFlight
      <4>1. PICK u \in Threads : check.pc \in {"fetching", "apply"} \/ At(u, "join")
        BY <3>1 DEF FInv, FlightInv, Threads
      <4>2. At(u, "join") => At(u, "join")'
        BY <1>1, <2>1, StepDone DEF At
      <4> QED
        BY <4>1, <4>2 DEF Refreshing, CheckSkipped
    <3>2. CASE paired = {}
      BY <1>1, <2>1, <3>2, RefreshingKept DEF CheckSkipped
    <3> QED
      BY <3>1, <3>2 DEF CheckSkipped
  <2> QED
    BY <2>2, <2>3, SnapshotKept DEF FInv, CheckSkipped
<1> QED
  BY <1>2, <1>3, <1>4, <1>5, <1>6 DEF FInv

LEMMA CacheUsedStep ==
  ASSUME FInv, NEW t \in Threads, CacheUsed(t)
  PROVE  FInv'
<1> USE DEF coordinatorVars, history
<1>1. /\ todo[t] # <<>> /\ StepsTyped /\ ShapeInv /\ Then(t, <<Refresh>>)
      /\ ~At(t, "want") /\ ~At(t, "join") /\ ~At(t, "publish")
  BY DEF FInv, TypeOK, StepsTyped, CacheUsed, At
<1>2. Refresh \in Steps /\ Refresh.op = "refresh"
  BY DEF Refresh, Steps
<1>3. /\ StepsTyped' /\ ShapeInv' /\ todo'[t] # <<>> /\ Head(todo'[t]) = Refresh
      /\ todo'[t][1] = Refresh /\ Len(todo'[t]) = Len(todo[t])
      /\ \A u \in Threads : u # t => todo'[u] = todo[u]
  BY <1>1, <1>2, LedTo
<1>4. TypeOK'
  BY <1>3 DEF FInv, TypeOK, StepsTyped, CacheUsed
<1>5. FlightInv'
  BY <1>1, <1>3 DEF FInv, FlightInv, At, CacheUsed
<1>6. AskInv'
  <2>1. \A d \in Devices : /\ WantLeft(d)' => WantLeft(d)
                           /\ \A u \in Threads : AskLeft(u, d)' => AskLeft(u, d)
    BY <1>1, <1>2, LedToWant
  <2> QED
    BY <1>4, <2>1, AskKept DEF FInv, CacheUsed, CheckAsks
<1>7. SnapshotInv'
  <2>1. \A u \in Threads : /\ At(u, "publish")' <=> At(u, "publish")
                           /\ At(u, "publish") => Head(todo'[u]) = Head(todo[u])
    BY <1>1, <1>2, <1>3 DEF At
  <2>2. Refreshing'
    <3>1. todo'[t] \in Seq(Steps)
      BY <1>3 DEF StepsTyped
    <3>2. 1 \in 1..Len(todo'[t]) /\ todo'[t][1].op = "refresh"
      BY <1>2, <1>3, <3>1
    <3> QED
      BY <3>2 DEF Refreshing
  <2> QED
    BY <2>1, <2>2, SnapshotKept DEF FInv, CacheUsed
<1> QED
  BY <1>3, <1>4, <1>5, <1>6, <1>7 DEF FInv

\* A snapshot that is delivered is shown, or posted.
LEMMA Delivered ==
  ASSUME TypeOK, NEW t \in Threads \union {"check"}, NEW snapshot \in Snapshots,
         NEW prompts \in SUBSET Devices, Deliver(t, snapshot, prompts)
  PROVE  /\ shown' \in Snapshots /\ posted' \in Seq(Publishing)
         /\ prompted' \in [Devices -> Nat]
         /\ \A d \in Devices : prompted'[d] + Asked(posted', d)
                                = prompted[d] + Asked(posted, d) + One(d \in prompts)
         /\ t = "ui" => shown' = snapshot /\ posted' = posted
         /\ t # "ui" => shown' = shown /\ posted' = Append(posted, Publish(snapshot, prompts))
<1>1. posted \in Seq(Publishing) /\ prompted \in [Devices -> Nat] /\ shown \in Snapshots
  BY DEF TypeOK
<1>2. \A d \in Devices : Asked(posted, d) \in Nat
  BY <1>1, AskedNat
<1>3. CASE t = "ui"
  BY <1>1, <1>2, <1>3 DEF Deliver, One
<1>4. CASE t # "ui"
  <2>1. Publish(snapshot, prompts) \in Publishing /\ Publish(snapshot, prompts).prompts = prompts
    BY DEF Publish, Publishing
  <2>2. posted' = Append(posted, Publish(snapshot, prompts)) /\ UNCHANGED <<shown, prompted>>
    BY <1>4 DEF Deliver
  <2>3. \A d \in Devices : Asked(posted', d) = Asked(posted, d) + One(d \in prompts)
    BY <1>1, <2>1, <2>2, AskedAppend
  <2>4. posted' \in Seq(Publishing)
    BY <1>1, <2>1, <2>2
  <2>5. \A d \in Devices : One(d \in prompts) \in Nat /\ prompted[d] \in Nat
    BY <1>1 DEF One
  <2>6. ASSUME NEW d \in Devices
        PROVE  prompted'[d] + Asked(posted', d)
                 = prompted[d] + Asked(posted, d) + One(d \in prompts)
    BY <1>2, <2>2, <2>3, <2>5
  <2> QED
    BY <1>1, <1>4, <2>2, <2>4, <2>6
<1> QED
  BY <1>3, <1>4

\* A step after which each device has no more questions left than pairings.
LEMMA AskMoved ==
  ASSUME TypeOK, TypeOK', AskInv, NEW d \in Devices,
         prompted'[d] + Asked(posted', d) + One(CheckAsks(d))' + One(AskLeft("ui", d))'
           + One(AskLeft("hour", d))' + One(d \in wanted)' + One(WantLeft(d))' + pairings[d]
         <= prompted[d] + Asked(posted, d) + One(CheckAsks(d)) + One(AskLeft("ui", d))
           + One(AskLeft("hour", d)) + One(d \in wanted) + One(WantLeft(d)) + pairings'[d]
  PROVE  (Questions(d) <= pairings[d])'
<1>1. Questions(d) <= pairings[d]
  BY DEF AskInv
<1> QED
  BY <1>1, QuestionParts, QuestionPartsAfter DEF Questions

LEMMA CheckBeginsStep ==
  ASSUME FInv, NEW t \in Threads, CheckBegins(t)
  PROVE  FInv'
<1> DEFINE snapshot == [d \in Devices |-> IF d \in paired THEN info'[d] ELSE Unknown]
<1>1. /\ todo[t] # <<>> /\ TypeOK /\ StepsTyped /\ ShapeInv /\ Then(t, <<Join>>)
      /\ ~At(t, "want") /\ ~At(t, "join") /\ ~At(t, "publish")
  BY DEF FInv, TypeOK, StepsTyped, CheckBegins, At
<1>2. Join \in Steps /\ Join.op = "join"
  BY DEF Join, Steps
<1>3. /\ StepsTyped' /\ ShapeInv' /\ todo'[t] # <<>> /\ Head(todo'[t]) = Join
      /\ \A u \in Threads : u # t => todo'[u] = todo[u]
  BY <1>1, <1>2, LedTo
<1>4. info' \in Snapshots /\ snapshot \in Snapshots
  <2>1. info' \in Snapshots
    <3>1. info' = [d \in Devices |->
                     IF d \in paired
                     THEN [info[d] EXCEPT !.known = TRUE, !.checking = TRUE, !.failed = FALSE]
                     ELSE info[d]]
      BY DEF CheckBegins
    <3>2. \A d \in Devices :
            info'[d] \in [known : BOOLEAN, current : Versions, latest : Versions,
                          available : BOOLEAN, checking : BOOLEAN, failed : BOOLEAN]
      BY <1>1, <3>1 DEF TypeOK, Snapshots
    <3> QED
      BY <3>1, <3>2 DEF Snapshots
  <2>2. Unknown \in [known : BOOLEAN, current : Versions, latest : Versions,
                     available : BOOLEAN, checking : BOOLEAN, failed : BOOLEAN]
    BY DEF Unknown, Versions
  <2> QED
    BY <2>1, <2>2 DEF Snapshots
<1>5. Deliver(t, snapshot, {})
  BY DEF CheckBegins
<1> HIDE DEF snapshot
<1>6. /\ shown' \in Snapshots /\ posted' \in Seq(Publishing)
      /\ prompted' \in [Devices -> Nat]
      /\ \A d \in Devices : prompted'[d] + Asked(posted', d)
                             = prompted[d] + Asked(posted, d) + One(d \in {})
      /\ t = "ui" => shown' = snapshot /\ posted' = posted
      /\ t # "ui" => shown' = shown /\ posted' = Append(posted, Publish(snapshot, {}))
  BY <1>1, <1>4, <1>5, Delivered
<1>7. TypeOK'
  <2>1. overtaken' \in BOOLEAN /\ inFlight' \in BOOLEAN
    BY DEF CheckBegins, Undelivered
  <2> QED
    BY <1>1, <1>3, <1>4, <1>6, <2>1 DEF TypeOK, StepsTyped, CheckBegins
<1>8. At(t, "join")'
  BY <1>2, <1>3 DEF At
<1>9. FlightInv'
  BY <1>8 DEF FlightInv
<1>10. AskInv'
  <2> SUFFICES ASSUME NEW d \in Devices
               PROVE  (Questions(d) <= pairings[d])'
    BY DEF AskInv
  <2>1. /\ WantLeft(d)' => WantLeft(d)
        /\ \A u \in Threads : AskLeft(u, d)' => AskLeft(u, d)
    BY <1>1, <1>2, LedToWant
  <2>2. /\ One(WantLeft(d))' <= One(WantLeft(d))
        /\ One(AskLeft("ui", d))' <= One(AskLeft("ui", d))
        /\ One(AskLeft("hour", d))' <= One(AskLeft("hour", d))
    BY <2>1 DEF One, Threads
  <2>3. /\ One(d \in wanted)' = One(d \in wanted) /\ One(CheckAsks(d))' = One(CheckAsks(d))
        /\ pairings'[d] = pairings[d]
    BY DEF CheckBegins, CheckAsks
  <2>4. prompted'[d] + Asked(posted', d) = prompted[d] + Asked(posted, d)
    <3>1. One(d \in {}) = 0
      BY DEF One
    <3>2. prompted[d] \in Nat /\ Asked(posted, d) \in Nat
      BY <1>1, QuestionParts
    <3> QED
      BY <1>6, <3>1, <3>2
  <2>5. /\ prompted[d] \in Nat /\ Asked(posted, d) \in Nat /\ pairings[d] \in Nat
        /\ prompted'[d] \in Nat /\ Asked(posted', d) \in Nat
        /\ One(CheckAsks(d)) \in {0, 1} /\ One(d \in wanted) \in {0, 1}
        /\ One(WantLeft(d)) \in {0, 1} /\ One(WantLeft(d))' \in {0, 1}
        /\ One(AskLeft("ui", d)) \in {0, 1} /\ One(AskLeft("ui", d))' \in {0, 1}
        /\ One(AskLeft("hour", d)) \in {0, 1} /\ One(AskLeft("hour", d))' \in {0, 1}
    BY <1>1, <1>7, QuestionParts, QuestionPartsAfter
  <2>6. prompted'[d] + Asked(posted', d) + One(CheckAsks(d))' + One(AskLeft("ui", d))'
           + One(AskLeft("hour", d))' + One(d \in wanted)' + One(WantLeft(d))' + pairings[d]
         <= prompted[d] + Asked(posted, d) + One(CheckAsks(d)) + One(AskLeft("ui", d))
           + One(AskLeft("hour", d)) + One(d \in wanted) + One(WantLeft(d)) + pairings'[d]
    BY <2>2, <2>3, <2>4, <2>5
  <2> QED
    BY <1>1, <1>7, <2>6, AskMoved DEF FInv
<1>11. SnapshotInv'
  <2>1. Refreshing'
    BY <1>8 DEF Refreshing
  <2>2. ASSUME ~overtaken'
        PROVE  OneUnderWay'
    <3>1. /\ posted = <<>> /\ check.pc # "publish"
          /\ \A u \in Threads : ~At(u, "publish")
      BY <2>2 DEF CheckBegins, Undelivered
    <3>2. \A u \in Threads : ~At(u, "publish")'
      BY <1>2, <1>3, <3>1 DEF At
    <3>3. Len(posted') <= 1
      <4>1. CASE t = "ui"
        BY <1>6, <3>1, <4>1
      <4>2. CASE t # "ui"
        <5>1. posted' = Append(<<>>, Publish(snapshot, {}))
          BY <1>6, <3>1, <4>2
        <5> QED
          BY <5>1
      <4> QED
        BY <4>1, <4>2
    <3>4. check' = check
      BY DEF CheckBegins
    <3> QED
      BY <3>1, <3>2, <3>3, <3>4 DEF OneUnderWay, Threads
  <2> QED
    BY <2>1, <2>2 DEF SnapshotInv
<1> QED
  BY <1>3, <1>7, <1>9, <1>10, <1>11 DEF FInv

LEMMA ThreadStartsStep ==
  ASSUME FInv, NEW t \in Threads, ThreadStarts(t)
  PROVE  FInv'
<1> USE DEF history
<1>1. /\ todo[t] # <<>> /\ StepsTyped /\ ShapeInv /\ Then(t, <<>>)
      /\ ~At(t, "publish") /\ check.pc # "publish"
  BY DEF FInv, TypeOK, StepsTyped, ThreadStarts, At
<1>2. check' = [pc |-> "fetching"]
  BY DEF ThreadStarts
<1>3. TypeOK'
  BY <1>1, <1>2, StepDone DEF FInv, TypeOK, StepsTyped, ThreadStarts
<1>4. ShapeInv' /\ FlightInv'
  BY <1>1, <1>2, StepDone DEF FlightInv
<1>5. AskInv'
  <2>1. \A d \in Devices : /\ WantLeft(d)' => WantLeft(d)
                           /\ \A u \in Threads : AskLeft(u, d)' => AskLeft(u, d)
    BY <1>1, StepDoneWant
  <2> QED
    BY <1>2, <1>3, <2>1, AskKept DEF FInv, ThreadStarts, CheckAsks
<1>6. SnapshotInv'
  <2>1. \A u \in Threads : /\ At(u, "publish")' <=> At(u, "publish")
                           /\ At(u, "publish") => Head(todo'[u]) = Head(todo[u])
    BY <1>1, StepDone DEF At
  <2>2. Refreshing'
    BY <1>2 DEF Refreshing
  <2> QED
    BY <1>1, <1>2, <2>1, <2>2, SnapshotKept DEF FInv, ThreadStarts
<1> QED
  BY <1>3, <1>4, <1>5, <1>6 DEF FInv

\* Who is asked about with a snapshot is wanted no longer.
LEMMA SnapshotTaken ==
  ASSUME TypeOK, TakeSnapshot
  PROVE  LET asks == {d \in wanted : Available(d)}
         IN  /\ info' = RefreshedInfo /\ RefreshedInfo \in Snapshots
             /\ wanted' \subseteq Devices /\ asks \in SUBSET Devices
             /\ overtaken' \in BOOLEAN /\ overtaken' = Undelivered
             /\ \A d \in Devices : One(d \in asks) + One(d \in wanted') <= One(d \in wanted)
<1> DEFINE asks == {d \in wanted : Available(d)}
<1>1. ASSUME NEW d \in Devices
      PROVE  One(d \in asks) + One(d \in wanted') <= One(d \in wanted)
  <2>1. d \in asks => d \in wanted /\ d \notin wanted'
    BY RefreshedType DEF TakeSnapshot, Decided
  <2>2. d \in wanted' => d \in wanted
    BY DEF TakeSnapshot
  <2> QED
    BY <2>1, <2>2 DEF One
<1> QED
  BY <1>1, RefreshedType DEF TypeOK, TakeSnapshot, Undelivered

LEMMA RefreshStep ==
  ASSUME FInv, NEW t \in Threads, RefreshFirmwareAvailability(t)
  PROVE  FInv'
<1> DEFINE asks == {d \in wanted : Available(d)}
           next == Publish(RefreshedInfo, asks)
<1>1. /\ todo[t] # <<>> /\ TypeOK /\ StepsTyped /\ ShapeInv /\ Then(t, <<next>>)
      /\ ~At(t, "want") /\ ~At(t, "join") /\ ~At(t, "publish") /\ TakeSnapshot
  BY DEF FInv, TypeOK, StepsTyped, RefreshFirmwareAvailability, At
<1>2. /\ info' = RefreshedInfo /\ RefreshedInfo \in Snapshots
      /\ wanted' \subseteq Devices /\ asks \in SUBSET Devices
      /\ overtaken' \in BOOLEAN /\ overtaken' = Undelivered
      /\ \A d \in Devices : One(d \in asks) + One(d \in wanted') <= One(d \in wanted)
  BY <1>1, SnapshotTaken
<1>3. /\ next \in Steps /\ next.op = "publish" /\ next.prompts = asks
      /\ next.info = RefreshedInfo
  BY <1>2 DEF Publish, Publishing, Steps
<1> HIDE DEF asks, next
<1>4. /\ StepsTyped' /\ ShapeInv' /\ todo'[t] # <<>> /\ Head(todo'[t]) = next
      /\ \A u \in Threads : u # t => todo'[u] = todo[u]
  BY <1>1, <1>3, LedTo
<1>5. TypeOK'
  BY <1>1, <1>2, <1>4 DEF TypeOK, StepsTyped, RefreshFirmwareAvailability
<1>6. FlightInv'
  BY <1>1, <1>4 DEF FInv, FlightInv, At, RefreshFirmwareAvailability
<1>7. AskInv'
  <2> SUFFICES ASSUME NEW d \in Devices
               PROVE  (Questions(d) <= pairings[d])'
    BY DEF AskInv
  <2>1. /\ WantLeft(d)' => WantLeft(d)
        /\ \A u \in Threads : u # t => (AskLeft(u, d)' <=> AskLeft(u, d))
        /\ AskLeft(t, d)' <=> d \in asks
    BY <1>1, <1>3, LedToWant
  <2>2. One(WantLeft(d))' <= One(WantLeft(d))
    BY <2>1 DEF One
  <2>3. One(AskLeft("ui", d))' + One(AskLeft("hour", d))'
          = One(AskLeft("ui", d)) + One(AskLeft("hour", d)) + One(d \in asks)
    <3>1. ~AskLeft(t, d)
      BY <1>1 DEF AskLeft
    <3>2. CASE t = "ui"
      BY <2>1, <3>1, <3>2 DEF One, Threads
    <3>3. CASE t = "hour"
      BY <2>1, <3>1, <3>3 DEF One, Threads
    <3> QED
      BY <3>2, <3>3 DEF Threads
  <2>4. One(d \in asks) + One(d \in wanted)' <= One(d \in wanted) /\ One(d \in asks) \in {0, 1}
    BY <1>2 DEF One
  <2>5. /\ One(CheckAsks(d))' = One(CheckAsks(d)) /\ pairings'[d] = pairings[d]
        /\ prompted'[d] = prompted[d] /\ Asked(posted', d) = Asked(posted, d)
    BY DEF RefreshFirmwareAvailability, CheckAsks
  <2>6. /\ prompted[d] \in Nat /\ Asked(posted, d) \in Nat /\ pairings[d] \in Nat
        /\ prompted'[d] \in Nat /\ Asked(posted', d) \in Nat
        /\ One(CheckAsks(d)) \in {0, 1} /\ One(d \in wanted) \in {0, 1}
        /\ One(d \in wanted)' \in {0, 1}
        /\ One(WantLeft(d)) \in {0, 1} /\ One(WantLeft(d))' \in {0, 1}
        /\ One(AskLeft("ui", d)) \in {0, 1} /\ One(AskLeft("ui", d))' \in {0, 1}
        /\ One(AskLeft("hour", d)) \in {0, 1} /\ One(AskLeft("hour", d))' \in {0, 1}
    BY <1>1, <1>5, QuestionParts, QuestionPartsAfter
  <2>7. prompted'[d] + Asked(posted', d) + One(CheckAsks(d))' + One(AskLeft("ui", d))'
           + One(AskLeft("hour", d))' + One(d \in wanted)' + One(WantLeft(d))' + pairings[d]
         <= prompted[d] + Asked(posted, d) + One(CheckAsks(d)) + One(AskLeft("ui", d))
           + One(AskLeft("hour", d)) + One(d \in wanted) + One(WantLeft(d)) + pairings'[d]
    BY <2>2, <2>3, <2>4, <2>5, <2>6
  <2> QED
    BY <1>1, <1>5, <2>7, AskMoved DEF FInv
<1>8. SnapshotInv'
  <2> SUFFICES ASSUME ~overtaken'
               PROVE  OneUnderWay' /\ NewestIsInfo'
    BY DEF SnapshotInv
  <2>1. /\ posted' = <<>> /\ check'.pc # "publish"
        /\ \A u \in Threads : ~At(u, "publish")
    BY <1>2 DEF Undelivered, RefreshFirmwareAvailability
  <2>2. \A u \in Threads : At(u, "publish")' => u = t
    BY <1>4, <2>1 DEF At
  <2>3. At(t, "publish")'
    BY <1>3, <1>4 DEF At
  <2>4. OneUnderWay'
    BY <2>1, <2>2 DEF OneUnderWay, Threads
  <2>5. NewestIsInfo'
    BY <1>2, <1>3, <1>4, <2>1, <2>2, <2>3 DEF NewestIsInfo, Undelivered
  <2> QED
    BY <2>4, <2>5
<1> QED
  BY <1>4, <1>5, <1>6, <1>7, <1>8 DEF FInv

LEMMA PublishSnapshotStep ==
  ASSUME FInv, NEW t \in Threads, PublishSnapshot(t)
  PROVE  FInv'
<1> DEFINE it == Head(todo[t])
<1>1. /\ todo[t] # <<>> /\ TypeOK /\ StepsTyped /\ ShapeInv /\ Then(t, <<>>)
      /\ ~At(t, "want") /\ ~At(t, "join") /\ ~At(t, "refresh") /\ ~At(t, "check")
      /\ At(t, "publish") /\ Deliver(t, it.info, it.prompts)
  BY DEF FInv, TypeOK, StepsTyped, PublishSnapshot, At
<1>2. it.info \in Snapshots /\ it.prompts \in SUBSET Devices
  <2>1. it \in Steps /\ it.op = "publish"
    BY <1>1 DEF StepsTyped, At
  <2>2. it \in Publishing
    BY <2>1 DEF Steps, Publishing
  <2> QED
    BY <2>2 DEF Publishing
<1> HIDE DEF it
<1>3. /\ shown' \in Snapshots /\ posted' \in Seq(Publishing)
      /\ prompted' \in [Devices -> Nat]
      /\ \A d \in Devices : prompted'[d] + Asked(posted', d)
                             = prompted[d] + Asked(posted, d) + One(d \in it.prompts)
      /\ t = "ui" => shown' = it.info /\ posted' = posted
      /\ t # "ui" => shown' = shown /\ posted' = Append(posted, Publish(it.info, it.prompts))
  BY <1>1, <1>2, Delivered
<1>4. /\ StepsTyped' /\ ShapeInv'
      /\ \A u \in Threads : u # t => todo'[u] = todo[u]
      /\ ~At(t, "publish")' /\ ~At(t, "join")'
  BY <1>1, StepDone
<1>5. UNCHANGED <<coordinatorVars, inputs, faults, overtaken, pairings>>
  BY DEF PublishSnapshot
<1>6. TypeOK'
  BY <1>1, <1>3, <1>4, <1>5 DEF TypeOK, StepsTyped, coordinatorVars
<1>7. FlightInv'
  BY <1>1, <1>4, <1>5 DEF FInv, FlightInv, At, coordinatorVars
<1>8. AskInv'
  <2> SUFFICES ASSUME NEW d \in Devices
               PROVE  (Questions(d) <= pairings[d])'
    BY DEF AskInv
  <2>1. /\ WantLeft(d)' => WantLeft(d)
        /\ \A u \in Threads : u # t => (AskLeft(u, d)' <=> AskLeft(u, d))
        /\ ~AskLeft(t, d)'
    BY <1>1, StepDoneWant
  <2>2. One(WantLeft(d))' <= One(WantLeft(d))
    BY <2>1 DEF One
  <2>3. One(AskLeft("ui", d))' + One(AskLeft("hour", d))' + One(d \in it.prompts)
          = One(AskLeft("ui", d)) + One(AskLeft("hour", d))
    <3>1. AskLeft(t, d) <=> d \in it.prompts
      BY <1>1 DEF AskLeft, it
    <3>2. CASE t = "ui"
      BY <2>1, <3>1, <3>2 DEF One, Threads
    <3>3. CASE t = "hour"
      BY <2>1, <3>1, <3>3 DEF One, Threads
    <3> QED
      BY <3>2, <3>3 DEF Threads
  <2>4. One(d \in it.prompts) \in {0, 1}
        /\ prompted'[d] + Asked(posted', d) = prompted[d] + Asked(posted, d) + One(d \in it.prompts)
    BY <1>3 DEF One
  <2>5. /\ One(CheckAsks(d))' = One(CheckAsks(d)) /\ pairings'[d] = pairings[d]
        /\ One(d \in wanted)' = One(d \in wanted)
    BY <1>5 DEF coordinatorVars, CheckAsks
  <2>6. /\ prompted[d] \in Nat /\ Asked(posted, d) \in Nat /\ pairings[d] \in Nat
        /\ prompted'[d] \in Nat /\ Asked(posted', d) \in Nat
        /\ One(CheckAsks(d)) \in {0, 1} /\ One(d \in wanted) \in {0, 1}
        /\ One(d \in wanted)' \in {0, 1}
        /\ One(WantLeft(d)) \in {0, 1} /\ One(WantLeft(d))' \in {0, 1}
        /\ One(AskLeft("ui", d)) \in {0, 1} /\ One(AskLeft("ui", d))' \in {0, 1}
        /\ One(AskLeft("hour", d)) \in {0, 1} /\ One(AskLeft("hour", d))' \in {0, 1}
    BY <1>1, <1>6, QuestionParts, QuestionPartsAfter
  <2>7. prompted'[d] + Asked(posted', d) + One(CheckAsks(d))' + One(AskLeft("ui", d))'
           + One(AskLeft("hour", d))' + One(d \in wanted)' + One(WantLeft(d))' + pairings[d]
         <= prompted[d] + Asked(posted, d) + One(CheckAsks(d)) + One(AskLeft("ui", d))
           + One(AskLeft("hour", d)) + One(d \in wanted) + One(WantLeft(d)) + pairings'[d]
    BY <2>2, <2>3, <2>4, <2>5, <2>6
  <2> QED
    BY <1>1, <1>6, <2>7, AskMoved DEF FInv
<1>9. SnapshotInv'
  <2> SUFFICES ASSUME ~overtaken'
               PROVE  OneUnderWay' /\ (Refreshing' \/ NewestIsInfo')
    BY DEF SnapshotInv
  <2>1. OneUnderWay /\ (Refreshing \/ NewestIsInfo)
    BY <1>5 DEF FInv, SnapshotInv
  <2>2. posted = <<>> /\ check.pc # "publish" /\ \A u \in Threads : u # t => ~At(u, "publish")
    BY <1>1, <2>1 DEF OneUnderWay, Threads
  <2>3. check'.pc # "publish" /\ \A u \in Threads : ~At(u, "publish")'
    BY <1>4, <1>5, <2>2 DEF At, coordinatorVars
  <2>4. OneUnderWay'
    <3>1. CASE t = "ui"
      BY <1>3, <2>2, <2>3, <3>1 DEF OneUnderWay, Threads
    <3>2. CASE t # "ui"
      <4>1. posted' = Append(<<>>, Publish(it.info, it.prompts))
        BY <1>3, <2>2, <3>2
      <4>2. Len(posted') <= 1
        BY <4>1
      <4> QED
        BY <2>3, <4>2 DEF OneUnderWay, Threads
    <3> QED
      BY <3>1, <3>2
  <2>5. CASE Refreshing
    <3>1. Refreshing'
      BY <1>1, <1>5, <2>5, RefreshingKept DEF coordinatorVars
    <3> QED
      BY <2>4, <3>1
  <2>6. CASE NewestIsInfo
    <3>1. it.info = info
      BY <1>1, <2>6 DEF NewestIsInfo, it
    <3>2. CASE t = "ui"
      <4>1. posted' = <<>> /\ shown' = info' /\ info' = info
        BY <1>3, <1>5, <2>2, <3>1, <3>2 DEF coordinatorVars
      <4>2. NewestIsInfo'
        BY <2>3, <4>1 DEF NewestIsInfo
      <4> QED
        BY <2>4, <4>2
    <3>3. CASE t # "ui"
      <4>1. posted' = Append(<<>>, Publish(it.info, it.prompts)) /\ info' = info
        BY <1>3, <1>5, <2>2, <3>3 DEF coordinatorVars
      <4>2. posted' # <<>> /\ posted'[1].info = info'
        BY <3>1, <4>1 DEF Publish
      <4>3. NewestIsInfo'
        BY <2>3, <4>2 DEF NewestIsInfo, Undelivered
      <4> QED
        BY <2>4, <4>3
    <3> QED
      BY <3>2, <3>3
  <2> QED
    BY <2>1, <2>5, <2>6
<1> QED
  BY <1>4, <1>6, <1>7, <1>8, <1>9 DEF FInv

-----------------------------------------------------------------------------
(***************************************************************************)
(* The UI thread.                                                          *)
(***************************************************************************)
LEMMA TailOfOne ==
  ASSUME NEW S, NEW q \in Seq(S), q # <<>>, Len(q) <= 1
  PROVE  Tail(q) = <<>> /\ Head(q) = q[1]
<1>1. Tail(q) \in Seq(S) /\ Len(Tail(q)) = Len(q) - 1 /\ Len(q) \in Nat /\ Len(q) >= 1
  OBVIOUS
<1>2. ~(Len(Tail(q)) >= 1)
  BY <1>1
<1> QED
  BY <1>1, <1>2

LEMMA UiTakesStep ==
  ASSUME FInv, UiTakes
  PROVE  FInv'
<1>1. TypeOK /\ posted \in Seq(Publishing) /\ posted # <<>>
  BY DEF FInv, TypeOK, UiTakes
<1>2. UNCHANGED <<todo, check, inFlight, manifest, fresh, info, wanted, paired, inputs, faults,
                  overtaken, pairings>>
  BY DEF UiTakes, coordinatorVars
<1>3. Head(posted) \in Publishing /\ Tail(posted) \in Seq(Publishing)
  BY <1>1
<1>4. TypeOK'
  <2>1. shown' \in Snapshots
    BY <1>3 DEF UiTakes, Publishing
  <2>2. prompted' \in [Devices -> Nat]
    BY <1>1 DEF UiTakes, TypeOK
  <2> QED
    BY <1>1, <1>2, <1>3, <2>1, <2>2 DEF UiTakes, TypeOK
<1>5. ShapeInv' /\ FlightInv'
  BY <1>2 DEF FInv, ShapeInv, FlightInv, At
<1>6. AskInv'
  <2> SUFFICES ASSUME NEW d \in Devices
               PROVE  (Questions(d) <= pairings[d])'
    BY DEF AskInv
  <2>1. Asked(posted, d) = Asked(posted', d) + One(d \in Head(posted).prompts)
    BY <1>1, AskedTail DEF UiTakes
  <2>2. prompted'[d] = prompted[d] + One(d \in Head(posted).prompts)
    BY DEF UiTakes, One
  <2>3. /\ One(CheckAsks(d))' = One(CheckAsks(d)) /\ One(AskLeft("ui", d))' = One(AskLeft("ui", d))
        /\ One(AskLeft("hour", d))' = One(AskLeft("hour", d))
        /\ One(d \in wanted)' = One(d \in wanted) /\ One(WantLeft(d))' = One(WantLeft(d))
        /\ pairings'[d] = pairings[d]
    BY <1>2 DEF CheckAsks, AskLeft, WantLeft, At
  <2>4. /\ prompted[d] \in Nat /\ Asked(posted, d) \in Nat /\ pairings[d] \in Nat
        /\ prompted'[d] \in Nat /\ Asked(posted', d) \in Nat
        /\ One(d \in Head(posted).prompts) \in {0, 1}
        /\ One(CheckAsks(d)) \in {0, 1} /\ One(d \in wanted) \in {0, 1}
        /\ One(WantLeft(d)) \in {0, 1}
        /\ One(AskLeft("ui", d)) \in {0, 1} /\ One(AskLeft("hour", d)) \in {0, 1}
    BY <1>1, <1>4, QuestionParts, QuestionPartsAfter DEF One
  <2>5. prompted'[d] + Asked(posted', d) + One(CheckAsks(d))' + One(AskLeft("ui", d))'
           + One(AskLeft("hour", d))' + One(d \in wanted)' + One(WantLeft(d))' + pairings[d]
         <= prompted[d] + Asked(posted, d) + One(CheckAsks(d)) + One(AskLeft("ui", d))
           + One(AskLeft("hour", d)) + One(d \in wanted) + One(WantLeft(d)) + pairings'[d]
    BY <2>1, <2>2, <2>3, <2>4
  <2> QED
    BY <1>1, <1>4, <2>5, AskMoved DEF FInv
<1>7. SnapshotInv'
  <2> SUFFICES ASSUME ~overtaken
               PROVE  OneUnderWay' /\ (Refreshing' \/ NewestIsInfo')
    BY <1>2 DEF SnapshotInv
  <2>1. OneUnderWay /\ (Refreshing \/ NewestIsInfo)
    BY DEF FInv, SnapshotInv
  <2>2. posted' = <<>> /\ Head(posted) = posted[1]
    BY <1>1, <2>1, TailOfOne DEF OneUnderWay, UiTakes
  <2>3. OneUnderWay'
    BY <1>2, <2>1, <2>2 DEF OneUnderWay, At
  <2>4. Refreshing => Refreshing'
    BY <1>2 DEF Refreshing, At
  <2>5. NewestIsInfo => NewestIsInfo'
    BY <1>2, <2>2 DEF NewestIsInfo, UiTakes, At
  <2> QED
    BY <2>1, <2>3, <2>4, <2>5
<1> QED
  BY <1>4, <1>5, <1>6, <1>7 DEF FInv

LEMMA UpdateDeviceFirmwareInfoStep ==
  ASSUME FInv, UpdateDeviceFirmwareInfo
  PROVE  FInv'
<1> USE DEF history
<1>1. /\ todo["ui"] # <<>> /\ TypeOK /\ StepsTyped /\ ShapeInv /\ Then("ui", <<>>)
      /\ At("ui", "info") /\ ~At("ui", "publish") /\ ~At("ui", "join") /\ "ui" \in Threads
  BY DEF FInv, TypeOK, StepsTyped, UpdateDeviceFirmwareInfo, At, Threads
<1>2. /\ StepsTyped' /\ ShapeInv'
      /\ \A u \in Threads : u # "ui" => todo'[u] = todo[u]
      /\ Len(todo'["ui"]) = Len(todo["ui"]) - 1
      /\ ~At("ui", "publish")' /\ ~At("ui", "join")'
      /\ todo'["ui"] # <<>> => \E i \in 1..Len(todo'["ui"]) : todo'["ui"][i].op = "refresh"
  BY <1>1, StepDone
<1>3. info' \in Snapshots
  <2>1. Head(todo["ui"]) \in Steps /\ Head(todo["ui"]).op = "info"
    BY <1>1 DEF StepsTyped, At
  <2>2. Head(todo["ui"]).device \in Devices /\ Head(todo["ui"]).version \in Versions
    BY <2>1 DEF Steps, Publishing
  <2>3. PICK d \in Devices, version \in Versions :
          info' = [info EXCEPT ![d].known = TRUE, ![d].current = version, ![d].failed = FALSE]
    BY <2>2 DEF UpdateDeviceFirmwareInfo
  <2>4. ASSUME NEW e \in Devices
        PROVE  info'[e] \in [known : BOOLEAN, current : Versions, latest : Versions,
                             available : BOOLEAN, checking : BOOLEAN, failed : BOOLEAN]
    <3>1. info \in Snapshots
      BY <1>1 DEF TypeOK
    <3>2. info'[e] = IF e = d THEN [info[d] EXCEPT !.known = TRUE, !.current = version,
                                                   !.failed = FALSE]
                     ELSE info[e]
      BY <2>3, <3>1 DEF Snapshots
    <3> QED
      BY <3>1, <3>2 DEF Snapshots
  <2> QED
    BY <1>1, <2>3, <2>4 DEF TypeOK, Snapshots
<1>4. TypeOK'
  BY <1>1, <1>2, <1>3 DEF TypeOK, StepsTyped, UpdateDeviceFirmwareInfo
<1>5. FlightInv'
  BY <1>1, <1>2 DEF FInv, FlightInv, At, UpdateDeviceFirmwareInfo
<1>6. AskInv'
  <2>1. \A d \in Devices : /\ WantLeft(d)' => WantLeft(d)
                           /\ \A u \in Threads : AskLeft(u, d)' => AskLeft(u, d)
    BY <1>1, StepDoneWant
  <2> QED
    BY <1>4, <2>1, AskKept DEF FInv, UpdateDeviceFirmwareInfo, CheckAsks
<1>7. SnapshotInv'
  <2>1. \A u \in Threads : /\ At(u, "publish")' <=> At(u, "publish")
                           /\ At(u, "publish") => Head(todo'[u]) = Head(todo[u])
    BY <1>1, <1>2 DEF At
  <2>2. Refreshing'
    <3>1. Len(todo["ui"]) = 2
      BY <1>1 DEF ShapeInv
    <3>2. todo'["ui"] # <<>>
      BY <1>2, <3>1
    <3> QED
      BY <1>1, <1>2, <3>2 DEF Refreshing
  <2> QED
    BY <2>1, <2>2, SnapshotKept DEF FInv, UpdateDeviceFirmwareInfo
<1> QED
  BY <1>2, <1>4, <1>5, <1>6, <1>7 DEF FInv

LEMMA CheckFirmwareAfterPairingStep ==
  ASSUME FInv, CheckFirmwareAfterPairing
  PROVE  FInv'
<1> USE DEF history
<1> DEFINE device == Head(todo["ui"]).device
<1>1. /\ todo["ui"] # <<>> /\ TypeOK /\ StepsTyped /\ ShapeInv /\ Then("ui", <<>>)
      /\ At("ui", "want") /\ ~At("ui", "publish") /\ ~At("ui", "join") /\ ~At("ui", "refresh")
      /\ ~At("ui", "check") /\ "ui" \in Threads
  BY DEF FInv, TypeOK, StepsTyped, CheckFirmwareAfterPairing, At, Threads
<1>2. /\ StepsTyped' /\ ShapeInv'
      /\ \A u \in Threads : u # "ui" => todo'[u] = todo[u]
      /\ ~At("ui", "publish")' /\ ~At("ui", "join")'
  BY <1>1, StepDone
<1>3. device \in Devices /\ WantLeft(device)
  <2>1. Head(todo["ui"]) \in Steps /\ Head(todo["ui"]).op = "want"
    BY <1>1 DEF StepsTyped, At
  <2>2. todo["ui"] \in Seq(Steps)
    BY <1>1 DEF StepsTyped
  <2>3. 1 \in 1..Len(todo["ui"]) /\ todo["ui"][1] = Head(todo["ui"])
    BY <1>1, <2>2
  <2> QED
    BY <2>1, <2>3 DEF Steps, Publishing, WantLeft
<1>4. wanted' = wanted \union {device}
  BY DEF CheckFirmwareAfterPairing
<1> HIDE DEF device
<1>5. TypeOK'
  BY <1>1, <1>2, <1>3, <1>4 DEF TypeOK, StepsTyped, CheckFirmwareAfterPairing
<1>6. FlightInv'
  BY <1>1, <1>2 DEF FInv, FlightInv, At, CheckFirmwareAfterPairing
<1>7. AskInv'
  <2> SUFFICES ASSUME NEW d \in Devices
               PROVE  (Questions(d) <= pairings[d])'
    BY DEF AskInv
  <2>1. ~WantLeft(d)' /\ \A u \in Threads : AskLeft(u, d)' => AskLeft(u, d)
    BY <1>1, StepDoneWant
  <2>2. /\ One(AskLeft("ui", d))' <= One(AskLeft("ui", d))
        /\ One(AskLeft("hour", d))' <= One(AskLeft("hour", d))
    BY <2>1 DEF One, Threads
  <2>3. One(d \in wanted)' + One(WantLeft(d))' <= One(d \in wanted) + One(WantLeft(d))
    BY <1>3, <1>4, <2>1 DEF One
  <2>4. /\ One(CheckAsks(d))' = One(CheckAsks(d)) /\ pairings'[d] = pairings[d]
        /\ prompted'[d] = prompted[d] /\ Asked(posted', d) = Asked(posted, d)
    BY DEF CheckFirmwareAfterPairing, CheckAsks
  <2>5. /\ prompted[d] \in Nat /\ Asked(posted, d) \in Nat /\ pairings[d] \in Nat
        /\ One(CheckAsks(d)) \in {0, 1} /\ One(d \in wanted) \in {0, 1}
        /\ One(d \in wanted)' \in {0, 1}
        /\ One(WantLeft(d)) \in {0, 1} /\ One(WantLeft(d))' \in {0, 1}
        /\ One(AskLeft("ui", d)) \in {0, 1} /\ One(AskLeft("ui", d))' \in {0, 1}
        /\ One(AskLeft("hour", d)) \in {0, 1} /\ One(AskLeft("hour", d))' \in {0, 1}
    BY <1>1, <1>5, QuestionParts, QuestionPartsAfter
  <2>6. prompted'[d] + Asked(posted', d) + One(CheckAsks(d))' + One(AskLeft("ui", d))'
           + One(AskLeft("hour", d))' + One(d \in wanted)' + One(WantLeft(d))' + pairings[d]
         <= prompted[d] + Asked(posted, d) + One(CheckAsks(d)) + One(AskLeft("ui", d))
           + One(AskLeft("hour", d)) + One(d \in wanted) + One(WantLeft(d)) + pairings'[d]
    BY <2>2, <2>3, <2>4, <2>5
  <2> QED
    BY <1>1, <1>5, <2>6, AskMoved DEF FInv
<1>8. SnapshotInv'
  <2>1. \A u \in Threads : /\ At(u, "publish")' <=> At(u, "publish")
                           /\ At(u, "publish") => Head(todo'[u]) = Head(todo[u])
    BY <1>1, <1>2 DEF At
  <2>2. Refreshing => Refreshing'
    BY <1>1, RefreshingKept DEF CheckFirmwareAfterPairing
  <2> QED
    BY <2>1, <2>2, SnapshotKept DEF FInv, CheckFirmwareAfterPairing
<1> QED
  BY <1>2, <1>5, <1>6, <1>7, <1>8 DEF FInv

-----------------------------------------------------------------------------
(***************************************************************************)
(* The thread of the check.                                                *)
(***************************************************************************)
\* A step of the check that leaves the lists alone and asks nothing.
LEMMA CheckMoves ==
  ASSUME FInv, TypeOK', UNCHANGED <<todo, wanted, posted, prompted, pairings, overtaken>>,
         check.pc # "publish", check'.pc # "publish", Refreshing',
         inFlight' => check'.pc \in {"fetching", "apply"} \/ \E t \in Threads : At(t, "join")
  PROVE  FInv'
<1>1. ShapeInv' /\ FlightInv'
  BY DEF FInv, ShapeInv, FlightInv, At
<1>2. AskInv'
  <2>1. \A d \in Devices : /\ WantLeft(d)' <=> WantLeft(d)
                           /\ \A t \in Threads : AskLeft(t, d)' <=> AskLeft(t, d)
    BY DEF WantLeft, AskLeft, At
  <2> QED
    BY <2>1, AskKept DEF FInv, CheckAsks
<1>3. SnapshotInv'
  BY SnapshotKept DEF FInv, At
<1> QED
  BY <1>1, <1>2, <1>3 DEF FInv

LEMMA FetchedStep ==
  ASSUME FInv, NEW version \in Versions, Fetched(version), faults' \in 0..MaxFaults
  PROVE  FInv'
<1> USE DEF history
<1>1. TypeOK /\ check.pc = "fetching" /\ check' = [pc |-> "apply", version |-> version]
  BY DEF FInv, Fetched
<1>2. TypeOK'
  BY <1>1 DEF TypeOK, Fetched
<1>3. Refreshing'
  BY <1>1 DEF Refreshing
<1> QED
  BY <1>1, <1>2, <1>3, CheckMoves DEF Fetched

LEMMA CheckAppliedStep ==
  ASSUME FInv, CheckApplied
  PROVE  FInv'
<1> USE DEF history
<1>1. TypeOK /\ check.pc = "apply" /\ check' = [pc |-> "refresh"] /\ ~inFlight'
  BY DEF FInv, CheckApplied, NoLongerInFlight
<1>2. check.version \in Versions
  BY <1>1 DEF TypeOK
<1>3. manifest' \in Versions /\ fresh' \in BOOLEAN
  BY <1>1, <1>2 DEF TypeOK, CheckApplied
<1>4. info' \in Snapshots
  <2>1. info' = [d \in Devices |->
                   [info[d] EXCEPT !.checking = FALSE,
                                   !.failed = IF check.version = NoVersion
                                              THEN info[d].failed \/ (info[d].known /\ d \in paired)
                                              ELSE FALSE]]
    <3>1. \A d \in Devices : info[d] \in [known : BOOLEAN, current : Versions, latest : Versions,
                                          available : BOOLEAN, checking : BOOLEAN, failed : BOOLEAN]
      BY <1>1 DEF TypeOK, Snapshots
    <3> QED
      BY <3>1 DEF CheckApplied
  <2>2. ASSUME NEW d \in Devices
        PROVE  info'[d] \in [known : BOOLEAN, current : Versions, latest : Versions,
                             available : BOOLEAN, checking : BOOLEAN, failed : BOOLEAN]
    <3>1. (IF check.version = NoVersion THEN info[d].failed \/ (info[d].known /\ d \in paired)
           ELSE FALSE) \in BOOLEAN
      BY Zenon
    <3> QED
      BY <1>1, <2>1, <3>1 DEF TypeOK, Snapshots
  <2> QED
    BY <2>1, <2>2 DEF Snapshots
<1>5. /\ UNCHANGED <<todo, wanted, paired, shown, posted, inputs, faults, overtaken, pairings, prompted>>
      /\ inFlight' = FALSE
  BY DEF CheckApplied, NoLongerInFlight
<1>6. TypeOK'
  BY <1>1, <1>3, <1>4, <1>5 DEF TypeOK
<1>7. Refreshing'
  BY <1>1 DEF Refreshing
<1> QED
  BY <1>1, <1>5, <1>6, <1>7, CheckMoves

LEMMA CheckRefreshesStep ==
  ASSUME FInv, CheckRefreshes
  PROVE  FInv'
<1> DEFINE asks == {d \in wanted : Available(d)}
<1>1. /\ TypeOK /\ TakeSnapshot /\ check.pc = "refresh"
      /\ check' = [pc |-> "publish", info |-> RefreshedInfo, prompts |-> asks]
  BY DEF FInv, CheckRefreshes
<1>2. /\ info' = RefreshedInfo /\ RefreshedInfo \in Snapshots
      /\ wanted' \subseteq Devices /\ asks \in SUBSET Devices
      /\ overtaken' \in BOOLEAN /\ overtaken' = Undelivered
      /\ \A d \in Devices : One(d \in asks) + One(d \in wanted') <= One(d \in wanted)
  BY <1>1, SnapshotTaken
<1> HIDE DEF asks
<1>3. UNCHANGED <<todo, inFlight, manifest, fresh, paired, shown, posted, inputs, faults,
                  pairings, prompted>>
  BY DEF CheckRefreshes
<1>4. TypeOK'
  <2>1. check' \in [pc : {"publish"}, info : Snapshots, prompts : SUBSET Devices]
    BY <1>1, <1>2
  <2> QED
    BY <1>1, <1>2, <1>3, <2>1 DEF TypeOK
<1>5. ShapeInv' /\ FlightInv'
  BY <1>1, <1>3 DEF FInv, ShapeInv, FlightInv, At
<1>6. AskInv'
  <2> SUFFICES ASSUME NEW d \in Devices
               PROVE  (Questions(d) <= pairings[d])'
    BY DEF AskInv
  <2>1. One(CheckAsks(d)) = 0 /\ One(CheckAsks(d))' = One(d \in asks)
    BY <1>1 DEF CheckAsks, One
  <2>2. One(d \in asks) + One(d \in wanted)' <= One(d \in wanted) /\ One(d \in asks) \in {0, 1}
    BY <1>2 DEF One
  <2>3. /\ One(WantLeft(d))' = One(WantLeft(d))
        /\ One(AskLeft("ui", d))' = One(AskLeft("ui", d))
        /\ One(AskLeft("hour", d))' = One(AskLeft("hour", d))
        /\ prompted'[d] = prompted[d] /\ Asked(posted', d) = Asked(posted, d)
        /\ pairings'[d] = pairings[d]
    BY <1>3 DEF WantLeft, AskLeft, At
  <2>4. /\ prompted[d] \in Nat /\ Asked(posted, d) \in Nat /\ pairings[d] \in Nat
        /\ One(d \in wanted) \in {0, 1} /\ One(d \in wanted)' \in {0, 1}
        /\ One(WantLeft(d)) \in {0, 1}
        /\ One(AskLeft("ui", d)) \in {0, 1} /\ One(AskLeft("hour", d)) \in {0, 1}
    BY <1>1, <1>4, QuestionParts, QuestionPartsAfter
  <2>5. prompted'[d] + Asked(posted', d) + One(CheckAsks(d))' + One(AskLeft("ui", d))'
           + One(AskLeft("hour", d))' + One(d \in wanted)' + One(WantLeft(d))' + pairings[d]
         <= prompted[d] + Asked(posted, d) + One(CheckAsks(d)) + One(AskLeft("ui", d))
           + One(AskLeft("hour", d)) + One(d \in wanted) + One(WantLeft(d)) + pairings'[d]
    BY <2>1, <2>2, <2>3, <2>4
  <2> QED
    BY <1>1, <1>4, <2>5, AskMoved DEF FInv
<1>7. SnapshotInv'
  <2> SUFFICES ASSUME ~overtaken'
               PROVE  OneUnderWay' /\ NewestIsInfo'
    BY DEF SnapshotInv
  <2>1. posted' = <<>> /\ \A u \in Threads : ~At(u, "publish")'
    BY <1>2, <1>3 DEF Undelivered, At
  <2> QED
    BY <1>1, <1>2, <2>1 DEF OneUnderWay, NewestIsInfo, Undelivered, Threads
<1> QED
  BY <1>4, <1>5, <1>6, <1>7 DEF FInv

LEMMA CheckDoneStep ==
  ASSUME FInv, CheckDone
  PROVE  FInv'
<1>1. /\ TypeOK /\ check.pc = "publish" /\ check' = [pc |-> "done"]
      /\ Deliver("check", check.info, check.prompts)
      /\ check.info \in Snapshots /\ check.prompts \in SUBSET Devices
  BY DEF FInv, TypeOK, CheckDone
<1>2. /\ shown' \in Snapshots /\ posted' \in Seq(Publishing) /\ prompted' \in [Devices -> Nat]
      /\ \A d \in Devices : prompted'[d] + Asked(posted', d)
                             = prompted[d] + Asked(posted, d) + One(d \in check.prompts)
      /\ shown' = shown /\ posted' = Append(posted, Publish(check.info, check.prompts))
  BY <1>1, Delivered
<1>3. UNCHANGED <<todo, inFlight, manifest, fresh, info, wanted, paired, inputs, faults,
                  overtaken, pairings>>
  BY DEF CheckDone
<1>4. TypeOK'
  BY <1>1, <1>2, <1>3 DEF TypeOK
<1>5. ShapeInv' /\ FlightInv'
  BY <1>1, <1>3 DEF FInv, ShapeInv, FlightInv, At
<1>6. AskInv'
  <2> SUFFICES ASSUME NEW d \in Devices
               PROVE  (Questions(d) <= pairings[d])'
    BY DEF AskInv
  <2>1. One(CheckAsks(d)) = One(d \in check.prompts) /\ One(CheckAsks(d))' = 0
    BY <1>1 DEF CheckAsks, One
  <2>2. prompted'[d] + Asked(posted', d)
          = prompted[d] + Asked(posted, d) + One(d \in check.prompts)
    BY <1>2
  <2>3. /\ One(WantLeft(d))' = One(WantLeft(d))
        /\ One(AskLeft("ui", d))' = One(AskLeft("ui", d))
        /\ One(AskLeft("hour", d))' = One(AskLeft("hour", d))
        /\ One(d \in wanted)' = One(d \in wanted) /\ pairings'[d] = pairings[d]
    BY <1>3 DEF WantLeft, AskLeft, At
  <2>4. /\ prompted[d] \in Nat /\ Asked(posted, d) \in Nat /\ pairings[d] \in Nat
        /\ prompted'[d] \in Nat /\ Asked(posted', d) \in Nat
        /\ One(d \in wanted) \in {0, 1} /\ One(WantLeft(d)) \in {0, 1}
        /\ One(CheckAsks(d)) \in {0, 1}
        /\ One(AskLeft("ui", d)) \in {0, 1} /\ One(AskLeft("hour", d)) \in {0, 1}
    BY <1>1, <1>4, QuestionParts, QuestionPartsAfter
  <2>5. prompted'[d] + Asked(posted', d) + One(CheckAsks(d))' + One(AskLeft("ui", d))'
           + One(AskLeft("hour", d))' + One(d \in wanted)' + One(WantLeft(d))' + pairings[d]
         <= prompted[d] + Asked(posted, d) + One(CheckAsks(d)) + One(AskLeft("ui", d))
           + One(AskLeft("hour", d)) + One(d \in wanted) + One(WantLeft(d)) + pairings'[d]
    BY <2>1, <2>2, <2>3, <2>4
  <2> QED
    BY <1>1, <1>4, <2>5, AskMoved DEF FInv
<1>7. SnapshotInv'
  <2> SUFFICES ASSUME ~overtaken
               PROVE  OneUnderWay' /\ (Refreshing' \/ NewestIsInfo')
    BY <1>3 DEF SnapshotInv
  <2>1. OneUnderWay /\ (Refreshing \/ NewestIsInfo)
    BY DEF FInv, SnapshotInv
  <2>2. posted = <<>> /\ \A u \in Threads : ~At(u, "publish")'
    BY <1>1, <1>3, <2>1 DEF OneUnderWay, Threads, At
  <2>3. posted' = Append(<<>>, Publish(check.info, check.prompts))
    BY <1>2, <2>2
  <2>4. OneUnderWay'
    <3>1. Len(posted') <= 1
      BY <2>3
    <3> QED
      BY <1>1, <2>2, <3>1 DEF OneUnderWay, Threads
  <2>5. Refreshing => Refreshing'
    BY <1>1, <1>3 DEF Refreshing, At
  <2>6. NewestIsInfo => NewestIsInfo'
    <3>1. posted' # <<>> /\ posted'[1].info = check.info
      BY <2>3 DEF Publish
    <3> QED
      BY <1>1, <1>3, <2>2, <3>1 DEF NewestIsInfo, Undelivered
  <2> QED
    BY <2>1, <2>4, <2>5, <2>6
<1> QED
  BY <1>4, <1>5, <1>6, <1>7 DEF FInv

-----------------------------------------------------------------------------
(***************************************************************************)
(* What comes from outside.                                                *)
(***************************************************************************)
\* A pairing adds at most one question that is yet to be asked.
Entitled == \A d \in Devices : One(WantLeft(d))' + pairings[d] <= pairings'[d]

LEMMA AskEntitled ==
  ASSUME TypeOK, TypeOK', AskInv, UNCHANGED <<posted, prompted>>, Entitled,
         \A d \in Devices : /\ CheckAsks(d)' <=> CheckAsks(d)
                            /\ AskLeft("ui", d)' <=> AskLeft("ui", d)
                            /\ AskLeft("hour", d)' <=> AskLeft("hour", d)
                            /\ d \in wanted' <=> d \in wanted
  PROVE  AskInv'
<1> SUFFICES ASSUME NEW d \in Devices
             PROVE  (Questions(d) <= pairings[d])'
  BY DEF AskInv
<1>1. /\ One(AskLeft("ui", d))' = One(AskLeft("ui", d))
      /\ One(AskLeft("hour", d))' = One(AskLeft("hour", d))
      /\ One(CheckAsks(d))' = One(CheckAsks(d)) /\ One(d \in wanted)' = One(d \in wanted)
      /\ prompted'[d] = prompted[d] /\ Asked(posted', d) = Asked(posted, d)
  BY DEF One
<1>2. One(WantLeft(d))' + pairings[d] <= pairings'[d]
  BY DEF Entitled
<1>3. /\ prompted[d] \in Nat /\ Asked(posted, d) \in Nat /\ pairings[d] \in Nat
      /\ pairings'[d] \in Nat
      /\ One(CheckAsks(d)) \in {0, 1} /\ One(d \in wanted) \in {0, 1}
      /\ One(WantLeft(d)) \in {0, 1} /\ One(WantLeft(d))' \in {0, 1}
      /\ One(AskLeft("ui", d)) \in {0, 1} /\ One(AskLeft("hour", d)) \in {0, 1}
  BY QuestionParts, QuestionPartsAfter
<1>4. prompted'[d] + Asked(posted', d) + One(CheckAsks(d))' + One(AskLeft("ui", d))'
         + One(AskLeft("hour", d))' + One(d \in wanted)' + One(WantLeft(d))' + pairings[d]
       <= prompted[d] + Asked(posted, d) + One(CheckAsks(d)) + One(AskLeft("ui", d))
         + One(AskLeft("hour", d)) + One(d \in wanted) + One(WantLeft(d)) + pairings'[d]
  BY <1>1, <1>2, <1>3
<1> QED
  BY <1>4, AskMoved

\* The UI thread, which had nothing to do, gets new steps.
LEMMA NewSteps ==
  ASSUME FInv, TypeOK', todo["ui"] = <<>>, NEW steps \in Seq(Steps), steps # <<>>,
         Head(steps).op \notin {"publish", "join"},
         todo' = [todo EXCEPT !["ui"] = steps], ShapeInv',
         UNCHANGED <<check, inFlight, info, wanted, shown, posted, overtaken, prompted>>,
         Entitled
  PROVE  FInv'
<1>1. TypeOK /\ ShapeInv /\ StepsTyped
  BY DEF FInv, TypeOK, StepsTyped
<1>2. todo'["ui"] = steps /\ todo'["hour"] = todo["hour"]
  BY <1>1 DEF StepsTyped, Threads
<1>3. \A op \in {"publish", "join"} : ~At("ui", op) /\ ~At("ui", op)'
  BY <1>2 DEF At
<1>4. \A op \in {"publish", "join"}, u \in Threads :
        /\ At(u, op)' <=> At(u, op)
        /\ At(u, op) => Head(todo'[u]) = Head(todo[u])
  BY <1>2, <1>3 DEF At, Threads
<1>5. FlightInv'
  BY <1>4 DEF FInv, FlightInv
<1>6. AskInv'
  <2>1. \A d \in Devices : /\ AskLeft("ui", d)' <=> AskLeft("ui", d)
                           /\ AskLeft("hour", d)' <=> AskLeft("hour", d)
    BY <1>2, <1>3 DEF AskLeft, At
  <2> QED
    BY <1>1, <2>1, AskEntitled DEF FInv, CheckAsks
<1>7. SnapshotInv'
  <2>1. Refreshing => Refreshing'
    <3>1. ~At("ui", "check") /\ ~At("ui", "join") /\ 1..Len(todo["ui"]) = {}
      BY DEF At
    <3>2. At("hour", "join") => At("hour", "join")'
      BY <1>2 DEF At
    <3> QED
      BY <1>2, <3>1, <3>2 DEF Refreshing, Threads
  <2> QED
    BY <1>4, <2>1, SnapshotKept DEF FInv
<1> QED
  BY <1>5, <1>6, <1>7 DEF FInv

\* The lists of steps that an event or the user gives the UI thread.
LEMMA NewStepsTyped ==
  ASSUME NEW d \in Devices, NEW version \in Versions
  PROVE  /\ Check(FALSE) \in Steps /\ Check(TRUE) \in Steps /\ Refresh \in Steps
         /\ [op |-> "info", device |-> d, version |-> version] \in Steps
         /\ [op |-> "want", device |-> d] \in Steps
BY DEF Check, Refresh, Steps

LEMMA UiGets ==
  ASSUME FInv, NEW steps \in Seq(Steps), todo' = [todo EXCEPT !["ui"] = steps]
  PROVE  /\ todo' \in [Threads -> Seq(Steps)]
         /\ todo'["ui"] = steps /\ todo'["hour"] = todo["hour"]
         /\ (Len(todo["hour"]) <= 1 /\ ~At("hour", "want") /\ ~At("hour", "info"))'
<1>1. /\ todo' \in [Threads -> Seq(Steps)]
      /\ todo'["ui"] = steps /\ todo'["hour"] = todo["hour"]
  BY DEF FInv, TypeOK, Threads
<1>2. Len(todo["hour"]) <= 1 /\ ~At("hour", "want") /\ ~At("hour", "info")
  BY Zenon DEF FInv, ShapeInv
<1> QED
  BY <1>1, <1>2 DEF At

\* A list without a pairing.
LEMMA ShortParts ==
  ASSUME NEW S, NEW s \in Seq(S), s # <<>>,
         Len(s) = 1 \/ (Len(s) = 2 /\ s[2].op = "refresh")
  PROVE  /\ Head(s) = s[1] /\ Len(s) <= 4 /\ Len(s) # 3
         /\ \A i \in 1..Len(s) : i = 1 \/ s[i].op = "refresh"
         /\ \A i \in 2..Len(s) : i = Len(s) /\ s[i].op = "refresh"
<1>1. PICK n \in Nat : n = Len(s) /\ (n = 1 \/ (n = 2 /\ s[2].op = "refresh"))
  OBVIOUS
<1>2. Head(s) = s[1]
  OBVIOUS
<1>3. n <= 4 /\ n # 3 /\ (\A i \in 1..n : i = 1 \/ i = 2) /\ (\A i \in 2..n : i = n /\ n = 2)
  <2>1. n = 1 \/ n = 2
    BY <1>1
  <2>2. CASE n = 1
    BY <2>2
  <2>3. CASE n = 2
    BY <2>3
  <2> QED
    BY <2>1, <2>2, <2>3
<1> QED
  BY <1>1, <1>2, <1>3

LEMMA ShortList ==
  ASSUME NEW s \in Seq(Steps), todo'["ui"] = s, s # <<>>, Head(s).op # "want",
         \/ Len(s) = 1 /\ Head(s).op # "info"
         \/ Len(s) = 2 /\ s[2].op = "refresh",
         (Len(todo["hour"]) <= 1 /\ ~At("hour", "want") /\ ~At("hour", "info"))'
  PROVE  ShapeInv' /\ \A e \in Devices : ~WantLeft(e)'
<1>1. /\ Head(s) = s[1] /\ Len(s) <= 4 /\ Len(s) # 3
      /\ \A i \in 1..Len(s) : i = 1 \/ s[i].op = "refresh"
      /\ \A i \in 2..Len(s) : i = Len(s) /\ s[i].op = "refresh"
  BY ShortParts
<1>2. ~At("ui", "want")' /\ (At("ui", "info")' => Len(s) = 2)
  BY DEF At
<1>3. ShapeInv'
  BY <1>1, <1>2 DEF ShapeInv
<1>4. \A e \in Devices : ~WantLeft(e)'
  BY <1>1 DEF WantLeft
<1> QED
  BY <1>3, <1>4

LEMMA DeviceInfoStep ==
  ASSUME FInv, NEW d \in Devices, NEW version \in Reported, DeviceInfo(d, version)
  PROVE  FInv'
<1> DEFINE event == [op |-> "info", device |-> d, version |-> version]
           steps == <<event, Refresh>>
<1>1. /\ todo["ui"] = <<>> /\ inputs' \in 0..MaxInputs
      /\ todo' = [todo EXCEPT !["ui"] = steps]
      /\ UNCHANGED <<coordinatorVars, shown, posted, faults, history>>
  BY FirmwareInfoAssumption DEF DeviceInfo, UiInput, Input, FInv, TypeOK
<1>2. /\ event \in Steps /\ Refresh \in Steps /\ event.op = "info" /\ Refresh.op = "refresh"
  BY NewStepsTyped DEF Versions, Refresh
<1> HIDE DEF event
<1>3. /\ steps \in Seq(Steps) /\ steps # <<>> /\ Head(steps) = event /\ Len(steps) = 2
      /\ steps[1] = event /\ steps[2] = Refresh
  BY <1>2
<1> HIDE DEF steps
<1>4. /\ todo' \in [Threads -> Seq(Steps)]
      /\ todo'["ui"] = steps /\ todo'["hour"] = todo["hour"]
      /\ (Len(todo["hour"]) <= 1 /\ ~At("hour", "want") /\ ~At("hour", "info"))'
  BY <1>1, <1>3, UiGets
<1>5. TypeOK'
  BY <1>1, <1>4 DEF FInv, TypeOK, coordinatorVars, history
<1>6. ShapeInv'
  BY <1>2, <1>3, <1>4, ShortList DEF At
<1>7. Entitled
  <2>1. \A e \in Devices : ~WantLeft(e)'
    BY <1>2, <1>3, <1>4, ShortList
  <2> QED
    BY <1>1, <2>1 DEF Entitled, One, FInv, TypeOK, history
<1> QED
  BY <1>1, <1>2, <1>3, <1>5, <1>6, <1>7, NewSteps DEF coordinatorVars, history

LEMMA ConnectionsChangedStep ==
  ASSUME FInv, ConnectionsChanged
  PROVE  FInv'
<1> DEFINE steps == <<Refresh>>
<1>1. /\ todo["ui"] = <<>> /\ inputs' \in 0..MaxInputs
      /\ todo' = [todo EXCEPT !["ui"] = steps]
      /\ UNCHANGED <<coordinatorVars, shown, posted, faults, history>>
  BY FirmwareInfoAssumption DEF ConnectionsChanged, UiInput, Input, FInv, TypeOK
<1>2. /\ Refresh \in Steps /\ Refresh.op = "refresh"
  BY DEF Refresh, Steps
<1>3. /\ steps \in Seq(Steps) /\ steps # <<>> /\ Head(steps) = Refresh /\ Len(steps) = 1
      /\ steps[1] = Refresh
  BY <1>2
<1> HIDE DEF steps
<1>4. /\ todo' \in [Threads -> Seq(Steps)]
      /\ todo'["ui"] = steps /\ todo'["hour"] = todo["hour"]
      /\ (Len(todo["hour"]) <= 1 /\ ~At("hour", "want") /\ ~At("hour", "info"))'
  BY <1>1, <1>3, UiGets
<1>5. TypeOK'
  BY <1>1, <1>4 DEF FInv, TypeOK, coordinatorVars, history
<1>6. ShapeInv'
  BY <1>2, <1>3, <1>4, ShortList DEF At
<1>7. Entitled
  <2>1. \A e \in Devices : ~WantLeft(e)'
    BY <1>2, <1>3, <1>4, ShortList
  <2> QED
    BY <1>1, <2>1 DEF Entitled, One, FInv, TypeOK, history
<1> QED
  BY <1>1, <1>2, <1>3, <1>5, <1>6, <1>7, NewSteps DEF coordinatorVars, history

LEMMA ConfigChangedStep ==
  ASSUME FInv, NEW devices \in SUBSET Devices, ConfigChanged(devices)
  PROVE  FInv'
<1> DEFINE ask == Check(FALSE)
           steps == <<ask>>
<1>1. /\ todo["ui"] = <<>> /\ inputs' \in 0..MaxInputs
      /\ todo' = [todo EXCEPT !["ui"] = steps]
      /\ paired' = devices
      /\ UNCHANGED <<check, inFlight, manifest, fresh, info, wanted, shown, posted, faults, history>>
  BY FirmwareInfoAssumption DEF ConfigChanged, UiInput, Input, FInv, TypeOK
<1>2. ask \in Steps /\ ask.op = "check"
  BY DEF Check, Steps
<1> HIDE DEF ask
<1>3. /\ steps \in Seq(Steps) /\ steps # <<>> /\ Head(steps) = ask /\ Len(steps) = 1
      /\ steps[1] = ask
  BY <1>2
<1> HIDE DEF steps
<1>4. /\ todo' \in [Threads -> Seq(Steps)]
      /\ todo'["ui"] = steps /\ todo'["hour"] = todo["hour"]
      /\ (Len(todo["hour"]) <= 1 /\ ~At("hour", "want") /\ ~At("hour", "info"))'
  BY <1>1, <1>3, UiGets
<1>5. TypeOK'
  BY <1>1, <1>4 DEF FInv, TypeOK, history
<1>6. ShapeInv'
  BY <1>2, <1>3, <1>4, ShortList DEF At
<1>7. Entitled
  <2>1. \A e \in Devices : ~WantLeft(e)'
    BY <1>2, <1>3, <1>4, ShortList
  <2> QED
    BY <1>1, <2>1 DEF Entitled, One, FInv, TypeOK, history
<1> QED
  BY <1>1, <1>2, <1>3, <1>5, <1>6, <1>7, NewSteps DEF history

LEMMA PairingCompletedStep ==
  ASSUME FInv, NEW d \in Devices, PairingCompleted(d)
  PROVE  FInv'
<1> DEFINE want == [op |-> "want", device |-> d]
           ask == Check(FALSE)
           force == Check(TRUE)
           steps == <<ask, want, force, Refresh>>
<1>1. /\ todo["ui"] = <<>> /\ inputs' \in 0..MaxInputs
      /\ todo' = [todo EXCEPT !["ui"] = steps]
      /\ paired' = paired \union {d} /\ pairings' = [pairings EXCEPT ![d] = @ + 1]
      /\ UNCHANGED <<check, inFlight, manifest, fresh, info, wanted, shown, posted, faults,
                     overtaken, prompted>>
  BY FirmwareInfoAssumption DEF PairingCompleted, UiInput, Input, FInv, TypeOK
<1>2. /\ ask \in Steps /\ want \in Steps /\ force \in Steps /\ Refresh \in Steps
      /\ ask.op = "check" /\ want.op = "want" /\ want.device = d
      /\ force.op = "check" /\ Refresh.op = "refresh"
  BY DEF Check, Refresh, Steps
<1> HIDE DEF ask, force, want
<1>3. /\ steps \in Seq(Steps) /\ steps # <<>> /\ Head(steps) = ask /\ Len(steps) = 4
      /\ steps[1] = ask /\ steps[2] = want /\ steps[3] = force
      /\ steps[4] = Refresh
  BY <1>2
<1> HIDE DEF steps
<1>4. /\ todo' \in [Threads -> Seq(Steps)]
      /\ todo'["ui"] = steps /\ todo'["hour"] = todo["hour"]
      /\ (Len(todo["hour"]) <= 1 /\ ~At("hour", "want") /\ ~At("hour", "info"))'
  BY <1>1, <1>3, UiGets
<1>5. TypeOK'
  BY <1>1, <1>4 DEF FInv, TypeOK
<1>6. ShapeInv'
  <2>1. \A i \in 2..4 : i = 2 \/ i = 3 \/ i = 4
    OBVIOUS
  <2>2. todo'["ui"] # <<>> /\ Head(todo'["ui"]).op = "check" /\ Len(todo'["ui"]) = 4
    BY <1>2, <1>3, <1>4
  <2>3. \A i \in 2..Len(todo'["ui"]) :
          todo'["ui"][i].op = IF i = 4 THEN "refresh" ELSE IF i = 3 THEN "check" ELSE "want"
    BY <1>2, <1>3, <1>4, <2>1
  <2> QED
    BY <1>4, <2>2, <2>3 DEF ShapeInv, At
<1>7. ASSUME NEW e \in Devices
      PROVE  One(WantLeft(e))' + pairings[e] <= pairings'[e]
  <2>1. WantLeft(e)' => e = d
    <3>1. \A i \in 1..4 : i = 1 \/ i = 2 \/ i = 3 \/ i = 4
      OBVIOUS
    <3> QED
      BY <1>2, <1>3, <1>4, <3>1 DEF WantLeft
  <2>2. pairings[e] \in Nat /\ pairings'[e] = IF e = d THEN pairings[e] + 1 ELSE pairings[e]
    BY <1>1 DEF FInv, TypeOK
  <2> QED
    BY <2>1, <2>2 DEF One
<1> QED
  BY <1>1, <1>2, <1>3, <1>5, <1>6, <1>7, NewSteps DEF Entitled

LEMMA HourPassesStep ==
  ASSUME FInv, HourPasses
  PROVE  FInv'
<1> DEFINE ask == Check(FALSE)
           steps == <<ask>>
<1>1. /\ todo["hour"] = <<>> /\ inputs' \in 0..MaxInputs
      /\ todo' = [todo EXCEPT !["hour"] = steps]
      /\ UNCHANGED <<coordinatorVars, shown, posted, faults, history>>
      /\ todo \in [Threads -> Seq(Steps)]
  BY FirmwareInfoAssumption DEF HourPasses, Input, FInv, TypeOK
<1>2. ask \in Steps /\ ask.op = "check"
  BY DEF Check, Steps
<1> HIDE DEF ask
<1>3. /\ steps \in Seq(Steps) /\ steps # <<>> /\ Head(steps) = ask /\ Len(steps) = 1
  BY <1>2
<1> HIDE DEF steps
<1>4. /\ todo' \in [Threads -> Seq(Steps)]
      /\ todo'["hour"] = steps /\ todo'["ui"] = todo["ui"]
  BY <1>1, <1>3 DEF Threads
<1>5. TypeOK'
  BY <1>1, <1>4 DEF FInv, TypeOK, coordinatorVars, history
<1>6. ShapeInv'
  <2>1. (Len(todo["hour"]) <= 1 /\ ~At("hour", "want") /\ ~At("hour", "info"))'
    <3>1. Head(todo'["hour"]).op = "check" /\ Len(todo'["hour"]) = 1
      BY <1>2, <1>3, <1>4
    <3> QED
      BY <3>1 DEF At
  <2>2. ShapeInv
    BY DEF FInv
  <2> QED
    BY <1>4, <2>1, <2>2, Zenon DEF ShapeInv, At
<1>7. \A op \in {"publish", "join"}, u \in Threads :
        /\ At(u, op)' <=> At(u, op)
        /\ At(u, op) => Head(todo'[u]) = Head(todo[u])
  BY <1>1, <1>2, <1>3, <1>4 DEF At, Threads
<1>8. FlightInv'
  BY <1>1, <1>7 DEF FInv, FlightInv, coordinatorVars
<1>9. AskInv'
  <2>1. \A d \in Devices : /\ WantLeft(d)' <=> WantLeft(d)
                           /\ \A u \in Threads : AskLeft(u, d)' <=> AskLeft(u, d)
    <3>1. \A d \in Devices : WantLeft(d)' <=> WantLeft(d)
      BY <1>4, Zenon DEF WantLeft
    <3> QED
      BY <1>7, <3>1 DEF AskLeft
  <2> QED
    BY <1>1, <1>5, <2>1, AskKept DEF FInv, CheckAsks, coordinatorVars, history
<1>10. SnapshotInv'
  <2>1. Refreshing => Refreshing'
    <3>1. ~At("hour", "join") /\ 1..Len(todo["hour"]) = {}
      BY <1>1 DEF At
    <3>2. /\ At("ui", "join") => At("ui", "join")'
          /\ At("ui", "check") => At("ui", "check")'
      BY <1>4 DEF At
    <3> QED
      BY <1>1, <1>4, <3>1, <3>2 DEF Refreshing, Threads, coordinatorVars
  <2> QED
    BY <1>1, <1>7, <2>1, SnapshotKept DEF FInv, coordinatorVars, history
<1> QED
  BY <1>5, <1>6, <1>8, <1>9, <1>10 DEF FInv

LEMMA DayPassesStep ==
  ASSUME FInv, DayPasses
  PROVE  FInv'
<1>1. inputs' \in 0..MaxInputs /\ fresh' \in BOOLEAN
  <2>1. inputs \in 0..MaxInputs /\ inputs < MaxInputs /\ inputs' = inputs + 1 /\ fresh' = FALSE
    BY DEF DayPasses, FInv, TypeOK
  <2>2. \A m \in Nat : \A i \in 0..m : i < m => i + 1 \in 0..m
    OBVIOUS
  <2>3. inputs' \in 0..MaxInputs
    BY <2>1, <2>2, FirmwareInfoAssumption
  <2> QED
    BY <2>1, <2>3
<1>2. UNCHANGED <<todo, check, inFlight, manifest, info, wanted, paired, shown, posted, faults,
                  overtaken, pairings, prompted>>
  BY DEF DayPasses, history
<1>3. TypeOK'
  BY <1>1, <1>2 DEF FInv, TypeOK
<1>4. ShapeInv' /\ FlightInv'
  BY <1>2 DEF FInv, ShapeInv, FlightInv, At
<1>5. AskInv'
  <2>1. \A d \in Devices : /\ WantLeft(d)' <=> WantLeft(d)
                           /\ \A u \in Threads : AskLeft(u, d)' <=> AskLeft(u, d)
    BY <1>2 DEF WantLeft, AskLeft, At
  <2> QED
    BY <1>2, <1>3, <2>1, AskKept DEF FInv, CheckAsks
<1>6. SnapshotInv'
  <2>1. Refreshing' <=> Refreshing
    BY <1>2 DEF Refreshing, At
  <2> QED
    BY <1>2, <2>1, SnapshotKept DEF FInv, At
<1> QED
  BY <1>3, <1>4, <1>5, <1>6 DEF FInv

-----------------------------------------------------------------------------
(***************************************************************************)
(* The invariant and what it says.                                         *)
(***************************************************************************)
LEMMA InitHolds ==
  ASSUME Init
  PROVE  FInv
<1> DEFINE ask == Check(FALSE)
<1>1. ask \in Steps /\ ask.op = "check"
  BY DEF Check, Steps
<1>2. todo = [t \in Threads |-> IF t = "ui" THEN <<ask>> ELSE <<>>]
  BY DEF Init
<1> HIDE DEF ask
<1>3. <<ask>> \in Seq(Steps) /\ <<ask>> # <<>> /\ Head(<<ask>>) = ask /\ Len(<<ask>>) = 1
      /\ <<ask>>[1] = ask
  BY <1>1
<1>4. /\ todo \in [Threads -> Seq(Steps)]
      /\ todo["ui"] = <<ask>> /\ todo["hour"] = <<>>
  BY <1>2, <1>3 DEF Threads
<1>5. Unknown \in [known : BOOLEAN, current : Versions, latest : Versions,
                   available : BOOLEAN, checking : BOOLEAN, failed : BOOLEAN]
  BY DEF Unknown, Versions
<1>6. info \in Snapshots /\ (InitiallyPaired = {} => info = [d \in Devices |-> Unknown])
  <2>1. PICK current \in [InitiallyPaired -> Reported \union {NoVersion}] :
          info = [d \in Devices |->
                    IF d \in InitiallyPaired
                    THEN [Unknown EXCEPT !.known = TRUE, !.current = current[d]] ELSE Unknown]
    BY DEF Init
  <2>2. ASSUME NEW d \in Devices
        PROVE  info[d] \in [known : BOOLEAN, current : Versions, latest : Versions,
                            available : BOOLEAN, checking : BOOLEAN, failed : BOOLEAN]
    <3>1. CASE d \in InitiallyPaired
      <4>1. current[d] \in Versions
        BY <2>1, <3>1 DEF Versions
      <4> QED
        BY <1>5, <2>1, <3>1, <4>1
    <3>2. CASE d \notin InitiallyPaired
      BY <1>5, <2>1, <3>2
    <3> QED
      BY <3>1, <3>2
  <2> QED
    BY <2>1, <2>2 DEF Snapshots
<1>7. TypeOK
  <2>1. shown \in Snapshots
    BY <1>5 DEF Init, Snapshots
  <2>2. pairings \in [Devices -> Nat] /\ prompted \in [Devices -> Nat]
    BY DEF Init
  <2>3. inputs \in 0..MaxInputs /\ faults \in 0..MaxFaults
    <3>1. inputs = 0 /\ faults = 0
      BY DEF Init
    <3>2. \A m \in Nat : 0 \in 0..m
      OBVIOUS
    <3> QED
      BY <3>1, <3>2, FirmwareInfoAssumption
  <2>4. /\ check = [pc |-> "none"] /\ inFlight = FALSE /\ manifest = NoVersion /\ fresh = FALSE
        /\ wanted = {} /\ paired = InitiallyPaired /\ posted = <<>> /\ overtaken = FALSE
    BY DEF Init
  <2>5. check \in [pc : {"none", "fetching", "refresh", "done"}]
    BY <2>4
  <2>6. manifest \in Versions /\ posted \in Seq(Publishing)
    BY <2>4 DEF Versions
  <2>7. wanted \subseteq Devices /\ paired \subseteq Devices
    BY <2>4, FirmwareInfoAssumption
  <2> QED
    BY <1>4, <1>6, <2>1, <2>2, <2>3, <2>4, <2>5, <2>6, <2>7 DEF TypeOK
<1>8. /\ Len(todo["hour"]) <= 1 /\ Len(todo["ui"]) <= 4 /\ Len(todo["ui"]) # 3
      /\ \A i \in 2..Len(todo["ui"]) : FALSE
      /\ \A i \in 1..Len(todo["ui"]) : todo["ui"][i].op = "check"
  BY <1>1, <1>3, <1>4
<1>9. \A t \in Threads, op \in {"want", "info", "join", "publish", "refresh"} : ~At(t, op)
  BY <1>1, <1>3, <1>4 DEF At, Threads
<1>10. ShapeInv /\ FlightInv
  BY <1>8, <1>9 DEF ShapeInv, FlightInv, Threads, Init
<1>11. AskInv
  <2> SUFFICES ASSUME NEW d \in Devices
               PROVE  Questions(d) <= pairings[d]
    BY DEF AskInv
  <2>1. /\ prompted[d] = 0 /\ pairings[d] = 0 /\ Asked(posted, d) = 0
    BY AskedEmpty DEF Init
  <2>2. ~CheckAsks(d) /\ ~AskLeft("ui", d) /\ ~AskLeft("hour", d) /\ d \notin wanted /\ ~WantLeft(d)
    BY <1>8, <1>9 DEF Init, CheckAsks, AskLeft, WantLeft, Threads
  <2> QED
    BY <2>1, <2>2 DEF Questions, One
<1>12. SnapshotInv
  <2>1. OneUnderWay
    <3>1. posted = <<>> /\ check.pc = "none"
      BY DEF Init
    <3>2. Len(posted) <= 1
      BY <3>1
    <3> QED
      BY <1>9, <3>1, <3>2 DEF OneUnderWay, Threads
  <2>2. CASE paired = {}
    <3>1. shown = info /\ posted = <<>> /\ check.pc = "none"
      BY <1>6, <2>2 DEF Init
    <3>2. NewestIsInfo
      BY <1>9, <3>1 DEF NewestIsInfo
    <3> QED
      BY <2>1, <3>2 DEF SnapshotInv
  <2>3. CASE paired # {}
    <3>1. At("ui", "check")
      BY <1>1, <1>3, <1>4 DEF At
    <3> QED
      BY <2>1, <2>3, <3>1 DEF SnapshotInv, Refreshing
  <2> QED
    BY <2>2, <2>3
<1> QED
  BY <1>7, <1>10, <1>11, <1>12 DEF FInv

LEMMA StutterHolds ==
  ASSUME FInv, UNCHANGED vars
  PROVE  FInv'
<1>1. UNCHANGED <<todo, check, inFlight, manifest, fresh, info, wanted, paired, shown, posted,
                  inputs, faults, overtaken, pairings, prompted>>
  BY DEF vars, coordinatorVars, history
<1>2. TypeOK'
  BY <1>1 DEF FInv, TypeOK
<1>3. ShapeInv' /\ FlightInv'
  BY <1>1 DEF FInv, ShapeInv, FlightInv, At
<1>4. AskInv'
  <2>1. \A d \in Devices : /\ WantLeft(d)' <=> WantLeft(d)
                           /\ \A u \in Threads : AskLeft(u, d)' <=> AskLeft(u, d)
    BY <1>1 DEF WantLeft, AskLeft, At
  <2> QED
    BY <1>1, <1>2, <2>1, AskKept DEF FInv, CheckAsks
<1>5. SnapshotInv'
  <2>1. Refreshing' <=> Refreshing
    BY <1>1 DEF Refreshing, At
  <2> QED
    BY <1>1, <2>1, SnapshotKept DEF FInv, At
<1> QED
  BY <1>2, <1>3, <1>4, <1>5 DEF FInv

LEMMA NextHolds ==
  ASSUME FInv, [Next]_vars
  PROVE  FInv'
<1>1. ASSUME NEW t \in Threads, ThreadStep(t)
      PROVE  FInv'
  BY <1>1, CheckSkippedStep, CacheUsedStep, CheckBeginsStep, ThreadStartsStep, RefreshStep,
     PublishSnapshotStep DEF ThreadStep
<1>2. CASE UiStep
  BY <1>1, <1>2, UiTakesStep, UpdateDeviceFirmwareInfoStep, CheckFirmwareAfterPairingStep
     DEF UiStep, Threads
<1>3. CASE CheckStep
  <2>1. faults \in 0..MaxFaults /\ MaxFaults \in Nat
    BY FirmwareInfoAssumption DEF FInv, TypeOK
  <2>2. CASE ManifestFetched
    <3>1. PICK version \in Releases : Fetched(version) /\ UNCHANGED faults
      BY <2>2 DEF ManifestFetched
    <3> QED
      BY <2>1, <3>1, FetchedStep DEF Versions
  <2>3. CASE DownloadFailed \/ ManifestInvalid
    <3>1. Fetched(NoVersion) /\ Fault
      BY <2>3 DEF DownloadFailed, ManifestInvalid
    <3>2. faults' \in 0..MaxFaults
      BY <2>1, <3>1 DEF Fault
    <3> QED
      BY <3>1, <3>2, FetchedStep DEF Versions
  <2> QED
    BY <1>3, <2>2, <2>3, CheckAppliedStep, CheckRefreshesStep, CheckDoneStep DEF CheckStep
<1>4. CASE Environment
  BY <1>4, DeviceInfoStep, ConnectionsChangedStep, PairingCompletedStep, ConfigChangedStep,
     HourPassesStep, DayPassesStep DEF Environment
<1> QED
  BY <1>1, <1>2, <1>3, <1>4, StutterHolds DEF Next, Threads

\* The types, where each question and the newest snapshot are: invariants of
\* any number of threads' steps, events, settings and failed fetches.
THEOREM InfoInvariance == Spec => []FInv
<1>1. Init => FInv
  BY InitHolds
<1>2. FInv /\ [Next]_vars => FInv'
  BY NextHolds
<1> QED
  BY <1>1, <1>2, PTL DEF Spec

\* What the coordinator knows, what is shown and what is posted are well typed.
THEOREM InfoTypes == Spec => []TypeOK
<1>1. FInv => TypeOK
  BY DEF FInv
<1> QED
  BY <1>1, InfoInvariance, PTL

\* A device is asked about at most once for each pairing: the question passes
\* from the pairing to the coordinator, to one snapshot, to the user.
THEOREM AskedOnce == Spec => []PromptedOnce
<1>1. FInv => PromptedOnce
  <2> SUFFICES ASSUME FInv, NEW d \in Devices
               PROVE  prompted[d] <= pairings[d]
    BY DEF PromptedOnce
  <2>1. Questions(d) <= pairings[d] /\ TypeOK
    BY DEF FInv, AskInv
  <2> QED
    BY <2>1, QuestionParts DEF Questions
<1> QED
  BY <1>1, InfoInvariance, PTL

\* When nothing is under way, the menu shows what the coordinator knows, unless
\* the last snapshot was taken before another one was shown.
THEOREM MenuSettles == Spec => []ShownSettles
<1>1. FInv => ShownSettles
  <2> SUFFICES ASSUME FInv, Quiet, ~overtaken
               PROVE  shown = info
    BY DEF ShownSettles
  <2>1. \A t \in Threads : todo[t] = <<>> /\ 1..Len(todo[t]) = {}
    BY DEF Quiet
  <2>2. ~Refreshing
    BY <2>1 DEF Refreshing, At, Quiet, Threads
  <2>3. ~Undelivered
    BY <2>1 DEF Undelivered, At, Quiet
  <2> QED
    BY <2>2, <2>3 DEF FInv, SnapshotInv, NewestIsInfo
<1> QED
  BY <1>1, InfoInvariance, PTL

=============================================================================
