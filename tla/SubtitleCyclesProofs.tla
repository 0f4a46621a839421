------------------------ MODULE SubtitleCyclesProofs ------------------------
(***************************************************************************)
(* Proofs about the subtitle cycles of the Windows coordinator, for any    *)
(* devices and number of recordings, frames and failures.                  *)
(*                                                                         *)
(* Most of what a handler does only takes a cycle further or away: Goes    *)
(* says what it may do to the cycles, which of them may go without being   *)
(* counted as cancelled, and that no subtitle is asked for.  It is         *)
(* transitive, and the invariants survive it; what is left are the steps   *)
(* that begin a cycle, ask for a subtitle, or let the devices move on.     *)
(***************************************************************************)
EXTENDS SubtitleCycles, FiniteSetTheorems, TLAPS

\* What is fed or buffered is audio of recording i, with one end at most.
Neat(s, i) == \A j, l \in DOMAIN s : s[j].of = i /\ (s[j].last /\ s[l].last => j = l)
Unended(s) == \A j \in DOMAIN s : ~s[j].last

\* A cycle that has its end, or its text, knows that it sent the end.
Sound(x) ==
  /\ Neat(x.fed, x.of)
  /\ Unended(x.fed) \/ x.sentFinal
  /\ x.tells \in {"final", "empty"} \/ x.finished => x.sentFinal
Waits(x) == Neat(x.buffered, x.of) /\ Unended(x.buffered)

CyclesBut(c, ks) ==
  /\ \A d \in Devices : HasActive(c, d) => Found(c, ActiveKey(c, d))
  /\ \A k \in Keys \ ks : Found(c, k) => Sound(c.cycles[k]) /\ Waits(c.cycles[k])
Cycles(c) == CyclesBut(c, {})

\* The cycles with a device's session numbers are of what the device sends
\* with them, now or as what is left of the recording before.
Owned(c, w) ==
  \A k \in Keys : Found(c, k) =>
    LET x == w[k[1]]
    IN  /\ k[2] <= x.session
        /\ k[2] = x.session => c.cycles[k].of = x.input
        /\ x.tail # NoTail /\ k[2] = x.tail.session => c.cycles[k].of = x.tail.input

\* Of a press that was not handled yet, nothing is known.
Fresh(c, w) ==
  \A d \in Devices : ~w[d].up /\ ~w[d].down =>
    /\ w[d].input \notin c.dropped
    /\ \A k \in Keys : Found(c, k) => c.cycles[k].of # w[d].input

Counts(c, n) ==
  /\ c.dropped \subseteq 1..n
  /\ \A k \in Keys : Found(c, k) => c.cycles[k].of \in 1..n

\* Unless a click began a recording anew: one cycle of each, none cancelled.
Single(c) ==
  \/ c.late
  \/ \A k \in Keys : Found(c, k) =>
       /\ c.cycles[k].of \notin c.dropped
       /\ \A l \in Keys : Found(c, l) /\ c.cycles[l].of = c.cycles[k].of => l = k

\* A text that returns as the final one finds its own cycle, or none.
Returns(c) ==
  \/ c.late
  \/ \A x \in c.translating : x.final /\ Found(c, x.key) =>
       c.cycles[x.key].of = x.of /\ c.cycles[x.key].finished

Held(c, w, n) == Owned(c, w) /\ Fresh(c, w) /\ Counts(c, n) /\ Single(c)

\* The devices number recordings apart.
Sends(x, n) ==
  /\ x.session <= n /\ x.input <= n
  /\ ~x.up \/ ~x.ended => x.session > 0 /\ x.input > 0
  /\ x.tail # NoTail => /\ x.tail.session \in 1..(x.session - 1)
                        /\ x.tail.input \in 1..n
Numbered(w, n) ==
  /\ \A d \in Devices : Sends(w[d], n)
  /\ \A d, e \in Devices : w[d].input = w[e].input /\ w[d].input # NoInput => d = e

IInv ==
  /\ TypeOK
  /\ Cycles(app) /\ Returns(app)
  /\ Held(app, dev, count.input)
  /\ Numbered(dev, count.input)

\* The subtitles of recording i that were asked for.
Asks(posted, i) == {n \in DOMAIN posted : posted[n].call = Subtitle(i)}
Asked(c, i) == Cardinality(Asks(c.posted, i)) + c.shown[i]
SameAsked(c, e) == \A i \in Inputs : Asked(e, i) = Asked(c, i)

\* From c to e no cycle begins.  Those of ks may go; of the others only what
\* is counted as cancelled then.
Goes(c, e, ks) ==
  /\ \A k \in Keys : Found(e, k) =>
       /\ Found(c, k) /\ e.cycles[k].of = c.cycles[k].of
       /\ c.cycles[k].finished => e.cycles[k].finished
  /\ \A k \in Keys \ ks : Found(c, k) /\ ~Found(e, k) => c.cycles[k].of \in e.dropped
  /\ c.dropped \subseteq e.dropped
  /\ \A i \in e.dropped \ c.dropped :
       \E k \in Keys : Found(c, k) /\ ~Found(e, k) /\ c.cycles[k].of = i
  /\ e.translating \subseteq c.translating
  /\ c.late => e.late
Quiet(c, e) == Goes(c, e, {}) /\ SameAsked(c, e)

-----------------------------------------------------------------------------
\* Goes, and what survives it.

LEMMA GoesSelf ==
  ASSUME NEW c, NEW ks
  PROVE  Goes(c, c, ks) /\ SameAsked(c, c)
BY DEF Goes, SameAsked

LEMMA GoesTwice ==
  ASSUME NEW c, NEW d, NEW e, NEW ks, NEW ls, Goes(c, d, ks), Goes(d, e, ls)
  PROVE  Goes(c, e, ks \cup ls)
<1>1. \A k \in Keys : Found(e, k) =>
        /\ Found(c, k) /\ e.cycles[k].of = c.cycles[k].of
        /\ c.cycles[k].finished => e.cycles[k].finished
  BY DEF Goes
<1>2. \A k \in Keys \ (ks \cup ls) : Found(c, k) /\ ~Found(e, k) => c.cycles[k].of \in e.dropped
  BY DEF Goes
<1>3. \A i \in e.dropped \ c.dropped :
        \E k \in Keys : Found(c, k) /\ ~Found(e, k) /\ c.cycles[k].of = i
  BY DEF Goes
<1> QED BY <1>1, <1>2, <1>3 DEF Goes

LEMMA QuietTwice ==
  ASSUME NEW c, NEW d, NEW e, Quiet(c, d), Quiet(d, e)
  PROVE  Quiet(c, e)
<1>1. Goes(c, e, {} \cup {})
  BY GoesTwice DEF Quiet
<1>2. SameAsked(c, e)
  BY DEF Quiet, SameAsked
<1> QED BY <1>1, <1>2 DEF Quiet

LEMMA GoesReturns ==
  ASSUME NEW c \in App, NEW e, NEW ks, Goes(c, e, ks), Returns(c)
  PROVE  Returns(e)
BY DEF Goes, Returns, App

LEMMA GoesSingle ==
  ASSUME NEW c, NEW e, NEW ks, Goes(c, e, ks), Single(c)
  PROVE  Single(e)
BY DEF Goes, Single

LEMMA GoesHeld ==
  ASSUME NEW c, NEW e, NEW ks, Goes(c, e, ks), NEW w, NEW n, Held(c, w, n)
  PROVE  Held(e, w, n)
<1>1. Owned(e, w)
  BY DEF Goes, Held, Owned
<1>2. Fresh(e, w)
  BY DEF Goes, Held, Fresh
<1>3. Counts(e, n)
  BY DEF Goes, Held, Counts
<1> QED BY <1>1, <1>2, <1>3, GoesSingle DEF Held

-----------------------------------------------------------------------------
\* The screens.

Tellable == {"ready", "recording", "thinking"}

\* From c to e the cycles, and who asks for what, are left alone.
Aside(c, e) ==
  /\ e.cycles = c.cycles /\ e.active = c.active /\ e.mode = c.mode
  /\ e.timers = c.timers /\ e.connected = c.connected
  /\ e.dropped = c.dropped /\ e.translating = c.translating /\ e.late = c.late
  /\ SameAsked(c, e)

LEMMA AsideTwice ==
  ASSUME NEW c, NEW d, NEW e, Aside(c, d), Aside(d, e)
  PROVE  Aside(c, e)
BY DEF Aside, SameAsked

LEMMA AsideFacts ==
  ASSUME NEW c, NEW e, Aside(c, e)
  PROVE  /\ Quiet(c, e)
         /\ Cycles(c) => Cycles(e)
         /\ \A k : Found(e, k) <=> Found(c, k)
         /\ \A d : HasActive(e, d) <=> HasActive(c, d)
         /\ \A k : IsActive(e, k) <=> IsActive(c, k)
<1>1. Goes(c, e, {})
  BY DEF Aside, Goes, Found
<1>2. Cycles(c) => Cycles(e)
  BY DEF Aside, Cycles, CyclesBut, Found, HasActive, ActiveKey
<1> QED BY <1>1, <1>2 DEF Aside, Quiet, Found, HasActive, IsActive

LEMMA SendFacts ==
  ASSUME NEW c \in App, NEW d, NEW state \in Tellable
  PROVE  SendUiState(c, d, state) \in App /\ Aside(c, SendUiState(c, d, state))
<1> DEFINE e == SendUiState(c, d, state)
<1>1. e \in App
  BY DEF SendUiState, App, Tellable
<1>2. e.posted = c.posted /\ e.shown = c.shown
  BY DEF SendUiState, App
<1>3. SameAsked(c, e)
  BY <1>2 DEF SameAsked, Asked
<1>4. /\ e.cycles = c.cycles /\ e.active = c.active /\ e.mode = c.mode
      /\ e.timers = c.timers /\ e.connected = c.connected
      /\ e.dropped = c.dropped /\ e.translating = c.translating /\ e.late = c.late
  BY DEF SendUiState, App
<1> QED BY <1>1, <1>3, <1>4 DEF Aside

LEMMA RunFacts ==
  ASSUME NEW c \in App, NEW callback
  PROVE  Run(c, callback) \in App /\ Aside(c, Run(c, callback))
<1>1. Aside(c, c)
  BY DEF Aside, SameAsked
<1> QED BY <1>1, SendFacts DEF Run, Tellable

LEMMA CallFacts ==
  /\ Listening \in Call /\ Partial \in Call
  /\ \A i \in Inputs : Subtitle(i) \in Call /\ Subtitle(i).call = "subtitle" /\ Subtitle(i).of = i
  /\ NoCallback \in Callbacks /\ UpgradePage \in Callbacks
  /\ \A d \in Devices : TellReady(d) \in Callbacks
  /\ \A done \in Callbacks : ErrorText(done) \in Call /\ Hide(done) \in Call
  /\ Listening.call = "listening" /\ Partial.call = "partial"
  /\ \A done : ErrorText(done).call = "error" /\ Hide(done).call = "hide"
BY DEF Call, Callbacks, Listening, Partial, Subtitle, ErrorText, Hide

LEMMA CallKinds ==
  ASSUME NEW call \in Call
  PROVE  /\ call.call \in {"listening", "partial", "subtitle", "error", "hide"}
         /\ call.call = "subtitle" => call.of \in Inputs /\ call = Subtitle(call.of)
         /\ call.call \in {"error", "hide"} => call.callback \in Callbacks
BY DEF Call, Listening, Partial, Subtitle, ErrorText, Hide

LEMMA OverlayFacts ==
  ASSUME NEW overlay \in Overlays(Callbacks), NEW call \in Call, call.call # "subtitle"
  PROVE  Applied(overlay, call) \in Overlays(Callbacks)
<1>1. CASE call.call = "hide"
  <2>1. Applied(overlay, call) = Hidden
    BY <1>1 DEF Applied, Faded
  <2>2. Hidden \in Overlays(Callbacks)
    BY CallFacts DEF Hidden, Overlays
  <2> QED BY <2>1, <2>2
<1>2. CASE call.call = "error"
  <2>1. call.callback \in Callbacks
    BY <1>2, CallKinds
  <2>2. Applied(overlay, call) = ShowTimed(call.call, call.callback)
    BY <1>2 DEF Applied
  <2>3. ShowTimed(call.call, call.callback) \in Overlays(Callbacks)
    BY <2>1, <1>2 DEF ShowTimed, Overlays
  <2> QED BY <2>2, <2>3
<1>3. CASE call.call \in {"listening", "partial"}
  <2>1. Applied(overlay, call) = Show(overlay, "listening")
    BY <1>3 DEF Applied
  <2>2. Show(overlay, "listening") \in Overlays(Callbacks)
    BY DEF Show, Overlays
  <2> QED BY <2>1, <2>2
<1> QED BY <1>1, <1>2, <1>3, CallKinds

LEMMA DisplayedFacts ==
  ASSUME NEW c \in App, NEW call \in Call, call.call # "subtitle"
  PROVE  Displayed(c, call) \in App /\ Aside(c, Displayed(c, call))
<1> DEFINE b == [c EXCEPT !.overlay = Applied(c.overlay, call)]
<1>1. Applied(c.overlay, call) \in Overlays(Callbacks)
  BY OverlayFacts DEF App
<1>2. b \in App
  BY <1>1 DEF App
<1>3. Aside(c, b)
  <2>1. b.posted = c.posted /\ b.shown = c.shown
    BY DEF App
  <2>2. SameAsked(c, b)
    BY <2>1 DEF SameAsked, Asked
  <2> QED BY <2>2 DEF Aside, App
<1>4. Displayed(c, call) = Run(b, Due(c.overlay, call))
  BY DEF Displayed
<1> HIDE DEF b
<1> QED BY <1>2, <1>3, <1>4, RunFacts, AsideTwice

\* Posting a call that is not that subtitle asks for nothing.
LEMMA AsksAppend ==
  ASSUME NEW posted \in Seq([call : Call, of : Inputs]), NEW post \in [call : Call, of : Inputs],
         NEW i, post.call # Subtitle(i)
  PROVE  Asks(Append(posted, post), i) = Asks(posted, i)
<1> DEFINE longer == Append(posted, post)
<1>1. /\ Len(longer) = Len(posted) + 1 /\ longer[Len(posted) + 1] = post
      /\ \A n \in 1..Len(posted) : longer[n] = posted[n]
      /\ DOMAIN longer = 1..(Len(posted) + 1) /\ DOMAIN posted = 1..Len(posted)
      /\ Len(posted) \in Nat
  OBVIOUS
<1> HIDE DEF longer
<1>2. \A n \in DOMAIN longer : longer[n].call = Subtitle(i) => n \in DOMAIN posted /\ posted[n].call = Subtitle(i)
  BY <1>1
<1>3. \A n \in DOMAIN posted : n \in DOMAIN longer /\ longer[n].call = posted[n].call
  BY <1>1
<1> QED BY <1>2, <1>3 DEF Asks, longer

\* Posted(c, call, i) is what DispatchToUi does elsewhere than on the UI thread.
Posted(c, call, i) == [c EXCEPT !.posted = Append(@, [call |-> call, of |-> i])]

LEMMA PostedFacts ==
  ASSUME NEW c \in App, NEW call \in Call, NEW i \in Inputs
  PROVE  /\ Posted(c, call, i) \in App
         /\ Posted(c, call, i).posted = Append(c.posted, [call |-> call, of |-> i])
         /\ \A f \in {"cycles", "active", "mode", "timers", "connected", "dropped",
                      "translating", "late", "shown"} : Posted(c, call, i)[f] = c[f]
<1> DEFINE post == [call |-> call, of |-> i]
<1>1. post \in [call : Call, of : Inputs]
  OBVIOUS
<1>2. Append(c.posted, post) \in Seq([call : Call, of : Inputs])
  <2>1. c.posted \in Seq([call : Call, of : Inputs])
    BY DEF App
  <2> HIDE DEF post
  <2> QED BY <1>1, <2>1
<1>3. Posted(c, call, i) = [c EXCEPT !.posted = Append(c.posted, post)]
  BY DEF Posted
<1> HIDE DEF post
<1>4. Posted(c, call, i) \in App
  BY <1>2, <1>3 DEF App
<1> QED BY <1>3, <1>4 DEF App, post

LEMMA DisplayFacts ==
  ASSUME NEW c \in App, NEW t, NEW call \in Call, call.call # "subtitle", NEW i \in Inputs
  PROVE  Display(c, t, call, i) \in App /\ Aside(c, Display(c, t, call, i))
<1>1. CASE t = "ui"
  BY <1>1, DisplayedFacts DEF Display
<1>2. CASE t # "ui"
  <2> DEFINE e == Posted(c, call, i)
  <2>1. Display(c, t, call, i) = e
    BY <1>2 DEF Display, Posted
  <2>2. \A j \in Inputs : call # Subtitle(j)
    BY CallFacts
  <2>3. \A j \in Inputs : Asks(e.posted, j) = Asks(c.posted, j)
    <3>1. c.posted \in Seq([call : Call, of : Inputs])
      BY DEF App
    <3> DEFINE post == [call |-> call, of |-> i]
    <3>2. post \in [call : Call, of : Inputs] /\ post.call = call
      OBVIOUS
    <3>3. e.posted = Append(c.posted, post)
      BY PostedFacts
    <3> HIDE DEF post, e
    <3> QED BY <3>1, <3>2, <3>3, <2>2, AsksAppend
  <2>4. SameAsked(c, e)
    BY <2>3, PostedFacts DEF SameAsked, Asked
  <2>5. e \in App /\ \A f \in {"cycles", "active", "mode", "timers", "connected", "dropped",
                             "translating", "late", "shown"} : e[f] = c[f]
    BY PostedFacts
  <2> HIDE DEF e
  <2>6. Aside(c, e)
    BY <2>4, <2>5 DEF Aside
  <2> QED BY <2>1, <2>5, <2>6
<1> QED BY <1>1, <1>2

-----------------------------------------------------------------------------
\* Cycles that go.

LEMMA KeyFacts ==
  /\ \A k \in Keys : k[1] \in Devices /\ k[2] \in 1..MaxInputs /\ k = <<k[1], k[2]>>
  /\ \A d \in Devices, s \in 1..MaxInputs : <<d, s>> \in Keys /\ <<d, s>>[1] = d /\ <<d, s>>[2] = s
BY DEF Keys

LEMMA FoundFacts ==
  ASSUME NEW c \in App, NEW k \in Keys
  PROVE  /\ c.cycles[k] \in Cycle \cup {None}
         /\ Found(c, k) <=> c.cycles[k] \in Cycle
         /\ Found(c, k) => c.cycles[k].of \in Inputs
<1>1. c.cycles[k] \in Cycle \cup {None}
  BY DEF App
<1>2. \A x \in Cycle : x.of \in Inputs
  BY DEF Cycle
<1>3. None \notin Cycle
  <2>1. None.of \notin Inputs
    BY BoundsAssumption DEF None, NoInput, Inputs
  <2> QED BY <2>1, <1>2
<1> QED BY <1>1, <1>2, <1>3 DEF Found

LEMMA ActiveFacts ==
  ASSUME NEW c \in App, NEW d \in Devices, HasActive(c, d)
  PROVE  /\ ActiveKey(c, d) \in Keys /\ ActiveKey(c, d)[1] = d
         /\ IsActive(c, ActiveKey(c, d))
         /\ \A k \in Keys : k[1] = d /\ IsActive(c, k) => k = ActiveKey(c, d)
<1>1. c.active[d] \in 1..MaxInputs
  BY BoundsAssumption DEF App, HasActive, NoSession
<1> QED BY <1>1, KeyFacts DEF ActiveKey, IsActive

\* What the primitives leave alone.
Kept(c, e) == e.translating = c.translating /\ e.late = c.late /\ SameAsked(c, e)

LEMMA KeptTwice ==
  ASSUME NEW c, NEW d, NEW e, Kept(c, d), Kept(d, e)
  PROVE  Kept(c, e)
BY DEF Kept, SameAsked

LEMMA ClearFacts ==
  ASSUME NEW c \in App, NEW k \in Keys
  PROVE  /\ Clear(c, k) \in App /\ ~IsActive(Clear(c, k), k)
         /\ \A d \in Devices : Clear(c, k).active[d] \in {c.active[d], NoSession}
         /\ Clear(c, k).cycles = c.cycles /\ Clear(c, k).dropped = c.dropped
         /\ Kept(c, Clear(c, k))
<1> DEFINE e == Clear(c, k)
<1>1. k[1] \in Devices /\ k[2] # NoSession
  BY KeyFacts DEF NoSession
<1>2. e \in App
  <2>1. NoSession \in 0..MaxInputs
    BY BoundsAssumption DEF NoSession
  <2> DEFINE active == [c.active EXCEPT ![k[1]] = NoSession]
  <2>2. active \in [Devices -> 0..MaxInputs]
    BY <2>1 DEF App
  <2>3. e = IF IsActive(c, k) THEN [c EXCEPT !.active = active] ELSE c
    BY DEF Clear
  <2> HIDE DEF active
  <2>4. [c EXCEPT !.active = active] \in App
    BY <2>2 DEF App
  <2> QED BY <2>3, <2>4
<1>3. e.posted = c.posted /\ e.shown = c.shown /\ e.translating = c.translating /\ e.late = c.late
  BY DEF Clear, App
<1>4. Kept(c, e)
  BY <1>3 DEF Kept, SameAsked, Asked
<1>5. ~IsActive(e, k)
  BY <1>1 DEF Clear, App, IsActive
<1>6. \A d \in Devices : e.active[d] \in {c.active[d], NoSession}
  BY DEF Clear, App
<1>7. e.cycles = c.cycles /\ e.dropped = c.dropped
  BY DEF Clear, App
<1> QED BY <1>2, <1>4, <1>5, <1>6, <1>7

LEMMA EraseFacts ==
  ASSUME NEW c \in App, NEW k \in Keys
  PROVE  /\ Erase(c, k) \in App
         /\ \A j \in Keys : Erase(c, k).cycles[j] = IF j = k THEN None ELSE c.cycles[j]
         /\ Erase(c, k).active = c.active /\ Erase(c, k).dropped = c.dropped
         /\ Kept(c, Erase(c, k))
<1> DEFINE e == Erase(c, k)
<1>1. e \in App
  BY DEF Erase, App
<1>2. e.posted = c.posted /\ e.shown = c.shown /\ e.translating = c.translating /\ e.late = c.late
  BY DEF Erase, App
<1>3. Kept(c, e)
  BY <1>2 DEF Kept, SameAsked, Asked
<1>4. \A j \in Keys : e.cycles[j] = IF j = k THEN None ELSE c.cycles[j]
  BY DEF Erase, App
<1>5. e.active = c.active /\ e.dropped = c.dropped
  BY DEF Erase, App
<1> QED BY <1>1, <1>3, <1>4, <1>5

OfThese(c, ks) == {c.cycles[k].of : k \in {j \in ks : Found(c, j)}}
Cancelled(c, e, ks) == e.dropped = c.dropped \cup OfThese(c, ks)
LEMMA DropFacts ==
  ASSUME NEW c \in App, NEW ks \in SUBSET Keys
  PROVE  /\ Drop(c, ks) \in App
         /\ Cancelled(c, Drop(c, ks), ks)
         /\ Drop(c, ks).cycles = c.cycles /\ Drop(c, ks).active = c.active
         /\ Kept(c, Drop(c, ks))
<1> DEFINE e == Drop(c, ks)
<1>1. OfThese(c, ks) \subseteq Inputs
  BY FoundFacts DEF OfThese
<1>2. e = [c EXCEPT !.dropped = c.dropped \cup OfThese(c, ks)]
  BY DEF Drop, OfThese
<1> HIDE DEF e
<1>3. e \in App
  BY <1>1, <1>2 DEF App
<1>4. e.posted = c.posted /\ e.shown = c.shown /\ e.translating = c.translating /\ e.late = c.late
  BY <1>2 DEF App
<1>5. Kept(c, e)
  BY <1>4 DEF Kept, SameAsked, Asked
<1>6. Cancelled(c, e, ks) /\ e.cycles = c.cycles /\ e.active = c.active
  BY <1>2 DEF App, Cancelled
<1> QED BY <1>3, <1>5, <1>6 DEF e

\* The cycles ks are erased; all are cancelled, or none.
Gone(c, e, ks) ==
  /\ \A k \in Keys : e.cycles[k] = IF k \in ks THEN None ELSE c.cycles[k]
  /\ \A d \in Devices : e.active[d] \in {c.active[d], NoSession}
  /\ \A k \in ks : ~IsActive(e, k)
  /\ e.dropped = c.dropped \/ Cancelled(c, e, ks)
  /\ Kept(c, e)

LEMMA GoneFacts ==
  ASSUME NEW c \in App, NEW e \in App, NEW ks \in SUBSET Keys, Gone(c, e, ks)
  PROVE  /\ CyclesBut(c, ks) => Cycles(e)
         /\ Cycles(c) => Cycles(e)
         /\ Goes(c, e, ks) /\ SameAsked(c, e)
         /\ Cancelled(c, e, ks) => Quiet(c, e)
<1>1. \A k \in Keys : Found(e, k) <=> Found(c, k) /\ k \notin ks
  BY DEF Gone, Found
<1>2. ASSUME CyclesBut(c, ks)
      PROVE  Cycles(e)
  <2>1. ASSUME NEW d \in Devices, HasActive(e, d)
        PROVE  Found(e, ActiveKey(e, d))
    <3>1. e.active[d] = c.active[d] /\ HasActive(c, d)
      BY <2>1 DEF Gone, HasActive
    <3>2. ActiveKey(e, d) = ActiveKey(c, d) /\ ActiveKey(e, d) \in Keys /\ IsActive(e, ActiveKey(e, d))
      BY <2>1, <3>1, ActiveFacts DEF ActiveKey
    <3>3. Found(c, ActiveKey(e, d)) /\ ActiveKey(e, d) \notin ks
      BY <1>2, <3>1, <3>2 DEF CyclesBut, Gone
    <3> QED BY <1>1, <3>2, <3>3
  <2>2. ASSUME NEW k \in Keys, Found(e, k)
        PROVE  Sound(e.cycles[k]) /\ Waits(e.cycles[k])
    BY <1>1, <1>2, <2>2 DEF CyclesBut, Gone
  <2> QED BY <2>1, <2>2 DEF Cycles, CyclesBut
<1>3. \A k \in Keys : Found(e, k) =>
        /\ Found(c, k) /\ e.cycles[k].of = c.cycles[k].of
        /\ c.cycles[k].finished => e.cycles[k].finished
  BY <1>1 DEF Gone
<1>4. \A k \in Keys : Found(c, k) /\ ~Found(e, k) => k \in ks
  BY <1>1
<1>5. /\ c.dropped \subseteq e.dropped
      /\ \A i \in e.dropped \ c.dropped :
           \E k \in Keys : Found(c, k) /\ ~Found(e, k) /\ c.cycles[k].of = i
  BY <1>1 DEF Gone, Cancelled, OfThese
<1>6. Goes(c, e, ks) /\ SameAsked(c, e)
  BY <1>3, <1>4, <1>5 DEF Goes, Gone, Kept
<1>7. ASSUME Cancelled(c, e, ks)
      PROVE  Goes(c, e, {})
  <2>1. \A k \in Keys : Found(c, k) /\ ~Found(e, k) => c.cycles[k].of \in e.dropped
    BY <1>4, <1>7 DEF Cancelled, OfThese
  <2> QED BY <1>3, <2>1, <1>5 DEF Goes, Gone, Kept
<1>8. Cycles(c) => CyclesBut(c, ks)
  BY DEF Cycles, CyclesBut
<1> QED BY <1>2, <1>6, <1>7, <1>8 DEF Quiet

LEMMA KeptAside ==
  ASSUME NEW c, NEW e, Aside(c, e)
  PROVE  Kept(c, e)
BY DEF Aside, Kept

\* A result of a function that may only take cycles away.
Less(c, e) == e \in App /\ (Cycles(c) => Cycles(e)) /\ Quiet(c, e)

LEMMA LessTwice ==
  ASSUME NEW c, NEW d, NEW e, Less(c, d), Less(d, e)
  PROVE  Less(c, e)
BY QuietTwice DEF Less

LEMMA LessAside ==
  ASSUME NEW c, NEW e \in App, Aside(c, e)
  PROVE  Less(c, e)
BY AsideFacts DEF Less

LEMMA LessSelf ==
  ASSUME NEW c \in App
  PROVE  Less(c, c)
BY GoesSelf DEF Less, Quiet

\* Cleared, then erased, with what is shown in between.
LEMMA ClearErase ==
  ASSUME NEW c \in App, NEW k \in Keys,
         NEW a \in App, Kept(c, a), a.cycles = c.cycles, a.active = c.active,
         a.dropped = c.dropped \/ Cancelled(c, a, {k}),
         NEW b \in App, Aside(Clear(a, k), b)
  PROVE  /\ Erase(b, k) \in App
         /\ Gone(c, Erase(b, k), {k})
         /\ Erase(b, k).dropped = a.dropped
<1> DEFINE l == Clear(a, k)
<1> DEFINE e == Erase(b, k)
<1>1. /\ ~IsActive(l, k) /\ l.cycles = a.cycles /\ l.dropped = a.dropped /\ Kept(a, l)
      /\ \A d \in Devices : l.active[d] \in {a.active[d], NoSession}
  BY ClearFacts
<1>2. b.cycles = l.cycles /\ b.active = l.active /\ b.dropped = l.dropped /\ Kept(l, b)
  BY KeptAside DEF Aside
<1> HIDE DEF l
<1>3. /\ e \in App /\ e.active = b.active /\ e.dropped = b.dropped /\ Kept(b, e)
      /\ \A j \in Keys : e.cycles[j] = IF j = k THEN None ELSE b.cycles[j]
  BY EraseFacts
<1> HIDE DEF e
<1>4. Kept(c, e)
  BY <1>1, <1>2, <1>3, KeptTwice
<1>5. ~IsActive(e, k)
  BY <1>1, <1>2, <1>3 DEF IsActive
<1>6. \A j \in Keys : e.cycles[j] = IF j \in {k} THEN None ELSE c.cycles[j]
  BY <1>1, <1>2, <1>3
<1>7. \A d \in Devices : e.active[d] \in {c.active[d], NoSession}
  BY <1>1, <1>2, <1>3
<1>8. e.dropped = a.dropped
  BY <1>1, <1>2, <1>3
<1>9. Gone(c, e, {k})
  BY <1>4, <1>5, <1>6, <1>7, <1>8 DEF Gone, Cancelled
<1> QED BY <1>3, <1>8, <1>9 DEF e

\* Erased at once.
LEMMA EraseAtOnce ==
  ASSUME NEW c \in App, NEW k \in Keys
  PROVE  /\ Less(c, Erase(Clear(Drop(c, {k}), k), k))
         /\ CyclesBut(c, {k}) => Cycles(Erase(Clear(Drop(c, {k}), k), k))
<1> DEFINE s == Drop(c, {k})
<1> DEFINE b == Clear(s, k)
<1>1. /\ s \in App /\ Kept(c, s) /\ s.cycles = c.cycles /\ s.active = c.active
      /\ Cancelled(c, s, {k})
  BY DropFacts
<1> HIDE DEF s
<1>2. b \in App /\ Aside(Clear(s, k), b)
  BY <1>1, ClearFacts DEF Aside, SameAsked
<1> HIDE DEF b
<1>4. Erase(b, k) \in App /\ Gone(c, Erase(b, k), {k}) /\ Erase(b, k).dropped = s.dropped
  BY <1>1, <1>2, ClearErase
<1>5. Cancelled(c, Erase(b, k), {k}) /\ {k} \in SUBSET Keys
  BY <1>1, <1>4 DEF Cancelled
<1>6. Less(c, Erase(b, k)) /\ (CyclesBut(c, {k}) => Cycles(Erase(b, k)))
  BY <1>4, <1>5, GoneFacts DEF Less
<1> QED BY <1>6 DEF b, s

LEMMA ErrorFacts ==
  ASSUME NEW c \in App, NEW k \in Keys, Found(c, k), NEW t
  PROVE  /\ Less(c, FinishWithError(c, k, t))
         /\ CyclesBut(c, {k}) => Cycles(FinishWithError(c, k, t))
<1> DEFINE b == Erase(Clear(Drop(c, {k}), k), k)
<1> DEFINE call == ErrorText(TellReady(k[1]))
<1>1. Less(c, b) /\ (CyclesBut(c, {k}) => Cycles(b))
  BY EraseAtOnce
<1>2. call \in Call /\ call.call # "subtitle"
  BY KeyFacts, CallFacts
<1>3. c.cycles[k].of \in Inputs
  BY FoundFacts
<1>4. FinishWithError(c, k, t) = Display(b, t, call, c.cycles[k].of)
  BY DEF FinishWithError
<1> HIDE DEF b, call
<1>5. Display(b, t, call, c.cycles[k].of) \in App /\ Aside(b, Display(b, t, call, c.cycles[k].of))
  BY <1>1, <1>2, <1>3, DisplayFacts DEF Less
<1> QED BY <1>1, <1>4, <1>5, LessAside, LessTwice, AsideFacts

LEMMA HideFacts ==
  Hide(NoCallback) \in Call /\ Hide(NoCallback).call # "subtitle"
BY CallFacts

LEMMA CancelFacts ==
  ASSUME NEW c \in App, NEW k \in Keys
  PROVE  Less(c, CancelCycle(c, k))
<1> DEFINE a == Drop(c, {k})
<1> DEFINE h == Displayed(a, Hide(NoCallback))
<1> DEFINE s == SendUiState(h, k[1], "ready")
<1> DEFINE b == Clear(s, k)
<1>1. /\ a \in App /\ Kept(c, a) /\ a.cycles = c.cycles /\ a.active = c.active
      /\ Cancelled(c, a, {k})
  BY DropFacts
<1> HIDE DEF a
<1>2. h \in App /\ Aside(a, h)
  BY <1>1, HideFacts, DisplayedFacts
<1> HIDE DEF h
<1>3. s \in App /\ Aside(h, s)
  BY <1>2, SendFacts DEF Tellable
<1> HIDE DEF s
<1>4. /\ s.cycles = c.cycles /\ s.active = c.active /\ Kept(c, s)
      /\ Cancelled(c, s, {k})
  BY <1>1, <1>2, <1>3, KeptAside, KeptTwice DEF Aside, Cancelled
<1>5. b \in App /\ Aside(Clear(s, k), b)
  BY <1>3, ClearFacts DEF Aside, SameAsked
<1> HIDE DEF b
<1>6. Erase(b, k) \in App /\ Gone(c, Erase(b, k), {k}) /\ Erase(b, k).dropped = s.dropped
  BY <1>3, <1>4, <1>5, ClearErase
<1>7. Less(c, Erase(b, k))
  BY <1>4, <1>6, GoneFacts DEF Less, Cancelled
<1> QED BY <1>7 DEF CancelCycle, b, s, h, a

LEMMA EraseAllFacts ==
  ASSUME NEW c \in App, NEW ks \in SUBSET Keys
  PROVE  Less(c, EraseAll(c, ks)) /\ \A k \in ks : ~Found(EraseAll(c, ks), k)
<1> DEFINE a == Drop(c, ks)
<1> DEFINE cycles == [k \in Keys |-> IF k \in ks THEN None ELSE a.cycles[k]]
<1> DEFINE active == [d \in Devices |-> IF \E k \in ks : k[1] = d THEN NoSession ELSE a.active[d]]
<1> DEFINE e == [a EXCEPT !.cycles = cycles, !.active = active]
<1>1. /\ a \in App /\ Kept(c, a) /\ a.cycles = c.cycles /\ a.active = c.active
      /\ Cancelled(c, a, ks)
  BY DropFacts
<1>2. EraseAll(c, ks) = e
  BY DEF EraseAll
<1> HIDE DEF a
<1>3. cycles \in [Keys -> Cycle \cup {None}]
  BY <1>1, FoundFacts
<1>4. active \in [Devices -> 0..MaxInputs]
  <2>1. NoSession \in 0..MaxInputs
    BY BoundsAssumption DEF NoSession
  <2> QED BY <1>1, <2>1 DEF App
<1>5. e \in App /\ e.cycles = cycles /\ e.active = active /\ e.dropped = a.dropped
  <2> HIDE DEF cycles, active
  <2> QED BY <1>1, <1>3, <1>4 DEF App
<1>6. e.posted = a.posted /\ e.shown = a.shown /\ e.translating = a.translating /\ e.late = a.late
  <2> HIDE DEF cycles, active
  <2> QED BY <1>1, <1>3, <1>4 DEF App
<1>7. Kept(c, e)
  <2>1. Kept(a, e)
    BY <1>6 DEF Kept, SameAsked, Asked
  <2> HIDE DEF e
  <2> QED BY <1>1, <2>1, KeptTwice
<1>8. \A k \in ks : ~IsActive(e, k)
  <2> SUFFICES ASSUME NEW k \in ks
               PROVE  ~IsActive(e, k)
    OBVIOUS
  <2>1. k[1] \in Devices /\ k[2] # NoSession
    BY KeyFacts DEF NoSession
  <2>2. active[k[1]] = NoSession
    BY <2>1
  <2> HIDE DEF e, active
  <2> QED BY <1>5, <2>1, <2>2 DEF IsActive
<1>9. \A k \in Keys : e.cycles[k] = IF k \in ks THEN None ELSE c.cycles[k]
  BY <1>1, <1>5
<1>10. \A d \in Devices : e.active[d] \in {c.active[d], NoSession}
  BY <1>1, <1>5
<1> HIDE DEF e, cycles, active
<1>11. Gone(c, e, ks)
  BY <1>1, <1>5, <1>7, <1>8, <1>9, <1>10 DEF Gone, Cancelled
<1>12. Less(c, e)
  <2>1. Cancelled(c, e, ks)
    BY <1>1, <1>5 DEF Cancelled
  <2> QED BY <1>1, <1>5, <1>11, <2>1, GoneFacts DEF Less
<1>13. \A k \in ks : ~Found(e, k)
  BY <1>9 DEF Found
<1> QED BY <1>2, <1>12, <1>13

LEMMA DiscardedFacts ==
  ASSUME NEW c \in App, NEW k \in Keys, Found(c, k), NEW t
  PROVE  Less(c, Discarded(c, k, t))
<1> DEFINE b == Erase(Clear(Drop(c, {k}), k), k)
<1> DEFINE h == Display(b, t, Hide(NoCallback), c.cycles[k].of)
<1> DEFINE s == SendUiState(h, k[1], "ready")
<1>1. Less(c, b)
  BY EraseAtOnce
<1>2. Discarded(c, k, t) \in {b, s}
  BY DEF Discarded
<1> HIDE DEF b
<1>3. h \in App /\ Aside(b, h)
  BY <1>1, HideFacts, FoundFacts, DisplayFacts DEF Less
<1> HIDE DEF h
<1>4. s \in App /\ Aside(h, s)
  BY <1>3, SendFacts DEF Tellable
<1> HIDE DEF s
<1>5. Less(c, s)
  BY <1>1, <1>3, <1>4, LessAside, LessTwice, AsideTwice
<1> QED BY <1>1, <1>2, <1>5

\* A cycle that has its text goes without being cancelled.
LEMMA FinishFacts ==
  ASSUME NEW c \in App, NEW k \in Keys, NEW t, NEW hide, NEW i \in Inputs
  PROVE  LET e == FinishCycle(c, k, t, hide, i)
         IN  e \in App /\ (Cycles(c) => Cycles(e)) /\ Goes(c, e, {k}) /\ SameAsked(c, e)
<1>1. CASE ~Found(c, k)
  BY <1>1, GoesSelf DEF FinishCycle
<1>2. CASE Found(c, k)
  <2> DEFINE a == IF hide THEN Display(c, t, Hide(NoCallback), i) ELSE c
  <2> DEFINE l == Clear(a, k)
  <2> DEFINE b == ReadyIfIdle(l, k[1])
  <2>1. a \in App /\ Aside(c, a)
    <3>1. Aside(c, c)
      BY DEF Aside, SameAsked
    <3>2. Display(c, t, Hide(NoCallback), i) \in App /\ Aside(c, Display(c, t, Hide(NoCallback), i))
      BY HideFacts, DisplayFacts
    <3> QED BY <3>1, <3>2
  <2>2. Kept(c, a) /\ a.cycles = c.cycles /\ a.active = c.active /\ a.dropped = c.dropped
    BY <2>1, KeptAside DEF Aside
  <2> HIDE DEF a
  <2>3. l \in App
    BY <2>1, ClearFacts
  <2>4. b \in App /\ Aside(l, b)
    BY <2>3, SendFacts DEF ReadyIfIdle, Tellable, Aside, SameAsked
  <2>5. Aside(Clear(a, k), b)
    BY <2>4
  <2> HIDE DEF l, b
  <2>6. Erase(b, k) \in App /\ Gone(c, Erase(b, k), {k})
    BY <2>1, <2>2, <2>4, <2>5, ClearErase
  <2>7. {k} \in SUBSET Keys
    OBVIOUS
  <2>8. FinishCycle(c, k, t, hide, i) = Erase(b, k)
    BY <1>2 DEF FinishCycle, a, l, b
  <2> QED BY <2>6, <2>7, <2>8, GoneFacts
<1> QED BY <1>1, <1>2

-----------------------------------------------------------------------------
\* Cycles that move on.

Chunk == [of : Inputs, last : BOOLEAN]

LEMMA NeatAppend ==
  ASSUME NEW s \in Chunks, NEW chunk \in Chunk, Neat(s, chunk.of), Unended(s) \/ ~chunk.last
  PROVE  /\ Append(s, chunk) \in Chunks /\ Neat(Append(s, chunk), chunk.of)
         /\ Unended(s) /\ ~chunk.last => Unended(Append(s, chunk))
<1> DEFINE longer == Append(s, chunk)
<1>1. s \in Seq(Chunk)
  BY DEF Chunks, Chunk
<1>2. /\ longer \in Seq(Chunk)
      /\ Len(longer) = Len(s) + 1 /\ longer[Len(s) + 1] = chunk
      /\ \A n \in 1..Len(s) : longer[n] = s[n]
      /\ DOMAIN longer = 1..(Len(s) + 1) /\ DOMAIN s = 1..Len(s) /\ Len(s) \in Nat
  BY <1>1
<1> HIDE DEF longer
<1>3. \A n \in DOMAIN longer : (longer[n] = chunk /\ n = Len(longer)) \/ (n \in DOMAIN s /\ longer[n] = s[n])
  BY <1>2
<1>4. Neat(longer, chunk.of)
  BY <1>3 DEF Neat, Unended
<1>5. Unended(s) /\ ~chunk.last => Unended(longer)
  BY <1>3 DEF Unended
<1> QED BY <1>2, <1>4, <1>5 DEF longer, Chunks, Chunk

LEMMA NeatEmpty ==
  ASSUME NEW i
  PROVE  <<>> \in Chunks /\ Neat(<<>>, i) /\ Unended(<<>>)
BY DEF Chunks, Neat, Unended

Put(c, k, x) == [c EXCEPT !.cycles[k] = x]

\* x goes on from y.
GoesOn(y, x) == x \in Cycle /\ x.of = y.of /\ (y.finished => x.finished)

LEMMA PutFacts ==
  ASSUME NEW c \in App, NEW k \in Keys, Found(c, k), NEW x, GoesOn(c.cycles[k], x)
  PROVE  /\ Put(c, k, x) \in App /\ Quiet(c, Put(c, k, x))
         /\ Put(c, k, x).cycles[k] = x /\ Found(Put(c, k, x), k)
         /\ CyclesBut(c, {k}) => CyclesBut(Put(c, k, x), {k})
         /\ CyclesBut(c, {k}) /\ Sound(x) /\ Waits(x) => Cycles(Put(c, k, x))
         /\ \A f \in {"active", "mode", "connected", "timers", "dropped", "translating",
                      "late", "posted", "shown"} : Put(c, k, x)[f] = c[f]
<1> DEFINE e == Put(c, k, x)
<1>1. x \in Cycle /\ x.of = c.cycles[k].of
  BY DEF GoesOn
<1> DEFINE cycles == [c.cycles EXCEPT ![k] = x]
<1>2. cycles \in [Keys -> Cycle \cup {None}] /\ cycles[k] = x /\ \A j \in Keys \ {k} : cycles[j] = c.cycles[j]
  BY <1>1 DEF App
<1>3. e = [c EXCEPT !.cycles = cycles]
  BY DEF Put
<1> HIDE DEF cycles
<1>4. e \in App /\ e.cycles = cycles
  BY <1>2, <1>3 DEF App
<1>5. \A f \in {"active", "mode", "connected", "timers", "dropped", "translating",
                "late", "posted", "shown"} : e[f] = c[f]
  BY <1>3 DEF App
<1> HIDE DEF e
<1>6. SameAsked(c, e)
  BY <1>5 DEF SameAsked, Asked
<1>7. Found(e, k)
  BY <1>1, <1>2, <1>4, FoundFacts
<1>8. \A j \in Keys : Found(e, j) <=> Found(c, j)
  BY <1>2, <1>4, <1>7 DEF Found
<1>9. Goes(c, e, {})
  BY <1>2, <1>4, <1>5, <1>8 DEF Goes, GoesOn
<1>10. ASSUME CyclesBut(c, {k})
       PROVE  CyclesBut(e, {k})
  <2>1. ASSUME NEW d \in Devices, HasActive(e, d)
        PROVE  Found(e, ActiveKey(e, d))
    <3>1. ActiveKey(e, d) \in Keys
      BY <1>4, <2>1, ActiveFacts
    <3>2. HasActive(c, d) /\ ActiveKey(e, d) = ActiveKey(c, d)
      BY <1>5, <2>1 DEF HasActive, ActiveKey
    <3> QED BY <1>8, <1>10, <3>1, <3>2 DEF CyclesBut
  <2> QED BY <1>2, <1>4, <1>8, <1>10, <2>1 DEF CyclesBut
<1>11. CyclesBut(e, {k}) /\ Sound(x) /\ Waits(x) => Cycles(e)
  BY <1>2, <1>4 DEF Cycles, CyclesBut
<1>12. Quiet(c, e)
  BY <1>6, <1>9 DEF Quiet
<1>13. e.cycles[k] = x
  BY <1>2, <1>4
<1> QED BY <1>4, <1>5, <1>7, <1>10, <1>11, <1>12, <1>13 DEF e

Lucks == {"ok", "refused", "breaks", "silent"}

\* What is a result of moving cycle k on.
LEMMA PutLess ==
  ASSUME NEW c \in App, NEW k \in Keys, Found(c, k), NEW x, GoesOn(c.cycles[k], x),
         Cycles(c) => Sound(x) /\ Waits(x)
  PROVE  Less(c, Put(c, k, x))
<1>1. Cycles(c) => CyclesBut(c, {k})
  BY DEF Cycles, CyclesBut
<1> QED BY <1>1, PutFacts DEF Less

LEMMA PutFound ==
  ASSUME NEW c \in App, NEW k \in Keys, Found(c, k), NEW x, GoesOn(c.cycles[k], x)
  PROVE  Put(c, k, x).cycles[k] = x /\ Found(Put(c, k, x), k)
BY PutFacts

LEMMA CyclesFacts ==
  ASSUME NEW c, Cycles(c), NEW k \in Keys, Found(c, k)
  PROVE  Sound(c.cycles[k]) /\ Waits(c.cycles[k])
BY DEF Cycles, CyclesBut

LEMMA SilencedFacts ==
  ASSUME NEW c \in App
  PROVE  [c EXCEPT !.silenced = TRUE] \in App /\ Aside(c, [c EXCEPT !.silenced = TRUE])
<1> DEFINE e == [c EXCEPT !.silenced = TRUE]
<1>1. e \in App /\ e.posted = c.posted /\ e.shown = c.shown
  BY DEF App
<1>2. SameAsked(c, e)
  BY <1>1 DEF SameAsked, Asked
<1> QED BY <1>1, <1>2 DEF Aside, App

LEMMA SendChunkFacts ==
  ASSUME NEW c \in App, NEW k \in Keys, Found(c, k), NEW t, NEW chunk \in Chunk,
         chunk.of = c.cycles[k].of, NEW luck \in Lucks,
         chunk.last => /\ c.cycles[k].sentFinal
                       /\ Unended(c.cycles[k].fed) \/ luck \in {"breaks", "silent"}
  PROVE  Less(c, SendOggOpusChunk(c, k, t, chunk, luck))
<1> DEFINE x == c.cycles[k]
<1>1. x \in Cycle
  BY FoundFacts
<1>2. CASE x.asr # "active"
  <2>1. SendOggOpusChunk(c, k, t, chunk, luck) = c
    BY <1>2 DEF SendOggOpusChunk
  <2> QED BY <2>1, LessSelf
<1>3. CASE x.asr = "active" /\ luck \in {"ok", "refused"}
  <2> DEFINE y == [x EXCEPT !.fed = Append(x.fed, chunk)]
  <2>1. SendOggOpusChunk(c, k, t, chunk, luck) = Put(c, k, y)
    BY <1>3 DEF SendOggOpusChunk, Put, App
  <2>2. Append(x.fed, chunk) \in Chunks
    BY <1>1 DEF Cycle, Chunks, Chunk
  <2>3. /\ y \in Cycle /\ y.of = x.of /\ y.finished = x.finished
        /\ y.fed = Append(x.fed, chunk) /\ y.buffered = x.buffered
        /\ y.sentFinal = x.sentFinal /\ y.tells = x.tells
    BY <1>1, <2>2 DEF Cycle
  <2> HIDE DEF y
  <2>4. ASSUME Cycles(c)
        PROVE  Sound(y) /\ Waits(y)
    <3>1. Sound(x) /\ Waits(x)
      BY <2>4, CyclesFacts
    <3>2. x.fed \in Chunks
      BY <1>1 DEF Cycle
    <3>3. Unended(x.fed) \/ ~chunk.last
      BY <1>3 DEF Chunk
    <3>4. Neat(y.fed, x.of) /\ (Unended(x.fed) /\ ~chunk.last => Unended(y.fed))
      BY <2>3, <3>1, <3>2, <3>3, NeatAppend DEF Sound
    <3>5. Unended(y.fed) \/ y.sentFinal
      BY <2>3, <3>1, <3>4 DEF Sound
    <3> QED BY <2>3, <3>1, <3>4, <3>5 DEF Sound, Waits
  <2>5. GoesOn(x, y)
    BY <2>3 DEF GoesOn
  <2> QED BY <2>1, <2>4, <2>5, PutLess
<1>4. CASE x.asr = "active" /\ luck = "breaks"
  <2>1. SendOggOpusChunk(c, k, t, chunk, luck) = FinishWithError(c, k, t)
    BY <1>4 DEF SendOggOpusChunk
  <2> QED BY <2>1, ErrorFacts
<1>5. CASE x.asr = "active" /\ luck = "silent"
  <2> DEFINE y == [x EXCEPT !.asr = "over"]
  <2>1. SendOggOpusChunk(c, k, t, chunk, luck) = [Put(c, k, y) EXCEPT !.silenced = TRUE]
    BY <1>5 DEF SendOggOpusChunk, Put, App
  <2>2. /\ y \in Cycle /\ y.of = x.of /\ y.finished = x.finished
        /\ y.fed = x.fed /\ y.buffered = x.buffered
        /\ y.sentFinal = x.sentFinal /\ y.tells = x.tells
    BY <1>1 DEF Cycle
  <2> HIDE DEF y
  <2>3. Cycles(c) => Sound(y) /\ Waits(y)
    BY <2>2, CyclesFacts DEF Sound, Waits
  <2>4. GoesOn(x, y)
    BY <2>2 DEF GoesOn
  <2>5. Less(c, Put(c, k, y))
    BY <2>3, <2>4, PutLess
  <2>6. Less(Put(c, k, y), [Put(c, k, y) EXCEPT !.silenced = TRUE])
    BY <2>5, SilencedFacts, LessAside DEF Less
  <2> QED BY <2>1, <2>5, <2>6, LessTwice
<1> QED BY <1>2, <1>3, <1>4, <1>5 DEF Lucks

\* All that waits is fed when the ASR client starts.
LEMMA StartFacts ==
  ASSUME NEW c \in App, NEW k \in Keys, Found(c, k), NEW t, NEW luck \in Lucks,
         CyclesBut(c, {k}), Sound(c.cycles[k]), c.cycles[k].buffered # <<>>,
         Neat(c.cycles[k].buffered, c.cycles[k].of),
         Unended(c.cycles[k].buffered) \/ c.cycles[k].sentFinal
  PROVE  /\ StartAsrAndFlush(c, k, t, luck) \in App
         /\ Cycles(StartAsrAndFlush(c, k, t, luck))
         /\ Quiet(c, StartAsrAndFlush(c, k, t, luck))
<1> DEFINE x == c.cycles[k]
<1>1. x \in Cycle
  BY FoundFacts
<1>2. CASE luck = "refused"
  <2>1. StartAsrAndFlush(c, k, t, luck) = FinishWithError(c, k, t)
    BY <1>2 DEF StartAsrAndFlush
  <2> QED BY <2>1, ErrorFacts DEF Less
<1>3. CASE luck = "ok"
  <2> DEFINE y == [x EXCEPT !.started = TRUE, !.asr = "active", !.buffered = <<>>, !.fed = x.buffered]
  <2>1. StartAsrAndFlush(c, k, t, luck) = Put(c, k, y)
    BY <1>3 DEF StartAsrAndFlush, Put, App
  <2>2. /\ y \in Cycle /\ y.of = x.of /\ y.finished = x.finished
        /\ y.fed = x.buffered /\ y.buffered = <<>>
        /\ y.sentFinal = x.sentFinal /\ y.tells = x.tells
    BY <1>1, NeatEmpty DEF Cycle
  <2> HIDE DEF y
  <2>3. Sound(y) /\ Waits(y)
    BY <2>2, NeatEmpty DEF Sound, Waits
  <2>4. GoesOn(x, y)
    BY <2>2 DEF GoesOn
  <2> QED BY <2>1, <2>3, <2>4, PutFacts
<1>4. CASE luck \in {"breaks", "silent"}
  <2> DEFINE y == [x EXCEPT !.started = TRUE, !.asr = "active", !.buffered = <<>>]
  <2>1. StartAsrAndFlush(c, k, t, luck) = SendOggOpusChunk(Put(c, k, y), k, t, Head(x.buffered), luck)
    BY <1>4 DEF StartAsrAndFlush, Put, App
  <2>2. /\ y \in Cycle /\ y.of = x.of /\ y.finished = x.finished
        /\ y.fed = x.fed /\ y.buffered = <<>>
        /\ y.sentFinal = x.sentFinal /\ y.tells = x.tells
    BY <1>1, NeatEmpty DEF Cycle
  <2> HIDE DEF y
  <2>3. Sound(y) /\ Waits(y)
    BY <2>2, NeatEmpty DEF Sound, Waits
  <2>4. GoesOn(x, y)
    BY <2>2 DEF GoesOn
  <2> DEFINE b == Put(c, k, y)
  <2>5. b \in App /\ Quiet(c, b) /\ Cycles(b) /\ b.cycles[k] = y /\ Found(b, k)
    BY <2>3, <2>4, PutFacts
  <2> DEFINE chunk == Head(x.buffered)
  <2>6. chunk \in Chunk /\ chunk.of = x.of /\ (chunk.last => x.sentFinal)
    <3>1. x.buffered \in Seq(Chunk) /\ x.buffered # <<>>
      BY <1>1 DEF Cycle, Chunks, Chunk
    <3>2. 1 \in DOMAIN x.buffered /\ chunk = x.buffered[1] /\ chunk \in Chunk
      BY <3>1
    <3> HIDE DEF chunk, x
    <3> QED BY <3>2 DEF Neat, Unended, x
  <2> HIDE DEF b, chunk
  <2>7. Less(b, SendOggOpusChunk(b, k, t, chunk, luck))
    BY <1>4, <2>2, <2>5, <2>6, SendChunkFacts
  <2> QED BY <2>1, <2>5, <2>7, QuietTwice DEF Less, b, chunk
<1> QED BY <1>2, <1>3, <1>4 DEF Lucks

LEMMA SendOrBufferFacts ==
  ASSUME NEW c \in App, NEW k \in Keys, Found(c, k), Cycles(c), NEW t, NEW chunk \in Chunk,
         chunk.of = c.cycles[k].of, NEW canStart,
         NEW luck \in Lucks,
         chunk.last => /\ c.cycles[k].sentFinal /\ canStart
                       /\ Unended(c.cycles[k].fed)
  PROVE  Less(c, SendOrBufferOggChunk(c, k, t, chunk, canStart, luck))
<1> DEFINE x == c.cycles[k]
<1>1. x \in Cycle /\ Sound(x) /\ Waits(x)
  BY FoundFacts, CyclesFacts
<1>2. CASE x.started
  BY <1>2, SendChunkFacts DEF SendOrBufferOggChunk
<1>3. CASE ~x.started
  <2> DEFINE y == [x EXCEPT !.buffered = Append(x.buffered, chunk)]
  <2> DEFINE b == Put(c, k, y)
  <2>1. SendOrBufferOggChunk(c, k, t, chunk, canStart, luck)
          = IF canStart THEN StartAsrAndFlush(b, k, t, luck) ELSE b
    BY <1>3 DEF SendOrBufferOggChunk, Put, App
  <2>2. x.buffered \in Chunks
    BY <1>1 DEF Cycle
  <2>3. /\ Append(x.buffered, chunk) \in Chunks /\ Neat(Append(x.buffered, chunk), x.of)
        /\ ~chunk.last => Unended(Append(x.buffered, chunk))
    BY <1>1, <2>2, NeatAppend DEF Waits
  <2>4. /\ y \in Cycle /\ y.of = x.of /\ y.finished = x.finished
        /\ y.fed = x.fed /\ y.buffered = Append(x.buffered, chunk)
        /\ y.sentFinal = x.sentFinal /\ y.tells = x.tells
    BY <1>1, <2>3 DEF Cycle
  <2>5. y.buffered # <<>>
    <3>1. x.buffered \in Seq(Chunk)
      BY <2>2 DEF Chunks, Chunk
    <3> HIDE DEF x
    <3> QED BY <3>1, <2>4
  <2> HIDE DEF y
  <2>6. Sound(y)
    BY <1>1, <2>4 DEF Sound
  <2>7. GoesOn(x, y)
    BY <2>4 DEF GoesOn
  <2>8. CyclesBut(c, {k})
    BY DEF Cycles, CyclesBut
  <2>9. /\ b \in App /\ Quiet(c, b) /\ b.cycles[k] = y /\ Found(b, k) /\ CyclesBut(b, {k})
        /\ Waits(y) => Cycles(b)
    BY <2>6, <2>7, <2>8, PutFacts
  <2> HIDE DEF b
  <2>10. CASE canStart
    <3>1. Unended(y.buffered) \/ y.sentFinal
      <4>1. chunk.last \in BOOLEAN
        BY DEF Chunk
      <4> QED BY <2>3, <2>4, <4>1
    <3>2. Neat(y.buffered, y.of)
      BY <2>3, <2>4
    <3> QED BY <2>1, <2>5, <2>6, <2>9, <2>10, <3>1, <3>2, StartFacts, QuietTwice DEF Less
  <2>11. CASE ~canStart
    <3>1. Waits(y)
      BY <2>3, <2>4, <2>11 DEF Waits
    <3> QED BY <2>1, <2>9, <2>11, <3>1 DEF Less
  <2> QED BY <2>10, <2>11
<1> QED BY <1>2, <1>3

LEMMA CancelTimeoutFacts ==
  ASSUME NEW c \in App, NEW k \in Keys, Found(c, k)
  PROVE  LET e == CancelAudioEndTimeout(c, k)
         IN  /\ Less(c, e) /\ Found(e, k) /\ e.cycles[k].of = c.cycles[k].of
             /\ e.cycles[k].fed = c.cycles[k].fed
             /\ e.cycles[k].sentFinal = c.cycles[k].sentFinal
<1> DEFINE x == c.cycles[k]
<1> DEFINE next == x.generation + 1
<1> DEFINE y == [x EXCEPT !.waiting = FALSE, !.generation = next]
<1>1. CancelAudioEndTimeout(c, k) = Put(c, k, y)
  BY DEF CancelAudioEndTimeout, Put, App
<1>2. x \in Cycle
  BY FoundFacts
<1> HIDE DEF x
<1>8. next \in Nat
  BY <1>2 DEF Cycle
<1> HIDE DEF next
<1>3. /\ y \in Cycle /\ y.of = x.of /\ y.finished = x.finished
      /\ y.fed = x.fed /\ y.buffered = x.buffered
      /\ y.sentFinal = x.sentFinal /\ y.tells = x.tells
  BY <1>2, <1>8 DEF Cycle
<1> HIDE DEF y
<1>4. Cycles(c) => Sound(y) /\ Waits(y)
  BY <1>3, CyclesFacts DEF Sound, Waits, x
<1>5. GoesOn(c.cycles[k], y)
  BY <1>3 DEF GoesOn, x
<1>6. Less(c, Put(c, k, y))
  BY <1>4, <1>5, PutLess
<1>7. Found(Put(c, k, y), k) /\ Put(c, k, y).cycles[k] = y
  BY <1>5, PutFacts
<1> QED BY <1>1, <1>3, <1>6, <1>7 DEF x

LEMMA SendFinalFacts ==
  ASSUME NEW c \in App, NEW k \in Keys, Found(c, k), Cycles(c), NEW t, NEW luck \in Lucks
  PROVE  Less(c, SendFinalOggChunkIfNeeded(c, k, t, luck))
<1> DEFINE b == CancelAudioEndTimeout(c, k)
<1> DEFINE x == b.cycles[k]
<1> DEFINE y == [x EXCEPT !.sentFinal = TRUE]
<1> DEFINE e == Put(b, k, y)
<1> DEFINE final == [of |-> c.cycles[k].of, last |-> TRUE]
<1>1. /\ Less(c, b) /\ Found(b, k) /\ x.of = c.cycles[k].of
      /\ x.fed = c.cycles[k].fed /\ x.sentFinal = c.cycles[k].sentFinal
  BY CancelTimeoutFacts
<1>2. \/ SendFinalOggChunkIfNeeded(c, k, t, luck) \in
           {c, Discarded(e, k, t), FinishWithError(e, k, t)}
      \/ /\ ~c.cycles[k].sentFinal
         /\ SendFinalOggChunkIfNeeded(c, k, t, luck)
              = SendOrBufferOggChunk(e, k, t, final, TRUE, luck)
  <2>1. b \in App
    BY <1>1 DEF Less
  <2>2. [b EXCEPT !.cycles[k].sentFinal = TRUE] = e
    <3> HIDE DEF b
    <3> QED BY <2>1 DEF Put, App
  <2> HIDE DEF e
  <2> QED BY <2>2 DEF SendFinalOggChunkIfNeeded, b
<1> HIDE DEF b
<1>3. b \in App /\ Cycles(b) /\ x \in Cycle
  BY <1>1, FoundFacts DEF Less
<1>4. /\ y \in Cycle /\ y.of = x.of /\ y.finished = x.finished
      /\ y.fed = x.fed /\ y.buffered = x.buffered
      /\ y.sentFinal = TRUE /\ y.tells = x.tells
  BY <1>3 DEF Cycle
<1> HIDE DEF y
<1>5. Sound(y) /\ Waits(y)
  BY <1>1, <1>3, <1>4, CyclesFacts DEF Sound, Waits
<1>6. GoesOn(x, y)
  BY <1>4 DEF GoesOn
<1>7. Less(b, e) /\ Found(e, k) /\ e.cycles[k] = y
  <2>1. Less(b, e)
    BY <1>1, <1>3, <1>5, <1>6, PutLess
  <2>2. Found(e, k) /\ e.cycles[k] = y
    BY <1>1, <1>3, <1>6, PutFound
  <2> QED BY <2>1, <2>2
<1> HIDE DEF e
<1>8. Less(c, e) /\ e \in App /\ Cycles(e)
  BY <1>1, <1>7, LessTwice DEF Less
<1>9. Less(e, Discarded(e, k, t)) /\ Less(e, FinishWithError(e, k, t))
  BY <1>7, <1>8, DiscardedFacts, ErrorFacts
<1>10. ASSUME ~c.cycles[k].sentFinal
       PROVE  Less(e, SendOrBufferOggChunk(e, k, t, final, TRUE, luck))
  <2>1. Unended(e.cycles[k].fed)
    BY <1>1, <1>4, <1>7, <1>10, CyclesFacts DEF Sound
  <2>2. final \in Chunk /\ final.of = e.cycles[k].of /\ e.cycles[k].sentFinal
    BY <1>1, <1>4, <1>7, FoundFacts DEF Chunk
  <2> HIDE DEF final
  <2> QED BY <1>7, <1>8, <2>1, <2>2, SendOrBufferFacts
<1> HIDE DEF final
<1>11. \A r : Less(e, r) => Less(c, r)
  BY <1>8, LessTwice
<1> QED BY <1>2, <1>9, <1>10, <1>11, LessSelf

LEMMA AudioFrameFacts ==
  ASSUME NEW c \in App, NEW k \in Keys, Cycles(c), NEW i \in Inputs,
         Found(c, k) => c.cycles[k].of = i, NEW luck \in Lucks
  PROVE  Less(c, HandleAudioFrame(c, k, i, luck))
<1>1. CASE ~Found(c, k)
  BY <1>1, LessSelf DEF HandleAudioFrame, CycleOfFrame
<1>2. CASE Found(c, k)
  <2> DEFINE x == c.cycles[k]
  <2> DEFINE y == [x EXCEPT !.heard = TRUE]
  <2> DEFINE b == Put(c, k, y)
  <2> DEFINE chunk == [of |-> i, last |-> FALSE]
  <2>1. HandleAudioFrame(c, k, i, luck) = SendOrBufferOggChunk(b, k, "ui", chunk, CanStart(x), luck)
    BY <1>2 DEF HandleAudioFrame, CycleOfFrame, Put, App
  <2>2. x \in Cycle /\ Sound(x) /\ Waits(x) /\ x.of = i
    BY <1>2, FoundFacts, CyclesFacts
  <2>3. /\ y \in Cycle /\ y.of = x.of /\ y.finished = x.finished
        /\ y.fed = x.fed /\ y.buffered = x.buffered
        /\ y.sentFinal = x.sentFinal /\ y.tells = x.tells
    BY <2>2 DEF Cycle
  <2> HIDE DEF y
  <2>4. Sound(y) /\ Waits(y) /\ GoesOn(x, y)
    BY <2>2, <2>3 DEF Sound, Waits, GoesOn
  <2>5. Less(c, b) /\ Found(b, k) /\ b.cycles[k] = y
    BY <1>2, <2>4, PutLess, PutFacts
  <2>6. chunk \in Chunk /\ chunk.of = i /\ ~chunk.last
    BY DEF Chunk
  <2> HIDE DEF b, chunk
  <2>7. Less(b, SendOrBufferOggChunk(b, k, "ui", chunk, CanStart(x), luck))
    <3>1. b \in App /\ Cycles(b) /\ chunk.of = b.cycles[k].of
      BY <2>2, <2>3, <2>5, <2>6 DEF Less
    <3> HIDE DEF x
    <3> QED BY <2>5, <2>6, <3>1, SendOrBufferFacts
  <2> QED BY <2>1, <2>5, <2>7, LessTwice
<1> QED BY <1>1, <1>2

LEMMA AudioEndFacts ==
  ASSUME NEW c \in App, NEW k \in Keys, Cycles(c), NEW luck \in Lucks
  PROVE  Less(c, HandleAudioEnd(c, k, luck))
<1>1. CASE ~Found(c, k)
  BY <1>1, LessSelf DEF HandleAudioEnd
<1>2. CASE Found(c, k)
  <2> DEFINE b == CancelAudioEndTimeout(c, k)
  <2>1. Less(c, b) /\ Found(b, k)
    BY <1>2, CancelTimeoutFacts
  <2>2. HandleAudioEnd(c, k, luck) = SendFinalOggChunkIfNeeded(b, k, "ui", luck)
    BY <1>2 DEF HandleAudioEnd
  <2> HIDE DEF b
  <2>3. Less(b, SendFinalOggChunkIfNeeded(b, k, "ui", luck))
    BY <2>1, SendFinalFacts DEF Less
  <2> QED BY <2>1, <2>2, <2>3, LessTwice
<1> QED BY <1>1, <1>2

-----------------------------------------------------------------------------
\* Buttons.

LEMMA TimersFacts ==
  ASSUME NEW c \in App, NEW timers \in SUBSET (Keys \X Nat)
  PROVE  Less(c, [c EXCEPT !.timers = timers])
<1> DEFINE e == [c EXCEPT !.timers = timers]
<1>1. e \in App /\ e.posted = c.posted /\ e.shown = c.shown
  BY DEF App
<1>2. /\ e.cycles = c.cycles /\ e.active = c.active /\ e.dropped = c.dropped
      /\ e.translating = c.translating /\ e.late = c.late
  BY DEF App
<1>3. SameAsked(c, e)
  BY <1>1 DEF SameAsked, Asked
<1> HIDE DEF e
<1>4. Goes(c, e, {})
  BY <1>2 DEF Goes, Found
<1>5. Cycles(c) => Cycles(e)
  BY <1>2 DEF Cycles, CyclesBut, Found, HasActive, ActiveKey
<1> QED BY <1>1, <1>3, <1>4, <1>5 DEF Less, Quiet, e

LEMMA ClearLess ==
  ASSUME NEW c \in App, NEW k \in Keys
  PROVE  Less(c, Clear(c, k))
<1> DEFINE e == Clear(c, k)
<1>1. /\ e \in App /\ e.cycles = c.cycles /\ e.dropped = c.dropped /\ Kept(c, e)
      /\ \A d \in Devices : e.active[d] \in {c.active[d], NoSession}
  BY ClearFacts
<1> HIDE DEF e
<1>2. Gone(c, e, {})
  BY <1>1 DEF Gone
<1>3. {} \in SUBSET Keys
  OBVIOUS
<1>4. (Cycles(c) => Cycles(e)) /\ Goes(c, e, {}) /\ SameAsked(c, e)
  BY <1>1, <1>2, <1>3, GoneFacts
<1> QED BY <1>1, <1>4 DEF Less, Quiet, e

LEMMA BeginWaitingFacts ==
  ASSUME NEW c \in App, NEW k \in Keys, Found(c, k)
  PROVE  Less(c, BeginWaitingForAudioEnd(c, k))
<1> DEFINE x == c.cycles[k]
<1> DEFINE next == x.generation + 1
<1> DEFINE y == [x EXCEPT !.waiting = TRUE, !.generation = next]
<1> DEFINE timers == c.timers \cup {<<k, next>>}
<1>1. BeginWaitingForAudioEnd(c, k) \in {c, [Put(c, k, y) EXCEPT !.timers = timers]}
  BY DEF BeginWaitingForAudioEnd, Put, App
<1>2. x \in Cycle
  BY FoundFacts
<1> HIDE DEF x
<1>3. next \in Nat
  BY <1>2 DEF Cycle
<1>4. timers \in SUBSET (Keys \X Nat)
  BY <1>3 DEF App
<1> HIDE DEF next, timers
<1>5. /\ y \in Cycle /\ y.of = x.of /\ y.finished = x.finished
      /\ y.fed = x.fed /\ y.buffered = x.buffered
      /\ y.sentFinal = x.sentFinal /\ y.tells = x.tells
  BY <1>2, <1>3 DEF Cycle
<1> HIDE DEF y
<1>6. Cycles(c) => Sound(y) /\ Waits(y)
  BY <1>5, CyclesFacts DEF Sound, Waits, x
<1>7. GoesOn(c.cycles[k], y)
  BY <1>5 DEF GoesOn, x
<1>8. Less(c, Put(c, k, y))
  BY <1>6, <1>7, PutLess
<1>9. Less(Put(c, k, y), [Put(c, k, y) EXCEPT !.timers = timers])
  BY <1>4, <1>8, TimersFacts DEF Less
<1> QED BY <1>1, <1>8, <1>9, LessTwice, LessSelf

LEMMA FinishInputFacts ==
  ASSUME NEW c \in App, NEW k \in Keys
  PROVE  Less(c, FinishAudioInput(c, k))
<1>1. Less(c, Clear(c, k))
  BY ClearLess
<1>2. Less(Clear(c, k), SendUiState(Clear(c, k), k[1], "ready"))
  BY <1>1, SendFacts, LessAside DEF Less, Tellable
<1>3. Less(c, SendUiState(c, k[1], "thinking"))
  BY SendFacts, LessAside DEF Tellable
<1> QED BY <1>1, <1>2, <1>3, LessTwice DEF FinishAudioInput

LEMMA ButtonUpFacts ==
  ASSUME NEW c \in App, Cycles(c), NEW d \in Devices
  PROVE  Less(c, HandlePrimaryButtonUp(c, d))
<1> DEFINE k == ActiveKey(c, d)
<1>1. CASE ~HasActive(c, d)
  BY <1>1, LessSelf DEF HandlePrimaryButtonUp
<1>2. CASE HasActive(c, d)
  <2>1. k \in Keys /\ Found(c, k)
    BY <1>2, ActiveFacts DEF Cycles, CyclesBut
  <2>2. HandlePrimaryButtonUp(c, d) \in
          {CancelCycle(c, k), FinishAudioInput(BeginWaitingForAudioEnd(c, k), k)}
    BY <1>2 DEF HandlePrimaryButtonUp
  <2> HIDE DEF k
  <2>3. Less(c, CancelCycle(c, k))
    BY <2>1, CancelFacts
  <2>4. Less(c, BeginWaitingForAudioEnd(c, k))
    BY <2>1, BeginWaitingFacts
  <2>5. Less(BeginWaitingForAudioEnd(c, k), FinishAudioInput(BeginWaitingForAudioEnd(c, k), k))
    BY <2>1, <2>4, FinishInputFacts DEF Less
  <2> QED BY <2>2, <2>3, <2>4, <2>5, LessTwice
<1> QED BY <1>1, <1>2

LEMMA SideFacts ==
  ASSUME NEW c \in App, Cycles(c), NEW d \in Devices
  PROVE  Less(c, HandleSecondaryButtonClick(c, d))
<1>1. ASSUME HasActive(c, d)
      PROVE  Less(c, CancelCycle(c, ActiveKey(c, d)))
  BY <1>1, ActiveFacts, CancelFacts
<1>2. Less(c, CancelSubtitleCyclesForDevice(c, d))
  <2> DEFINE a == EraseAll(c, OfDevice(d))
  <2> DEFINE h == Displayed(a, Hide(NoCallback))
  <2>1. Less(c, a)
    BY EraseAllFacts DEF OfDevice
  <2>2. CancelSubtitleCyclesForDevice(c, d) = SendUiState(h, d, "ready")
    BY DEF CancelSubtitleCyclesForDevice
  <2> HIDE DEF a
  <2>3. h \in App /\ Less(a, h)
    BY <2>1, HideFacts, DisplayedFacts, LessAside DEF Less
  <2> HIDE DEF h
  <2>4. Less(h, SendUiState(h, d, "ready"))
    BY <2>3, SendFacts, LessAside DEF Tellable
  <2> QED BY <2>1, <2>2, <2>3, <2>4, LessTwice
<1> QED BY <1>1, <1>2, LessSelf DEF HandleSecondaryButtonClick

\* From c to e cycle k begins, of recording i.
Begins(c, e, k, i) ==
  /\ ~Found(c, k)
  /\ \A j \in Keys : e.cycles[j] = IF j = k THEN NewCycle(i) ELSE c.cycles[j]
  /\ \A d \in Devices : e.active[d] = IF d = k[1] THEN k[2] ELSE c.active[d]
  /\ e.dropped = c.dropped /\ e.translating = c.translating
  /\ c.late \/ Haunted(c, k) => e.late
  /\ SameAsked(c, e)

LEMMA NewFacts ==
  ASSUME NEW i \in Inputs
  PROVE  /\ NewCycle(i) \in Cycle /\ NewCycle(i) # None
         /\ Sound(NewCycle(i)) /\ Waits(NewCycle(i)) /\ NewCycle(i).of = i
<1> DEFINE x == NewCycle(i)
<1>1. x \in Cycle
  BY NeatEmpty DEF NewCycle, Cycle
<1>2. /\ x.of = i /\ x.fed = <<>> /\ x.buffered = <<>> /\ x.tells = "nothing"
      /\ x.finished = FALSE
  BY DEF NewCycle
<1> HIDE DEF x
<1>3. Sound(x) /\ Waits(x)
  BY <1>2, NeatEmpty DEF Sound, Waits
<1>4. x # None
  <2>1. None.of = NoInput /\ NoInput \notin Inputs
    BY BoundsAssumption DEF None, NoInput, Inputs
  <2> QED BY <1>2, <2>1
<1> QED BY <1>1, <1>2, <1>3, <1>4 DEF x

LEMMA ButtonDownFacts ==
  ASSUME NEW c \in App, Cycles(c), NEW k \in Keys, NEW i \in Inputs
  PROVE  LET e == HandlePrimaryButtonDown(c, k, i)
         IN  e = c \/ (e \in App /\ Begins(c, e, k, i))
<1>1. CASE Known(c, k)
  BY <1>1 DEF HandlePrimaryButtonDown
<1>2. CASE ~Known(c, k)
  <2> DEFINE cycles == [c.cycles EXCEPT ![k] = NewCycle(i)]
  <2> DEFINE active == [c.active EXCEPT ![k[1]] = k[2]]
  <2> DEFINE late == c.late \/ Haunted(c, k)
  <2> DEFINE b == [c EXCEPT !.cycles = cycles, !.active = active, !.late = late]
  <2> DEFINE h == Displayed(b, Listening)
  <2> DEFINE e == SendUiState(h, k[1], "recording")
  <2>1. HandlePrimaryButtonDown(c, k, i) = e
    BY <1>2 DEF HandlePrimaryButtonDown
  <2>2. k[1] \in Devices /\ k[2] \in 0..MaxInputs
    BY KeyFacts
  <2>3. cycles \in [Keys -> Cycle \cup {None}]
    BY NewFacts DEF App
  <2>4. active \in [Devices -> 0..MaxInputs]
    BY <2>2 DEF App
  <2>5. late \in BOOLEAN
    BY DEF App, Haunted
  <2>6. /\ \A j \in Keys : cycles[j] = IF j = k THEN NewCycle(i) ELSE c.cycles[j]
        /\ \A d \in Devices : active[d] = IF d = k[1] THEN k[2] ELSE c.active[d]
    BY <2>2 DEF App
  <2>7. late <=> c.late \/ Haunted(c, k)
    OBVIOUS
  <2> HIDE DEF cycles, active, late
  <2>8. /\ b \in App /\ b.cycles = cycles /\ b.active = active /\ b.late = late
        /\ b.dropped = c.dropped /\ b.translating = c.translating
        /\ b.posted = c.posted /\ b.shown = c.shown
    BY <2>3, <2>4, <2>5 DEF App
  <2> HIDE DEF b
  <2>9. SameAsked(c, b)
    BY <2>8 DEF SameAsked, Asked
  <2>10. h \in App /\ Aside(b, h)
    BY <2>8, CallFacts, DisplayedFacts
  <2> HIDE DEF h
  <2>11. e \in App /\ Aside(h, e)
    BY <2>10, SendFacts DEF Tellable
  <2> HIDE DEF e
  <2>12. Aside(b, e)
    BY <2>10, <2>11, AsideTwice
  <2>13. SameAsked(c, e)
    BY <2>9, <2>12 DEF Aside, SameAsked
  <2>14. ~Found(c, k)
    BY <1>2 DEF Known
  <2>15. Begins(c, e, k, i)
    BY <2>6, <2>7, <2>8, <2>12, <2>13, <2>14 DEF Begins, Aside
  <2> QED BY <2>1, <2>11, <2>15
<1> QED BY <1>1, <1>2

-----------------------------------------------------------------------------
\* What workers and the translator report.

\* From c to e a subtitle of recording i may be asked for, and nothing else.
Shows(c, e, i) ==
  /\ e.cycles = c.cycles /\ e.active = c.active /\ e.mode = c.mode
  /\ e.timers = c.timers /\ e.connected = c.connected
  /\ e.dropped = c.dropped /\ e.translating = c.translating /\ e.late = c.late
  /\ \A j \in Inputs \ {i} : Asked(e, j) = Asked(c, j)

\* From c to e no cycle begins, those of ks may go, and a subtitle of i may be
\* asked for.
Reports(c, e, ks, i) ==
  /\ e \in App /\ (Cycles(c) => Cycles(e)) /\ Goes(c, e, ks)
  /\ \A j \in Inputs \ {i} : Asked(e, j) = Asked(c, j)

LEMMA ShowsReports ==
  ASSUME NEW c, NEW e \in App, NEW i, Shows(c, e, i)
  PROVE  Reports(c, e, {}, i)
<1>1. Cycles(c) => Cycles(e)
  BY DEF Shows, Cycles, CyclesBut, Found, HasActive, ActiveKey
<1>2. Goes(c, e, {})
  BY DEF Shows, Goes, Found
<1> QED BY <1>1, <1>2 DEF Shows, Reports

LEMMA LessReports ==
  ASSUME NEW c, NEW e, Less(c, e), NEW i
  PROVE  Reports(c, e, {}, i)
BY DEF Less, Quiet, SameAsked, Reports

LEMMA ReportsTwice ==
  ASSUME NEW c, NEW d, NEW e, NEW ks, NEW ls, NEW i, Reports(c, d, ks, i), Reports(d, e, ls, i)
  PROVE  Reports(c, e, ks \cup ls, i)
BY GoesTwice DEF Reports

LEMMA FinishReports ==
  ASSUME NEW c \in App, NEW k \in Keys, NEW t, NEW hide, NEW i \in Inputs
  PROVE  Reports(c, FinishCycle(c, k, t, hide, i), {k}, i)
<1> DEFINE e == FinishCycle(c, k, t, hide, i)
<1>1. e \in App /\ (Cycles(c) => Cycles(e)) /\ Goes(c, e, {k}) /\ SameAsked(c, e)
  BY FinishFacts
<1> HIDE DEF e
<1> QED BY <1>1 DEF Reports, SameAsked, e

LEMMA SubtitleReports ==
  ASSUME NEW c \in App, NEW d, NEW t, t # "ui", NEW i \in Inputs
  PROVE  Reports(c, ShowSubtitle(c, d, t, i), {}, i)
<1> DEFINE h == Display(c, t, Hide(NoCallback), i)
<1> DEFINE b == IF HasActive(c, d) THEN c ELSE h
<1> DEFINE e == Posted(b, Subtitle(i), i)
<1>1. h \in App /\ Aside(c, h)
  BY HideFacts, DisplayFacts
<1>2. Less(c, b)
  BY <1>1, LessAside, LessSelf
<1>3. ShowSubtitle(c, d, t, i) = e
  BY DEF ShowSubtitle, Display, Posted
<1> HIDE DEF h, b
<1>4. b \in App
  BY <1>2 DEF Less
<1> DEFINE post == [call |-> Subtitle(i), of |-> i]
<1>5. Subtitle(i) \in Call /\ \A j \in Inputs : Subtitle(j).of = j
  BY CallFacts
<1>6. e \in App /\ e.posted = Append(b.posted, post)
  BY <1>4, <1>5, PostedFacts
<1>7. \A f \in {"cycles", "active", "mode", "timers", "connected", "dropped",
                "translating", "late", "shown"} : e[f] = b[f]
  BY <1>4, <1>5, PostedFacts
<1>8. post \in [call : Call, of : Inputs] /\ post.call = Subtitle(i)
  BY <1>5
<1>9. b.posted \in Seq([call : Call, of : Inputs])
  BY <1>4 DEF App
<1> HIDE DEF e, post
<1>10. \A j \in Inputs \ {i} : Asks(e.posted, j) = Asks(b.posted, j)
  <2> TAKE j \in Inputs \ {i}
  <2>1. post.call # Subtitle(j)
    BY <1>5, <1>8
  <2> QED BY <1>6, <1>8, <1>9, <2>1, AsksAppend
<1>11. \A j \in Inputs \ {i} : Asked(e, j) = Asked(b, j)
  BY <1>7, <1>10 DEF Asked
<1>12. Shows(b, e, i)
  BY <1>7, <1>11 DEF Shows
<1>13. Reports(b, e, {}, i)
  BY <1>6, <1>12, ShowsReports
<1>14. Reports(c, b, {}, i)
  BY <1>2, LessReports
<1>15. Reports(c, e, {} \cup {}, i)
  BY <1>13, <1>14, ReportsTwice
<1> QED BY <1>3, <1>15

\* The translator is given x.
Given(c, x) == [c EXCEPT !.translating = @ \cup {x}]

LEMMA GivenFacts ==
  ASSUME NEW c \in App, NEW x \in [key : Keys, of : Inputs, final : BOOLEAN]
  PROVE  /\ Given(c, x) \in App
         /\ Given(c, x).translating = c.translating \cup {x}
         /\ \A f \in {"cycles", "active", "dropped", "late", "posted", "shown"} : Given(c, x)[f] = c[f]
<1> DEFINE translating == c.translating \cup {x}
<1>1. translating \in SUBSET [key : Keys, of : Inputs, final : BOOLEAN]
  BY DEF App
<1>2. Given(c, x) = [c EXCEPT !.translating = translating]
  BY DEF Given
<1> HIDE DEF translating
<1>3. Given(c, x) \in App /\ Given(c, x).translating = translating
  BY <1>1, <1>2 DEF App
<1>4. \A f \in {"cycles", "active", "dropped", "late", "posted", "shown"} : Given(c, x)[f] = c[f]
  BY <1>2 DEF App
<1> QED BY <1>3, <1>4 DEF translating

\* Marked(c, k) is c with the text of cycle k told.
Marked(c, k) == Put(c, k, [c.cycles[k] EXCEPT !.finished = TRUE])

LEMMA MarkedFacts ==
  ASSUME NEW c \in App, NEW k \in Keys, Found(c, k), c.cycles[k].sentFinal
  PROVE  /\ Less(c, Marked(c, k)) /\ Found(Marked(c, k), k)
         /\ Marked(c, k).cycles[k].of = c.cycles[k].of /\ Marked(c, k).cycles[k].finished
<1> DEFINE x == c.cycles[k]
<1> DEFINE y == [x EXCEPT !.finished = TRUE]
<1>1. x \in Cycle /\ x.sentFinal
  BY FoundFacts
<1>2. Marked(c, k) = Put(c, k, y)
  BY DEF Marked
<1> HIDE DEF x
<1>3. /\ y \in Cycle /\ y.of = x.of /\ y.finished = TRUE
      /\ y.fed = x.fed /\ y.buffered = x.buffered
      /\ y.sentFinal = x.sentFinal /\ y.tells = x.tells
  BY <1>1 DEF Cycle
<1> HIDE DEF y
<1>4. Cycles(c) => Sound(y) /\ Waits(y)
  BY <1>1, <1>3, CyclesFacts DEF Sound, Waits, x
<1>5. GoesOn(c.cycles[k], y)
  BY <1>3 DEF GoesOn, x
<1>6. Less(c, Put(c, k, y))
  BY <1>4, <1>5, PutLess
<1>7. Found(Put(c, k, y), k) /\ Put(c, k, y).cycles[k] = y
  BY <1>5, PutFound
<1> QED BY <1>2, <1>3, <1>6, <1>7 DEF x

\* The final text goes to the translator, or is the end of the cycle.
LEMMA FinalTextFacts ==
  ASSUME NEW c \in App, NEW k \in Keys, Found(c, k), c.cycles[k].sentFinal,
         NEW t, t # "ui", NEW empty \in BOOLEAN
  PROVE  LET i == c.cycles[k].of
             e == FinishWithFinalText(c, k, t, empty)
         IN  \/ Reports(c, e, {k}, i)
             \/ e = Given(Marked(c, k), [key |-> k, of |-> i, final |-> TRUE])
<1> DEFINE i == c.cycles[k].of
<1> DEFINE e == FinishWithFinalText(c, k, t, empty)
<1> DEFINE done == Marked(c, k)
<1>1. i \in Inputs /\ c.cycles[k].finished \in BOOLEAN
  BY FoundFacts DEF Cycle
<1>2. Reports(c, c, {k}, i)
  BY GoesSelf DEF Reports
<1>3. Less(c, done)
  BY MarkedFacts
<1>4. [c EXCEPT !.cycles[k].finished = TRUE] = done
  BY DEF Marked, Put, App
<1>5. e \in {c, FinishCycle(done, k, t, ShouldHide(done, k), i),
             Given(done, [key |-> k, of |-> i, final |-> TRUE]),
             FinishCycle(ShowSubtitle(done, k[1], t, i), k, t, ShouldHide(done, k), i)}
  <2> HIDE DEF done
  <2>1. CASE c.cycles[k].finished
    BY <2>1 DEF FinishWithFinalText
  <2>2. CASE ~c.cycles[k].finished /\ empty
    BY <1>4, <2>2 DEF FinishWithFinalText
  <2>3. CASE ~c.cycles[k].finished /\ ~empty /\ k[1] \in Translating
    BY <1>4, <2>3 DEF FinishWithFinalText, Given
  <2>4. CASE ~c.cycles[k].finished /\ ~empty /\ k[1] \notin Translating
    BY <1>4, <2>4 DEF FinishWithFinalText
  <2> QED BY <2>1, <2>2, <2>3, <2>4
<1> HIDE DEF done, e, i
<1>6. done \in App /\ Reports(c, done, {}, i)
  BY <1>3, LessReports DEF Less
<1>7. \A hide : Reports(c, FinishCycle(done, k, t, hide, i), {k}, i)
  <2> TAKE hide
  <2>1. Reports(done, FinishCycle(done, k, t, hide, i), {k}, i)
    BY <1>1, <1>6, FinishReports
  <2>2. Reports(c, FinishCycle(done, k, t, hide, i), {} \cup {k}, i)
    BY <1>6, <2>1, ReportsTwice
  <2> QED BY <2>2
<1>8. \A hide : Reports(c, FinishCycle(ShowSubtitle(done, k[1], t, i), k, t, hide, i), {k}, i)
  <2> TAKE hide
  <2> DEFINE s == ShowSubtitle(done, k[1], t, i)
  <2>1. Reports(done, s, {}, i)
    BY <1>1, <1>6, SubtitleReports
  <2> HIDE DEF s
  <2>2. Reports(s, FinishCycle(s, k, t, hide, i), {k}, i)
    <3>1. s \in App
      BY <2>1 DEF Reports
    <3> QED BY <1>1, <3>1, FinishReports
  <2>3. Reports(c, s, {} \cup {}, i)
    BY <1>6, <2>1, ReportsTwice
  <2>4. Reports(c, FinishCycle(s, k, t, hide, i), ({} \cup {}) \cup {k}, i)
    BY <2>2, <2>3, ReportsTwice
  <2>5. ({} \cup {}) \cup {k} = {k}
    OBVIOUS
  <2> QED BY <2>4, <2>5 DEF s
<1> QED BY <1>2, <1>5, <1>7, <1>8 DEF i, e, done

LEMMA PartialFacts ==
  ASSUME NEW c \in App, NEW k \in Keys, Found(c, k), NEW t
  PROVE  Less(c, Partially(c, k, t))
<1> DEFINE h == Display(c, t, Partial, c.cycles[k].of)
<1>1. h \in App /\ Aside(c, h)
  BY FoundFacts, CallFacts, DisplayFacts
<1>2. Partially(c, k, t) \in {c, h, SendUiState(h, k[1], "thinking")}
  BY DEF Partially
<1> HIDE DEF h
<1>3. Less(h, SendUiState(h, k[1], "thinking"))
  BY <1>1, SendFacts, LessAside DEF Tellable
<1>4. Less(c, h)
  BY <1>1, LessAside
<1> QED BY <1>2, <1>3, <1>4, LessTwice, LessSelf

LEMMA SegmentFacts ==
  ASSUME NEW c \in App, NEW k \in Keys, Found(c, k), NEW t, t # "ui"
  PROVE  LET i == c.cycles[k].of
             e == Segmented(c, k, t)
             h == Display(c, t, Hide(NoCallback), i)
         IN  /\ Less(c, h)
             /\ \/ Reports(c, e, {}, i)
                \/ e = Given(h, [key |-> k, of |-> i, final |-> FALSE])
<1> DEFINE i == c.cycles[k].of
<1> DEFINE h == Display(c, t, Hide(NoCallback), i)
<1>1. i \in Inputs
  BY FoundFacts
<1>2. h \in App /\ Less(c, h)
  BY <1>1, HideFacts, DisplayFacts, LessAside
<1>3. Segmented(c, k, t) \in {c, Given(h, [key |-> k, of |-> i, final |-> FALSE]),
                              ShowSubtitle(h, k[1], t, i)}
  BY DEF Segmented, Given
<1> HIDE DEF h, i
<1>4. Reports(h, ShowSubtitle(h, k[1], t, i), {}, i)
  BY <1>1, <1>2, SubtitleReports
<1>5. Reports(c, h, {}, i) /\ Reports(c, c, {}, i)
  BY <1>2, LessReports, LessSelf
<1>6. Reports(c, ShowSubtitle(h, k[1], t, i), {} \cup {}, i)
  BY <1>4, <1>5, ReportsTwice
<1>7. Reports(c, ShowSubtitle(h, k[1], t, i), {}, i)
  BY <1>6
<1> QED BY <1>2, <1>3, <1>5, <1>7 DEF h, i

-----------------------------------------------------------------------------
\* Steps.

State(c, w, n) == Cycles(c) /\ Returns(c) /\ Held(c, w, n)

\* RecordingGoesOn and DroppedNotShown of a step from c to e.
Spared(c, e) ==
  \A d \in Devices : Recording(c, d) /\ ~c.late =>
    LET k == ActiveKey(c, d)
    IN  c.cycles[k].of \notin e.dropped => e.cycles[k].of = c.cycles[k].of
AskedFor(c, e) ==
  \A i \in c.dropped : Asked(e, i) > Asked(c, i) => c.late \/ \E x \in c.translating : x.of = i

\* What a step must leave behind.
Good == IInv' /\ Spared(app, app') /\ AskedFor(app, app')

Count == [input : 0..MaxInputs, event : 0..MaxEvents]

LEMMA GoodStep ==
  ASSUME app' \in App, dev' \in [Devices -> Sending], count' \in Count,
         State(app', dev', count'.input), Numbered(dev', count'.input),
         Spared(app, app'), AskedFor(app, app')
  PROVE  Good
BY DEF Good, IInv, TypeOK, State, Count

LEMMA AskedNumbers ==
  ASSUME NEW c \in App, NEW i \in Inputs
  PROVE  Asks(c.posted, i) \subseteq 1..Len(c.posted) /\ IsFiniteSet(Asks(c.posted, i)) /\ Asked(c, i) \in Nat
<1>1. c.posted \in Seq([call : Call, of : Inputs]) /\ c.shown[i] \in Nat
  BY DEF App
<1>2. Len(c.posted) \in Nat /\ DOMAIN c.posted = 1..Len(c.posted)
  BY <1>1
<1>3. Asks(c.posted, i) \subseteq 1..Len(c.posted)
  BY <1>2 DEF Asks
<1>4. IsFiniteSet(1..Len(c.posted))
  BY <1>2, FS_Interval
<1>5. IsFiniteSet(Asks(c.posted, i))
  BY <1>3, <1>4, FS_Subset
<1>6. Cardinality(Asks(c.posted, i)) \in Nat
  BY <1>5, FS_CardinalityType
<1> QED BY <1>1, <1>3, <1>5, <1>6 DEF Asked

LEMMA SameAskedFor ==
  ASSUME NEW c \in App, NEW e, NEW i, \A j \in Inputs \ {i} : Asked(e, j) = Asked(c, j),
         c.late \/ i \notin c.dropped \/ \E x \in c.translating : x.of = i
  PROVE  AskedFor(c, e)
<1> SUFFICES ASSUME NEW j \in c.dropped, Asked(e, j) > Asked(c, j)
             PROVE  c.late \/ \E x \in c.translating : x.of = j
  BY DEF AskedFor
<1>1. j \in Inputs
  BY DEF App
<1>2. Asked(c, j) \in Nat
  BY <1>1, AskedNumbers
<1>3. j = i
  BY <1>1, <1>2
<1> QED BY <1>3

LEMMA GoesSpared ==
  ASSUME NEW c \in App, Cycles(c), NEW e, NEW ks, Goes(c, e, ks),
         \A d \in Devices : Recording(c, d) /\ ~c.late => ActiveKey(c, d) \notin ks
  PROVE  Spared(c, e)
<1> SUFFICES ASSUME NEW d \in Devices, Recording(c, d), ~c.late,
                    c.cycles[ActiveKey(c, d)].of \notin e.dropped
             PROVE  e.cycles[ActiveKey(c, d)].of = c.cycles[ActiveKey(c, d)].of
  BY DEF Spared
<1> DEFINE k == ActiveKey(c, d)
<1>1. HasActive(c, d)
  BY DEF Recording
<1>2. k \in Keys /\ Found(c, k) /\ k \notin ks
  BY <1>1, ActiveFacts DEF Cycles, CyclesBut
<1>3. Found(e, k)
  BY <1>2 DEF Goes
<1> QED BY <1>2, <1>3 DEF Goes

\* The same of a step that ends a cycle which has its text.
LEMMA ReportsStep ==
  ASSUME NEW c \in App, NEW w, NEW n, State(c, w, n), NEW e, NEW ks, NEW i, Reports(c, e, ks, i),
         c.late \/ i \notin c.dropped \/ \E x \in c.translating : x.of = i,
         \A d \in Devices : Recording(c, d) /\ ~c.late => ActiveKey(c, d) \notin ks
  PROVE  e \in App /\ State(e, w, n) /\ Spared(c, e) /\ AskedFor(c, e)
<1>1. Goes(c, e, ks) /\ e \in App /\ Cycles(c) /\ Cycles(e)
  BY DEF Reports, State
<1>2. State(e, w, n)
  BY <1>1, GoesReturns, GoesHeld DEF State
<1>3. Spared(c, e)
  BY <1>1, GoesSpared
<1>4. AskedFor(c, e)
  BY SameAskedFor DEF Reports
<1> QED BY <1>1, <1>2, <1>3, <1>4

LEMMA LessState ==
  ASSUME NEW c \in App, NEW w, NEW n, State(c, w, n), NEW e, Less(c, e)
  PROVE  e \in App /\ State(e, w, n) /\ Spared(c, e) /\ AskedFor(c, e)
<1>1. NoInput \notin c.dropped
  BY BoundsAssumption DEF App, NoInput, Inputs
<1>2. Reports(c, e, {}, NoInput)
  BY LessReports
<1> QED BY <1>1, <1>2, ReportsStep

\* A device goes on with what it sends.
Onward(x, y) ==
  /\ y.session = x.session /\ y.input = x.input
  /\ ~y.up /\ ~y.down => ~x.up /\ ~x.down
  /\ ~y.up \/ ~y.ended => ~x.up \/ ~x.ended
  /\ \/ y.tail = NoTail
     \/ x.tail # NoTail /\ y.tail.session = x.tail.session /\ y.tail.input = x.tail.input
Moves(w, v) == \A d \in Devices : Onward(w[d], v[d])

LEMMA MovesNumbered ==
  ASSUME NEW w, NEW v, Moves(w, v), NEW n, Numbered(w, n)
  PROVE  Numbered(v, n)
<1>1. \A d \in Devices : Sends(v[d], n)
  BY DEF Moves, Onward, Numbered, Sends
<1>2. \A d \in Devices : v[d].input = w[d].input
  BY DEF Moves, Onward
<1> QED BY <1>1, <1>2 DEF Numbered

LEMMA MovesHeld ==
  ASSUME NEW w, NEW v, Moves(w, v), NEW c, NEW n, Held(c, w, n)
  PROVE  Held(c, v, n)
<1>1. Owned(c, v)
  <2> SUFFICES ASSUME NEW k \in Keys, Found(c, k)
               PROVE  LET x == v[k[1]]
                      IN  /\ k[2] <= x.session
                          /\ k[2] = x.session => c.cycles[k].of = x.input
                          /\ x.tail # NoTail /\ k[2] = x.tail.session => c.cycles[k].of = x.tail.input
    BY DEF Owned
  <2>1. Onward(w[k[1]], v[k[1]])
    BY KeyFacts DEF Moves
  <2> QED BY <2>1 DEF Onward, Held, Owned
<1>2. Fresh(c, v)
  BY DEF Moves, Onward, Held, Fresh
<1> QED BY <1>1, <1>2 DEF Held

LEMMA CountEvent ==
  ASSUME TypeOK, count.event < MaxEvents, Counted("event")
  PROVE  count' \in Count /\ count'.input = count.input
<1>1. count'.input = count.input /\ count' = [count EXCEPT !.event = @ + 1]
  BY DEF Counted, TypeOK
<1>2. count.event + 1 \in 0..MaxEvents
  BY BoundsAssumption DEF TypeOK
<1> QED BY <1>1, <1>2 DEF TypeOK, Count

LEMMA CountSame ==
  ASSUME TypeOK, count' = count
  PROVE  count' \in Count /\ count'.input = count.input
BY DEF TypeOK, Count

LEMMA IInvFacts ==
  ASSUME IInv
  PROVE  /\ app \in App /\ dev \in [Devices -> Sending] /\ TypeOK
         /\ Cycles(app) /\ State(app, dev, count.input) /\ Numbered(dev, count.input)
BY DEF IInv, TypeOK, State

LEMMA SameMoves ==
  Moves(dev, dev)
BY DEF Moves, Onward

\* A step that takes cycles further or away while the devices go on.
LEMMA LessStep ==
  ASSUME IInv, Less(app, app'), dev' \in [Devices -> Sending], Moves(dev, dev'),
         count' \in Count, count'.input = count.input
  PROVE  Good
<1>1. app' \in App /\ State(app', dev, count.input) /\ Spared(app, app') /\ AskedFor(app, app')
  BY IInvFacts, LessState
<1>2. State(app', dev', count'.input)
  BY <1>1, MovesHeld DEF State
<1>3. Numbered(dev', count'.input)
  BY IInvFacts, MovesNumbered
<1> QED BY <1>1, <1>2, <1>3, GoodStep

LEMMA AudioCount ==
  ASSUME TypeOK, NEW luck \in Lucks, luck # "ok" => count.event < MaxEvents,
         IF luck = "ok" THEN UNCHANGED count ELSE Counted("event")
  PROVE  count' \in Count /\ count'.input = count.input
BY CountEvent, CountSame

\* A device that is sending has a key of its own.
LEMMA SendingKey ==
  ASSUME IInv, NEW d \in Devices, ~dev[d].up \/ ~dev[d].ended
  PROVE  /\ KeyOf(d) \in Keys /\ KeyOf(d)[1] = d /\ KeyOf(d)[2] = dev[d].session
         /\ dev[d].input \in Inputs /\ dev[d].input \in 1..count.input
         /\ Found(app, KeyOf(d)) => app.cycles[KeyOf(d)].of = dev[d].input
<1>1. dev[d] \in Sending /\ count.input \in 0..MaxInputs /\ Sends(dev[d], count.input)
  BY DEF IInv, TypeOK, Numbered
<1>2. dev[d].session \in 1..MaxInputs /\ dev[d].input \in Inputs /\ dev[d].input \in 1..count.input
  BY <1>1, BoundsAssumption DEF Sends, Sending, Inputs
<1>3. KeyOf(d) \in Keys /\ KeyOf(d)[1] = d /\ KeyOf(d)[2] = dev[d].session
  BY <1>2, KeyFacts DEF KeyOf
<1>4. Found(app, KeyOf(d)) => app.cycles[KeyOf(d)].of = dev[d].input
  BY <1>3 DEF IInv, Held, Owned
<1> QED BY <1>2, <1>3, <1>4

LEMMA TailKey ==
  ASSUME IInv, NEW d \in Devices, dev[d].tail # NoTail
  PROVE  LET k == <<d, dev[d].tail.session>>
         IN  /\ k \in Keys
             /\ dev[d].tail.input \in Inputs
             /\ Found(app, k) => app.cycles[k].of = dev[d].tail.input
<1> DEFINE k == <<d, dev[d].tail.session>>
<1>1. dev[d] \in Sending /\ count.input \in 0..MaxInputs /\ Sends(dev[d], count.input)
  BY DEF IInv, TypeOK, Numbered
<1>2. dev[d].tail.session \in 1..MaxInputs /\ dev[d].tail.input \in Inputs
  BY <1>1, BoundsAssumption DEF Sends, Sending, Inputs
<1>3. k \in Keys /\ k[1] = d /\ k[2] = dev[d].tail.session
  BY <1>2, KeyFacts
<1> HIDE DEF k
<1>4. Found(app, k) => app.cycles[k].of = dev[d].tail.input
  BY <1>3 DEF IInv, Held, Owned
<1> QED BY <1>2, <1>3, <1>4 DEF k

\* The device that moves.
LEMMA DeviceMoves ==
  ASSUME TypeOK, NEW d \in Devices, NEW y \in Sending, Onward(dev[d], y),
         dev' = [dev EXCEPT ![d] = y]
  PROVE  dev' \in [Devices -> Sending] /\ Moves(dev, dev')
<1>1. dev' \in [Devices -> Sending]
  BY DEF TypeOK
<1>2. \A e \in Devices : dev'[e] = IF e = d THEN y ELSE dev[e]
  BY DEF TypeOK
<1> QED BY <1>1, <1>2 DEF Moves, Onward

Tails == [session : 0..MaxInputs, input : 0..MaxInputs, frames : 0..MaxFrames]
LEMMA NoTailFacts ==
  NoTail \in Tails
BY BoundsAssumption DEF Tails, NoTail, NoSession, NoInput

LEMMA FrameStep ==
  ASSUME IInv, NEW d \in Devices, NEW luck \in Lucks, Frame(d, luck),
         count' \in Count, count'.input = count.input
  PROVE  Good
<1> DEFINE x == dev[d]
<1> DEFINE frames == x.frames + 1
<1> DEFINE y == [x EXCEPT !.frames = frames, !.tail = NoTail]
<1>1. x \in Sending
  BY DEF IInv, TypeOK
<1>2. frames \in 0..MaxFrames
  BY <1>1, BoundsAssumption DEF Frame, Sending
<1>3. dev' = [dev EXCEPT ![d] = y]
  BY DEF Frame, IInv, TypeOK
<1> HIDE DEF x, frames
<1>4. y \in Sending /\ Onward(x, y)
  BY <1>1, <1>2, NoTailFacts DEF Sending, Tails, Onward
<1> HIDE DEF y
<1>5. dev' \in [Devices -> Sending] /\ Moves(dev, dev')
  BY <1>3, <1>4, DeviceMoves DEF IInv, x
<1>6. Less(app, app')
  BY SendingKey, AudioFrameFacts, IInvFacts DEF Frame
<1> QED BY <1>5, <1>6, LessStep

LEMMA EndStep ==
  ASSUME IInv, NEW d \in Devices, NEW luck \in Lucks, End(d, luck),
         count' \in Count, count'.input = count.input
  PROVE  Good
<1> DEFINE x == dev[d]
<1> DEFINE y == [x EXCEPT !.ended = TRUE, !.tail = NoTail]
<1>1. x \in Sending
  BY DEF IInv, TypeOK
<1>2. dev' = [dev EXCEPT ![d] = y]
  BY DEF End, IInv, TypeOK
<1> HIDE DEF x
<1>3. y \in Sending /\ Onward(x, y)
  BY <1>1, NoTailFacts DEF Sending, Tails, Onward
<1> HIDE DEF y
<1>4. dev' \in [Devices -> Sending] /\ Moves(dev, dev')
  BY <1>2, <1>3, DeviceMoves DEF IInv, x
<1>5. Less(app, app')
  BY SendingKey, AudioEndFacts, IInvFacts DEF End
<1> QED BY <1>4, <1>5, LessStep

LEMMA TailFrameStep ==
  ASSUME IInv, NEW d \in Devices, NEW luck \in Lucks, TailFrame(d, luck),
         count' \in Count, count'.input = count.input
  PROVE  Good
<1> DEFINE x == dev[d]
<1> DEFINE tail == [x.tail EXCEPT !.frames = @ + 1]
<1> DEFINE y == [x EXCEPT !.tail = tail]
<1>1. x \in Sending /\ x.tail # NoTail /\ x.tail.frames < MaxFrames
  BY DEF IInv, TypeOK, TailFrame
<1>2. tail \in Tails /\ tail.session = x.tail.session /\ tail.input = x.tail.input
  BY <1>1, BoundsAssumption DEF Sending, Tails
<1>3. dev' = [dev EXCEPT ![d] = y]
  BY DEF TailFrame, IInv, TypeOK
<1> HIDE DEF x, tail
<1>4. y \in Sending /\ Onward(x, y)
  BY <1>1, <1>2 DEF Sending, Tails, Onward
<1> HIDE DEF y
<1>5. dev' \in [Devices -> Sending] /\ Moves(dev, dev')
  BY <1>3, <1>4, DeviceMoves DEF IInv, x
<1>6. Less(app, app')
  BY TailKey, AudioFrameFacts, IInvFacts DEF TailFrame
<1> QED BY <1>5, <1>6, LessStep

LEMMA TailEndStep ==
  ASSUME IInv, NEW d \in Devices, NEW luck \in Lucks, TailEnd(d, luck),
         count' \in Count, count'.input = count.input
  PROVE  Good
<1> DEFINE x == dev[d]
<1> DEFINE y == [x EXCEPT !.tail = NoTail]
<1>1. x \in Sending
  BY DEF IInv, TypeOK
<1>2. dev' = [dev EXCEPT ![d] = y]
  BY DEF TailEnd, IInv, TypeOK
<1> HIDE DEF x
<1>3. y \in Sending /\ Onward(x, y)
  BY <1>1, NoTailFacts DEF Sending, Tails, Onward
<1> HIDE DEF y
<1>4. dev' \in [Devices -> Sending] /\ Moves(dev, dev')
  BY <1>2, <1>3, DeviceMoves DEF IInv, x
<1>5. Less(app, app')
  BY TailKey, AudioEndFacts, IInvFacts DEF TailEnd
<1> QED BY <1>4, <1>5, LessStep

LEMMA TimeoutStep ==
  ASSUME IInv, NEW luck \in Lucks, AudioEndTimeout(luck), UNCHANGED dev,
         count' \in Count, count'.input = count.input
  PROVE  Good
<1> PICK x \in app.timers :
      LET c == [app EXCEPT !.timers = @ \ {x}]
      IN  app' = IF StillWaits(c, x[1], x[2])
                 THEN SendFinalOggChunkIfNeeded(c, x[1], "timeout", luck) ELSE c
  BY DEF AudioEndTimeout
<1> DEFINE timers == app.timers \ {x}
<1> DEFINE c == [app EXCEPT !.timers = timers]
<1>1. timers \in SUBSET (Keys \X Nat) /\ x[1] \in Keys
  BY IInvFacts DEF App
<1>2. Less(app, c)
  BY <1>1, IInvFacts, TimersFacts
<1>3. app' = IF StillWaits(c, x[1], x[2]) THEN SendFinalOggChunkIfNeeded(c, x[1], "timeout", luck) ELSE c
  OBVIOUS
<1> HIDE DEF c
<1>4. c \in App /\ Cycles(c)
  BY <1>2, IInvFacts DEF Less
<1>5. StillWaits(c, x[1], x[2]) => Less(c, SendFinalOggChunkIfNeeded(c, x[1], "timeout", luck))
  BY <1>1, <1>4, SendFinalFacts DEF StillWaits
<1>6. Less(app, app')
  BY <1>2, <1>3, <1>5, LessTwice
<1>7. dev' \in [Devices -> Sending] /\ Moves(dev, dev')
  BY SameMoves, IInvFacts
<1> QED BY <1>6, <1>7, LessStep

LEMMA AudioStep ==
  ASSUME IInv, NEW luck \in Lucks, Audio(luck)
  PROVE  Good
<1>1. count' \in Count /\ count'.input = count.input
  BY IInvFacts, AudioCount DEF Audio
<1> QED BY <1>1, FrameStep, EndStep, TailFrameStep, TailEndStep, TimeoutStep DEF Audio

\* A press that begins a cycle: no other knows the recording, or it is late.
LEMMA BeginStep ==
  ASSUME IInv, NEW d \in Devices, ~dev[d].up, app' \in App,
         Begins(app, app', KeyOf(d), dev[d].input), app'.late \/ ~dev[d].down,
         dev' \in [Devices -> Sending], Moves(dev, dev'), dev'[d].up \/ dev'[d].down,
         count' \in Count, count'.input = count.input
  PROVE  Good
<1> DEFINE k == KeyOf(d)
<1> DEFINE i == dev[d].input
<1> DEFINE n == count.input
<1>1. /\ k \in Keys /\ k[1] = d /\ k[2] = dev[d].session
      /\ i \in Inputs /\ i \in 1..n
  BY SendingKey
<1>2. NewCycle(i) # None /\ Sound(NewCycle(i)) /\ Waits(NewCycle(i)) /\ NewCycle(i).of = i
  BY <1>1, NewFacts
<1> DEFINE new == NewCycle(i)
<1> HIDE DEF new
<1>3. /\ ~Found(app, k)
      /\ \A j \in Keys : app'.cycles[j] = IF j = k THEN new ELSE app.cycles[j]
      /\ \A e \in Devices : app'.active[e] = IF e = d THEN k[2] ELSE app.active[e]
      /\ app'.dropped = app.dropped /\ app'.translating = app.translating
      /\ app.late \/ Haunted(app, k) => app'.late
      /\ SameAsked(app, app')
  BY <1>1 DEF Begins, new
<1>4. new # None /\ Sound(new) /\ Waits(new) /\ new.of = i
  BY <1>2 DEF new
<1> HIDE DEF k, i, n
<1>5. Found(app', k) /\ \A j \in Keys \ {k} : Found(app', j) <=> Found(app, j)
  BY <1>1, <1>3, <1>4 DEF Found
<1>6. Cycles(app')
  <2>1. ASSUME NEW e \in Devices, HasActive(app', e)
        PROVE  Found(app', ActiveKey(app', e))
    <3>1. CASE e = d
      <4>1. ActiveKey(app', e) = k
        BY <1>1, <1>3, <3>1, KeyFacts DEF ActiveKey
      <4> QED BY <1>5, <4>1
    <3>2. CASE e # d
      <4>1. ActiveKey(app', e) = ActiveKey(app, e) /\ HasActive(app, e)
        BY <1>3, <2>1, <3>2 DEF ActiveKey, HasActive
      <4>2. ActiveKey(app, e) \in Keys /\ Found(app, ActiveKey(app, e))
        BY <4>1, ActiveFacts, IInvFacts DEF Cycles, CyclesBut
      <4> QED BY <1>3, <1>5, <4>1, <4>2
    <3> QED BY <3>1, <3>2
  <2>2. \A j \in Keys : Found(app', j) => Sound(app'.cycles[j]) /\ Waits(app'.cycles[j])
    BY <1>3, <1>4, <1>5, IInvFacts DEF Cycles, CyclesBut
  <2> QED BY <2>1, <2>2 DEF Cycles, CyclesBut
<1>7. Returns(app')
  <2> SUFFICES ASSUME ~app'.late, NEW x \in app'.translating, x.final, Found(app', x.key)
               PROVE  app'.cycles[x.key].of = x.of /\ app'.cycles[x.key].finished
    BY DEF Returns
  <2>1. ~app.late /\ ~Haunted(app, k) /\ x \in app.translating
    BY <1>3
  <2>2. x.key # k /\ x.key \in Keys
    BY <2>1, IInvFacts DEF Haunted, App
  <2> QED BY <1>3, <1>5, <2>1, <2>2 DEF Returns, IInv
<1>8. Held(app', dev', n)
  <2>1. Held(app, dev, n) /\ Numbered(dev, n)
    BY DEF IInv, n
  <2>2. Owned(app', dev)
    <3> SUFFICES ASSUME NEW j \in Keys, Found(app', j)
                 PROVE  LET x == dev[j[1]]
                        IN  /\ j[2] <= x.session
                            /\ j[2] = x.session => app'.cycles[j].of = x.input
                            /\ x.tail # NoTail /\ j[2] = x.tail.session => app'.cycles[j].of = x.tail.input
      BY DEF Owned
    <3>1. CASE j # k
      BY <1>3, <1>5, <2>1, <3>1 DEF Held, Owned
    <3>2. CASE j = k
      <4>1. app'.cycles[j].of = dev[d].input
        BY <1>3, <1>4, <3>2 DEF i
      <4>2. dev[d].session \in 0..MaxInputs /\ dev[d].tail # NoTail => dev[d].tail.session \in 1..(dev[d].session - 1)
        BY <2>1, IInvFacts DEF Numbered, Sends, Sending
      <4> QED BY <1>1, <3>2, <4>1, <4>2, IInvFacts DEF Sending
    <3> QED BY <3>1, <3>2
  <2>3. Owned(app', dev')
    <3> SUFFICES ASSUME NEW j \in Keys, Found(app', j)
                 PROVE  LET x == dev'[j[1]]
                        IN  /\ j[2] <= x.session
                            /\ j[2] = x.session => app'.cycles[j].of = x.input
                            /\ x.tail # NoTail /\ j[2] = x.tail.session => app'.cycles[j].of = x.tail.input
      BY DEF Owned
    <3>1. Onward(dev[j[1]], dev'[j[1]])
      BY KeyFacts DEF Moves
    <3> QED BY <2>2, <3>1 DEF Onward, Owned
  <2>4. Fresh(app', dev')
    <3> SUFFICES ASSUME NEW e \in Devices, ~dev'[e].up, ~dev'[e].down
                 PROVE  /\ dev'[e].input \notin app'.dropped
                        /\ \A j \in Keys : Found(app', j) => app'.cycles[j].of # dev'[e].input
      BY DEF Fresh
    <3>1. e # d /\ dev'[e].input = dev[e].input /\ ~dev[e].up /\ ~dev[e].down
      BY DEF Moves, Onward
    <3>2. dev[e].input # i
      BY <1>1, <2>1, <3>1 DEF Numbered, i, NoInput
    <3> QED BY <1>3, <1>4, <1>5, <2>1, <3>1, <3>2 DEF Held, Fresh
  <2>5. Counts(app', n)
    BY <1>1, <1>3, <1>4, <1>5, <2>1 DEF Held, Counts
  <2>6. Single(app')
    <3>1. CASE app'.late
      BY <3>1 DEF Single
    <3>2. CASE ~app'.late
      <4>1. ~app.late /\ ~dev[d].down
        BY <1>3, <3>2
      <4>2. i \notin app.dropped /\ \A j \in Keys : Found(app, j) => app.cycles[j].of # i
        BY <2>1, <4>1 DEF Held, Fresh, i
      <4> QED BY <1>3, <1>4, <1>5, <2>1, <4>1, <4>2 DEF Held, Single
    <3> QED BY <3>1, <3>2
  <2> QED BY <2>3, <2>4, <2>5, <2>6 DEF Held
<1>9. Spared(app, app')
  <2> SUFFICES ASSUME NEW e \in Devices, Recording(app, e)
               PROVE  app'.cycles[ActiveKey(app, e)] = app.cycles[ActiveKey(app, e)]
    BY DEF Spared
  <2>1. ActiveKey(app, e) \in Keys /\ Found(app, ActiveKey(app, e))
    BY ActiveFacts, IInvFacts DEF Recording, Cycles, CyclesBut
  <2> QED BY <1>3, <2>1
<1>10. AskedFor(app, app')
  <2>1. NoInput \notin app.dropped
    BY IInvFacts, BoundsAssumption DEF App, NoInput, Inputs
  <2> QED BY <1>3, <2>1, SameAskedFor, IInvFacts DEF SameAsked
<1>11. Numbered(dev', count'.input)
  BY IInvFacts, MovesNumbered
<1> QED BY <1>6, <1>7, <1>8, <1>9, <1>10, <1>11, GoodStep DEF State, n

LEMMA LateFacts ==
  ASSUME NEW c \in App, NEW late \in BOOLEAN, c.late => late
  PROVE  LET e == [c EXCEPT !.late = late]
         IN  Less(c, e) /\ e.late = late /\ e.cycles = c.cycles /\ e.active = c.active
<1> DEFINE e == [c EXCEPT !.late = late]
<1>1. e \in App /\ e.posted = c.posted /\ e.shown = c.shown
  BY DEF App
<1>2. /\ e.cycles = c.cycles /\ e.active = c.active /\ e.dropped = c.dropped
      /\ e.translating = c.translating /\ e.late = late
  BY DEF App
<1>3. SameAsked(c, e)
  BY <1>1 DEF SameAsked, Asked
<1> HIDE DEF e
<1>4. Goes(c, e, {})
  BY <1>2 DEF Goes, Found
<1>5. Cycles(c) => Cycles(e)
  BY <1>2 DEF Cycles, CyclesBut, Found, HasActive, ActiveKey
<1> QED BY <1>1, <1>2, <1>3, <1>4, <1>5 DEF Less, Quiet, e

LEMMA ButtonDownStep ==
  ASSUME IInv, NEW d \in Devices, ButtonDown(d)
  PROVE  Good
<1> DEFINE x == dev[d]
<1> DEFINE y == [x EXCEPT !.down = TRUE]
<1> DEFINE b == HandlePrimaryButtonDown(app, KeyOf(d), dev[d].input)
<1>1. x \in Sending /\ ~x.down /\ ~x.up
  BY DEF IInv, TypeOK, ButtonDown
<1>2. dev' = [dev EXCEPT ![d] = y]
  BY DEF ButtonDown, IInv, TypeOK
<1> HIDE DEF x
<1>3. y \in Sending /\ Onward(x, y) /\ y.down
  BY <1>1 DEF Sending, Onward
<1> HIDE DEF y
<1>4. dev' \in [Devices -> Sending] /\ Moves(dev, dev')
  BY <1>2, <1>3, DeviceMoves DEF IInv, x
<1>5. dev'[d].down
  BY <1>2, <1>3, IInvFacts
<1>6. KeyOf(d) \in Keys /\ KeyOf(d)[1] = d /\ dev[d].input \in Inputs
  BY <1>1, SendingKey DEF x
<1>7. app' \in {b, HandlePrimaryButtonUp(app, d)}
  BY <1>6 DEF ButtonDown, HandlePrimaryClick
<1>8. count' \in Count /\ count'.input = count.input
  BY IInvFacts, CountSame DEF ButtonDown
<1>9. b = app \/ (b \in App /\ Begins(app, b, KeyOf(d), dev[d].input))
  BY <1>6, IInvFacts, ButtonDownFacts
<1> HIDE DEF b
<1>10. CASE app' = HandlePrimaryButtonUp(app, d)
  <2>1. Less(app, app')
    BY <1>10, IInvFacts, ButtonUpFacts
  <2> QED BY <1>4, <1>8, <2>1, LessStep
<1>11. CASE app' = b /\ b = app
  <2>1. Less(app, app')
    BY <1>11, IInvFacts, LessSelf
  <2> QED BY <1>4, <1>8, <2>1, LessStep
<1>12. CASE app' = b /\ b \in App /\ Begins(app, b, KeyOf(d), dev[d].input)
  BY <1>1, <1>4, <1>5, <1>8, <1>12, BeginStep DEF x
<1> QED BY <1>7, <1>9, <1>10, <1>11, <1>12

LEMMA ButtonUpStep ==
  ASSUME IInv, NEW d \in Devices, ButtonUp(d)
  PROVE  Good
<1> DEFINE x == dev[d]
<1> DEFINE y == [x EXCEPT !.up = TRUE]
<1> DEFINE late == app.late \/ ~HasActive(app, d)
<1> DEFINE c == [app EXCEPT !.late = late]
<1> DEFINE b == HandlePrimaryButtonDown(c, KeyOf(d), dev[d].input)
<1>1. x \in Sending /\ ~x.up
  BY DEF IInv, TypeOK, ButtonUp
<1>2. dev' = [dev EXCEPT ![d] = y]
  BY DEF ButtonUp, IInv, TypeOK
<1> HIDE DEF x
<1>3. y \in Sending /\ Onward(x, y) /\ y.up
  BY <1>1 DEF Sending, Onward
<1> HIDE DEF y
<1>4. dev' \in [Devices -> Sending] /\ Moves(dev, dev')
  BY <1>2, <1>3, DeviceMoves DEF IInv, x
<1>5. dev'[d].up
  BY <1>2, <1>3, IInvFacts
<1>6. KeyOf(d) \in Keys /\ KeyOf(d)[1] = d /\ dev[d].input \in Inputs
  BY <1>1, SendingKey DEF x
<1>7. late \in BOOLEAN /\ (app.late => late) /\ (HasActive(app, d) => late = app.late) /\ (~HasActive(app, d) => late)
  BY IInvFacts DEF App
<1>8. \/ app' = HandlePrimaryButtonUp(app, d)
      \/ HasActive(c, d) /\ app' = HandlePrimaryButtonUp(c, d)
      \/ ~HasActive(c, d) /\ app' = b
  BY <1>6 DEF ButtonUp, HandlePrimaryClick
<1> HIDE DEF late
<1>9. /\ Less(app, c) /\ c.late = late
      /\ c.cycles = app.cycles /\ c.active = app.active /\ c.timers = app.timers
      /\ c.translating = app.translating /\ c.dropped = app.dropped
  <2>1. c.timers = app.timers /\ c.translating = app.translating /\ c.dropped = app.dropped
    BY IInvFacts DEF App
  <2> QED BY <1>7, <2>1, IInvFacts, LateFacts
<1> HIDE DEF c
<1>10. c \in App /\ Cycles(c)
  BY <1>9, IInvFacts DEF Less
<1>11. count' \in Count /\ count'.input = count.input
  BY IInvFacts, CountSame DEF ButtonUp
<1>12. b = c \/ (b \in App /\ Begins(c, b, KeyOf(d), dev[d].input))
  BY <1>6, <1>10, ButtonDownFacts
<1> HIDE DEF b
<1>13. CASE app' = HandlePrimaryButtonUp(app, d)
  <2>1. Less(app, app')
    BY <1>13, IInvFacts, ButtonUpFacts
  <2> QED BY <1>4, <1>11, <2>1, LessStep
<1>14. CASE app' = HandlePrimaryButtonUp(c, d)
  <2>1. Less(c, app')
    BY <1>10, <1>14, ButtonUpFacts
  <2>2. Less(app, app')
    BY <1>9, <2>1, LessTwice
  <2> QED BY <1>4, <1>11, <2>2, LessStep
<1>15. CASE app' = b /\ b = c
  BY <1>4, <1>9, <1>11, <1>15, LessStep
<1>16. CASE ~HasActive(c, d) /\ app' = b /\ b \in App /\ Begins(c, b, KeyOf(d), dev[d].input)
  <2>1. c.late
    BY <1>7, <1>9, <1>16 DEF HasActive
  <2>2. SameAsked(app, c)
    BY <1>9 DEF Less, Quiet
  <2>3. SameAsked(app, app')
    BY <1>16, <2>2 DEF Begins, SameAsked
  <2>4. Begins(app, app', KeyOf(d), dev[d].input)
    BY <1>9, <1>16, <2>1, <2>3 DEF Begins, Found
  <2>5. app'.late
    BY <1>16, <2>1 DEF Begins
  <2> QED BY <1>1, <1>4, <1>5, <1>11, <1>16, <2>4, <2>5, BeginStep DEF x
<1> QED BY <1>8, <1>12, <1>13, <1>14, <1>15, <1>16

LEMMA SideClickStep ==
  ASSUME IInv, NEW d \in Devices, SideClick(d)
  PROVE  Good
<1>1. Less(app, app')
  BY IInvFacts, SideFacts DEF SideClick
<1>2. count' \in Count /\ count'.input = count.input
  BY IInvFacts, CountEvent DEF SideClick
<1>3. dev' \in [Devices -> Sending] /\ Moves(dev, dev')
  BY SameMoves, IInvFacts DEF SideClick
<1> QED BY <1>1, <1>2, <1>3, LessStep

\* Steps that leave the devices alone, for a start.
LEMMA LessEvent ==
  ASSUME IInv, Less(app, app'), UNCHANGED dev,
         \/ UNCHANGED count
         \/ count.event < MaxEvents /\ Counted("event")
  PROVE  Good
<1>1. count' \in Count /\ count'.input = count.input
  BY IInvFacts, CountEvent, CountSame
<1>2. dev' \in [Devices -> Sending] /\ Moves(dev, dev')
  BY SameMoves, IInvFacts
<1> QED BY <1>1, <1>2, LessStep

LEMMA HalfSecondStep ==
  ASSUME IInv, NEW k \in Keys, HalfSecond(k)
  PROVE  Good
<1> DEFINE x == app.cycles[k]
<1> DEFINE y == [x EXCEPT !.half = TRUE]
<1>1. app' = Put(app, k, y) /\ Found(app, k) /\ app \in App
  BY IInvFacts DEF HalfSecond, Put, App
<1>2. x \in Cycle
  BY <1>1, FoundFacts
<1> HIDE DEF x
<1>3. /\ y \in Cycle /\ y.of = x.of /\ y.finished = x.finished
      /\ y.fed = x.fed /\ y.buffered = x.buffered
      /\ y.sentFinal = x.sentFinal /\ y.tells = x.tells
  BY <1>2 DEF Cycle
<1> HIDE DEF y
<1>4. Cycles(app) => Sound(y) /\ Waits(y)
  BY <1>1, <1>3, CyclesFacts DEF Sound, Waits, x
<1>5. GoesOn(app.cycles[k], y)
  BY <1>3 DEF GoesOn, x
<1>6. Less(app, app')
  BY <1>1, <1>4, <1>5, PutLess
<1> QED BY <1>6, LessEvent DEF HalfSecond

LEMMA OverlayTimerStep ==
  ASSUME IInv, OverlayTimer
  PROVE  Good
<1>1. Less(app, app')
  BY IInvFacts, HideFacts, DisplayedFacts, LessAside DEF OverlayTimer
<1> QED BY <1>1, LessEvent DEF OverlayTimer

LEMMA SameLess ==
  ASSUME NEW c \in App, NEW e \in App,
         \A f \in {"cycles", "active", "dropped", "translating", "late", "posted", "shown"} : e[f] = c[f]
  PROVE  Less(c, e)
<1>1. SameAsked(c, e)
  BY DEF SameAsked, Asked
<1>2. Goes(c, e, {})
  BY DEF Goes, Found
<1>3. Cycles(c) => Cycles(e)
  BY DEF Cycles, CyclesBut, Found, HasActive, ActiveKey
<1> QED BY <1>1, <1>2, <1>3 DEF Less, Quiet

LEMMA DeviceBackStep ==
  ASSUME IInv, NEW d \in Devices, DeviceBack(d)
  PROVE  Good
<1> DEFINE ui == [app.ui EXCEPT ![d] = "ready"]
<1> DEFINE connected == app.connected \cup {d}
<1>1. app' = [app EXCEPT !.connected = connected, !.ui = ui]
  BY DEF DeviceBack
<1>2. ui \in [Devices -> {"ready", "recording", "thinking"}] /\ connected \in SUBSET Devices
  BY IInvFacts DEF App
<1> HIDE DEF ui, connected
<1>3. app' \in App /\ \A f \in {"cycles", "active", "dropped", "translating", "late", "posted", "shown"} : app'[f] = app[f]
  BY <1>1, <1>2, IInvFacts DEF App
<1>4. Less(app, app')
  BY <1>3, IInvFacts, SameLess
<1> QED BY <1>4, LessEvent DEF DeviceBack

LEMMA UpdateConfigStep ==
  ASSUME IInv, UpdateConfig
  PROVE  Good
<1> DEFINE ui == [d \in Devices |-> IF d \in app.connected THEN "ready" ELSE app.ui[d]]
<1> DEFINE told == [app EXCEPT !.ui = ui]
<1> DEFINE gone == EraseAll(told, Keys)
<1> DEFINE h == Displayed(gone, Hide(NoCallback))
<1> DEFINE c == IF Busy(app) THEN h ELSE app
<1> DEFINE mode == IF c.mode = "hold" THEN "click" ELSE "hold"
<1>1. app' = [c EXCEPT !.mode = mode]
  BY DEF UpdateConfig
<1>2. ui \in [Devices -> {"ready", "recording", "thinking"}]
  BY IInvFacts DEF App
<1> HIDE DEF ui
<1>3. told \in App /\ \A f \in {"cycles", "active", "dropped", "translating", "late", "posted", "shown"} : told[f] = app[f]
  BY <1>2, IInvFacts DEF App
<1>4. Less(app, told)
  BY <1>3, IInvFacts, SameLess
<1> HIDE DEF told
<1>5. Less(told, gone)
  BY <1>3, EraseAllFacts
<1> HIDE DEF gone
<1>6. Less(gone, h)
  BY <1>5, HideFacts, DisplayedFacts, LessAside DEF Less
<1> HIDE DEF h
<1>7. Less(app, h)
  BY <1>4, <1>5, <1>6, LessTwice
<1>8. Less(app, c) /\ c \in App
  BY <1>7, IInvFacts, LessSelf DEF Less
<1> HIDE DEF c
<1>9. app' \in App /\ \A f \in {"cycles", "active", "dropped", "translating", "late", "posted", "shown"} : app'[f] = c[f]
  BY <1>1, <1>8 DEF App
<1>10. Less(c, app')
  BY <1>8, <1>9, SameLess
<1>11. Less(app, app')
  BY <1>8, <1>10, LessTwice
<1> QED BY <1>11, LessEvent DEF UpdateConfig

LEMMA SilentFacts ==
  ASSUME NEW s \in 0..MaxInputs
  PROVE  LET y == [Silent EXCEPT !.session = s]
         IN  /\ y \in Sending /\ y.session = s /\ y.input = NoInput
             /\ y.up /\ ~y.down /\ y.ended /\ y.tail = NoTail
<1> DEFINE y == [Silent EXCEPT !.session = s]
<1>1. NoTail \in Tails /\ NoInput \in 0..MaxInputs /\ 0 \in 0..MaxFrames /\ NoSession \in 0..MaxInputs
  BY NoTailFacts, BoundsAssumption DEF NoInput, NoSession
<1>2. /\ Silent \in Sending /\ Silent.input = NoInput /\ Silent.tail = NoTail
  BY <1>1 DEF Silent, Sending, Tails
<1>3. Silent.up /\ ~Silent.down /\ Silent.ended
  BY DEF Silent
<1>4. y \in Sending /\ y.session = s /\ y.input = NoInput /\ y.tail = NoTail
  BY <1>2 DEF Sending
<1>5. y.up = Silent.up /\ y.down = Silent.down /\ y.ended = Silent.ended
  BY <1>2 DEF Sending
<1> HIDE DEF y
<1>6. y.up /\ ~y.down /\ y.ended
  BY <1>3, <1>5
<1> QED BY <1>4, <1>6 DEF y

\* A device that is lost sends nothing more, and no cycle of it is left.
LEMMA DeviceLostStep ==
  ASSUME IInv, NEW d \in Devices, DeviceLost(d)
  PROVE  Good
<1> DEFINE connected == app.connected \ {d}
<1> DEFINE c == [app EXCEPT !.connected = connected]
<1> DEFINE gone == EraseAll(c, OfDevice(d))
<1> DEFINE h == Displayed(gone, Hide(NoCallback))
<1> DEFINE n == count.input
<1>1. app' = IF \E k \in OfDevice(d) : Found(c, k) THEN h ELSE c
  BY DEF DeviceLost
<1>2. connected \in SUBSET Devices
  BY IInvFacts DEF App
<1> HIDE DEF connected
<1>3. c \in App /\ \A f \in {"cycles", "active", "dropped", "translating", "late", "posted", "shown"} : c[f] = app[f]
  BY <1>2, IInvFacts DEF App
<1>4. Less(app, c)
  BY <1>3, IInvFacts, SameLess
<1> HIDE DEF c
<1>5. OfDevice(d) \in SUBSET Keys
  BY DEF OfDevice
<1>6. Less(c, gone) /\ \A k \in OfDevice(d) : ~Found(gone, k)
  BY <1>3, <1>5, EraseAllFacts
<1> HIDE DEF gone
<1>7. h \in App /\ Aside(gone, h)
  BY <1>6, HideFacts, DisplayedFacts DEF Less
<1>8. Less(gone, h) /\ \A k \in OfDevice(d) : ~Found(h, k)
  BY <1>6, <1>7, LessAside DEF Aside, Found
<1> HIDE DEF h
<1>9. Less(app, app')
  BY <1>1, <1>4, <1>6, <1>8, LessTwice
<1>10. \A k \in Keys : k[1] = d => ~Found(app', k)
  BY <1>1, <1>8 DEF OfDevice
<1>11. app' \in App /\ State(app', dev, n) /\ Spared(app, app') /\ AskedFor(app, app')
  BY <1>9, IInvFacts, LessState
<1>12. count' \in Count /\ count'.input = count.input
  BY IInvFacts, CountEvent DEF DeviceLost
<1> PICK next \in {NoSession, dev[d].session} :
      dev' = [dev EXCEPT ![d] = [Silent EXCEPT !.session = next]]
  BY DEF DeviceLost
<1> DEFINE y == [Silent EXCEPT !.session = next]
<1>13. dev[d] \in Sending /\ dev[d].session <= n /\ n \in 0..MaxInputs
  BY DEF IInv, TypeOK, Numbered, Sends
<1>14. next \in 0..MaxInputs /\ next <= n
  BY <1>13, BoundsAssumption DEF Sending, NoSession
<1>16. /\ y \in Sending /\ y.session = next /\ y.input = NoInput
       /\ y.up /\ ~y.down /\ y.ended /\ y.tail = NoTail
  BY <1>14, SilentFacts
<1>17. dev' = [dev EXCEPT ![d] = y]
  OBVIOUS
<1> HIDE DEF y
<1>18. /\ dev' \in [Devices -> Sending] /\ dev'[d] = y
       /\ \A e \in Devices : e # d => dev'[e] = dev[e]
  BY <1>16, <1>17, IInvFacts
<1>19. y.session = next /\ y.input = NoInput /\ y.up /\ y.ended /\ y.tail = NoTail
  BY <1>16
<1>20. Numbered(dev', n)
  <2>1. Numbered(dev, n)
    BY IInvFacts
  <2>2. Sends(y, n)
    BY <1>13, <1>14, <1>19 DEF Sends, NoInput
  <2>3. \A e \in Devices : Sends(dev'[e], n)
    BY <1>18, <2>1, <2>2 DEF Numbered
  <2>4. \A e, f \in Devices : dev'[e].input = dev'[f].input /\ dev'[e].input # NoInput => e = f
    BY <1>18, <1>19, <2>1 DEF Numbered
  <2> QED BY <2>3, <2>4 DEF Numbered
<1>21. Held(app', dev', n)
  <2>1. Held(app', dev, n)
    BY <1>11 DEF State
  <2>2. Owned(app', dev')
    <3> SUFFICES ASSUME NEW k \in Keys, Found(app', k)
                 PROVE  LET x == dev'[k[1]]
                        IN  /\ k[2] <= x.session
                            /\ k[2] = x.session => app'.cycles[k].of = x.input
                            /\ x.tail # NoTail /\ k[2] = x.tail.session => app'.cycles[k].of = x.tail.input
      BY DEF Owned
    <3>1. k[1] \in Devices /\ k[1] # d
      BY <1>10, KeyFacts
    <3> QED BY <1>18, <2>1, <3>1 DEF Held, Owned
  <2>3. Fresh(app', dev')
    BY <1>18, <1>19, <2>1 DEF Held, Fresh
  <2> QED BY <2>1, <2>2, <2>3 DEF Held
<1> QED BY <1>11, <1>12, <1>18, <1>20, <1>21, GoodStep DEF State

\* A press counts on; what is still on its way is of the session before.
LEMMA PressStep ==
  ASSUME IInv, NEW d \in Devices, Press(d)
  PROVE  Good
<1> DEFINE x == dev[d]
<1> DEFINE n == count.input
<1> DEFINE old == [session |-> x.session, input |-> x.input, frames |-> x.frames]
<1> DEFINE tail == IF x.ended THEN NoTail ELSE old
<1> DEFINE s == x.session + 1
<1> DEFINE next == n + 1
<1> DEFINE y == [session |-> s, input |-> next,
                 down |-> FALSE, up |-> FALSE, frames |-> 0, ended |-> FALSE, tail |-> tail]
<1>1. /\ x \in Sending /\ Sends(x, n) /\ n \in 0..MaxInputs /\ n < MaxInputs /\ MaxInputs \in Nat
      /\ Numbered(dev, n) /\ Held(app, dev, n)
  BY BoundsAssumption DEF IInv, TypeOK, Numbered, Press
<1>2. x.session \in 0..n /\ x.input \in 0..n /\ x.frames \in 0..MaxFrames
  BY <1>1 DEF Sending, Sends
<1>3. x.session + 1 \in 1..MaxInputs /\ n + 1 \in 1..MaxInputs /\ x.session + 1 <= n + 1
  BY <1>1, <1>2
<1>4. old \in Tails /\ tail \in Tails
  BY <1>1, <1>2, NoTailFacts DEF Tails
<1>5. ~x.ended => x.session > 0 /\ x.input > 0
  BY <1>1 DEF Sends
<1>6. /\ tail # NoTail => /\ tail.session = x.session /\ tail.input = x.input
                          /\ x.session \in 1..n /\ x.input \in 1..n
  BY <1>2, <1>5
<1>7. dev' = [dev EXCEPT ![d] = y]
  BY DEF Press, IInv, TypeOK
<1>8. /\ y \in Sending /\ y.session = x.session + 1 /\ y.input = n + 1 /\ ~y.up /\ ~y.down
      /\ y.tail = tail
  <2>1. s \in 0..MaxInputs /\ next \in 0..MaxInputs /\ 0 \in 0..MaxFrames
    BY <1>3, BoundsAssumption
  <2>2. s = x.session + 1 /\ next = n + 1
    OBVIOUS
  <2> HIDE DEF s, next, tail
  <2>3. y \in Sending
    BY <1>4, <2>1 DEF Sending, Tails
  <2>4. y.session = s /\ y.input = next /\ y.tail = tail
    OBVIOUS
  <2>5. ~y.up /\ ~y.down
    OBVIOUS
  <2> HIDE DEF y
  <2> QED BY <2>2, <2>3, <2>4, <2>5
<1> HIDE DEF y, tail
<1>9. /\ dev' \in [Devices -> Sending] /\ dev'[d] = y
      /\ \A e \in Devices : e # d => dev'[e] = dev[e]
  BY <1>7, <1>8, IInvFacts
<1>10. count' = [count EXCEPT !.input = n + 1]
  BY DEF Press, Counted
<1>11. count' \in Count /\ count'.input = n + 1
  BY <1>3, <1>10, IInvFacts DEF TypeOK, Count
<1>12. Numbered(dev', n + 1)
  <2>1. Sends(y, n + 1)
    <3>1. y.session <= n + 1 /\ y.input <= n + 1 /\ y.session > 0 /\ y.input > 0
      BY <1>1, <1>2, <1>3, <1>8
    <3>2. y.tail # NoTail => y.tail.session \in 1..(y.session - 1) /\ y.tail.input \in 1..(n + 1)
      <4> SUFFICES ASSUME tail # NoTail
                   PROVE  tail.session \in 1..(y.session - 1) /\ tail.input \in 1..(n + 1)
        BY <1>8
      <4>1. tail.session = x.session /\ tail.input = x.input /\ y.session - 1 = x.session
        BY <1>2, <1>6, <1>8
      <4>2. x.session \in 1..x.session /\ x.input \in 1..(n + 1)
        BY <1>1, <1>6
      <4> QED BY <4>1, <4>2
    <3> QED BY <3>1, <3>2 DEF Sends
  <2>2. \A e \in Devices : Sends(dev[e], n) /\ dev[e] \in Sending
    BY <1>1, IInvFacts DEF Numbered
  <2>3. \A e \in Devices : Sends(dev[e], n + 1)
    <3> TAKE e \in Devices
    <3>1. /\ dev[e].session \in Nat /\ dev[e].input \in Nat
          /\ dev[e].tail.input \in Nat /\ dev[e].tail.session \in Nat
      BY <2>2, BoundsAssumption DEF Sending
    <3> QED BY <1>1, <2>2, <3>1 DEF Sends
  <2>4. \A e \in Devices : Sends(dev'[e], n + 1)
    BY <1>9, <2>1, <2>3
  <2>5. \A e \in Devices : dev[e].input # n + 1
    BY <1>1, <2>2 DEF Sends, Sending
  <2>6. \A e, f \in Devices : dev'[e].input = dev'[f].input /\ dev'[e].input # NoInput => e = f
    BY <1>1, <1>8, <1>9, <2>5 DEF Numbered
  <2> QED BY <2>4, <2>6 DEF Numbered
<1>13. Held(app, dev', n + 1)
  <2>1. Owned(app, dev')
    <3> SUFFICES ASSUME NEW k \in Keys, Found(app, k)
                 PROVE  LET z == dev'[k[1]]
                        IN  /\ k[2] <= z.session
                            /\ k[2] = z.session => app.cycles[k].of = z.input
                            /\ z.tail # NoTail /\ k[2] = z.tail.session => app.cycles[k].of = z.tail.input
      BY DEF Owned
    <3>1. k[1] \in Devices /\ k[2] \in 1..MaxInputs
      BY KeyFacts
    <3>2. /\ k[2] <= dev[k[1]].session
          /\ k[2] = dev[k[1]].session => app.cycles[k].of = dev[k[1]].input
      BY <1>1 DEF Held, Owned
    <3>3. CASE k[1] # d
      BY <1>1, <1>9, <3>1, <3>3 DEF Held, Owned
    <3>4. CASE k[1] = d
      BY <1>2, <1>6, <1>8, <1>9, <3>1, <3>2, <3>4
    <3> QED BY <3>3, <3>4
  <2>2. Fresh(app, dev')
    <3>1. \A i \in 1..n : i # n + 1
      BY <1>1
    <3>2. y.input \notin app.dropped /\ \A k \in Keys : Found(app, k) => app.cycles[k].of # y.input
      BY <1>1, <1>8, <3>1 DEF Held, Counts
    <3> QED BY <1>1, <1>9, <3>2 DEF Held, Fresh
  <2>3. Counts(app, n + 1)
    <3>1. 1..n \subseteq 1..(n + 1)
      BY <1>1
    <3> QED BY <1>1, <3>1 DEF Held, Counts
  <2> QED BY <1>1, <2>1, <2>2, <2>3 DEF Held
<1>14. app' = app
  BY DEF Press
<1>15. Spared(app, app') /\ AskedFor(app, app')
  BY <1>14, IInvFacts, LessSelf, LessState
<1>16. State(app', dev', count'.input)
  BY <1>11, <1>13, <1>14, IInvFacts DEF State
<1> QED BY <1>9, <1>11, <1>12, <1>14, <1>15, <1>16, GoodStep, IInvFacts
LEMMA SameCyclesLess ==
  ASSUME NEW c, NEW e \in App, SameAsked(c, e),
         \A f \in {"cycles", "active", "dropped", "translating"} : e[f] = c[f],
         c.late => e.late
  PROVE  Less(c, e)
<1>1. Goes(c, e, {})
  BY DEF Goes, Found
<1>2. Cycles(c) => Cycles(e)
  BY DEF Cycles, CyclesBut, Found, HasActive, ActiveKey
<1> QED BY <1>1, <1>2 DEF Less, Quiet

\* What a step may do with what the worker of a cycle is about to report.
LEMMA TellsFacts ==
  ASSUME NEW c \in App, NEW k \in Keys, Found(c, k), Cycles(c),
         NEW tells \in {"nothing", "partial", "segment", "error", "final", "empty"},
         NEW asr \in {"idle", "active", "over"},
         tells \in {"final", "empty"} => c.cycles[k].sentFinal
  PROVE  LET y == [c.cycles[k] EXCEPT !.asr = asr, !.tells = tells]
         IN  /\ Less(c, Put(c, k, y)) /\ Found(Put(c, k, y), k)
             /\ Put(c, k, y).cycles[k].of = c.cycles[k].of
             /\ Put(c, k, y).cycles[k].sentFinal = c.cycles[k].sentFinal
<1> DEFINE x == c.cycles[k]
<1> DEFINE y == [x EXCEPT !.asr = asr, !.tells = tells]
<1>1. x \in Cycle
  BY FoundFacts
<1>2. tells \in {"final", "empty"} => x.sentFinal
  OBVIOUS
<1> HIDE DEF x
<1>3. y \in Cycle
  BY <1>1 DEF Cycle
<1>4. y.of = x.of /\ y.fed = x.fed /\ y.buffered = x.buffered /\ y.tells = tells
  BY <1>1 DEF Cycle
<1>5. y.sentFinal = x.sentFinal /\ y.finished = x.finished
  BY <1>1 DEF Cycle
<1> HIDE DEF y
<1>6. Sound(y) /\ Waits(y)
  <2>1. Sound(x) /\ Waits(x)
    BY CyclesFacts DEF x
  <2> QED BY <1>2, <1>4, <1>5, <2>1 DEF Sound, Waits
<1>7. GoesOn(c.cycles[k], y)
  BY <1>3, <1>4, <1>5 DEF GoesOn, x
<1>8. Less(c, Put(c, k, y))
  BY <1>6, <1>7, PutLess
<1>9. Found(Put(c, k, y), k) /\ Put(c, k, y).cycles[k] = y
  BY <1>7, PutFound
<1> QED BY <1>4, <1>5, <1>8, <1>9 DEF x, y

LEMMA AsrResultStep ==
  ASSUME IInv, NEW k \in Keys, AsrResult(k)
  PROVE  Good
<1> DEFINE put(asr, tells) == Put(app, k, [app.cycles[k] EXCEPT !.asr = asr, !.tells = tells])
<1>1. app \in App /\ Cycles(app) /\ Found(app, k) /\ app.cycles[k].asr = "active"
  BY IInvFacts DEF AsrResult
<1>2. app.cycles[k] \in Cycle
  BY <1>1, FoundFacts
<1>3. \A tells \in {"nothing", "partial", "segment", "error"} : \A asr \in {"active", "over"} :
        Less(app, put(asr, tells))
  BY <1>1, TellsFacts
<1> DEFINE over == put("over", "nothing")
<1>4. CASE \E what \in {"partial", "segment"} : app' = [app EXCEPT !.cycles[k].tells = what]
  <2> PICK what \in {"partial", "segment"} : app' = [app EXCEPT !.cycles[k].tells = what]
    BY <1>4
  <2>1. [app.cycles[k] EXCEPT !.asr = "active", !.tells = what] = [app.cycles[k] EXCEPT !.tells = what]
    BY <1>1, <1>2 DEF Cycle
  <2>2. app' = put("active", what)
    BY <1>1, <2>1 DEF Put, App
  <2> QED BY <1>3, <2>2, LessEvent DEF AsrResult
<1>5. CASE app' = [app EXCEPT !.cycles[k].asr = "over", !.cycles[k].tells = "error"]
  <2>1. app' = put("over", "error")
    BY <1>1, <1>5 DEF Put, App
  <2> QED BY <1>3, <2>1, LessEvent DEF AsrResult
<1>6. CASE app' = [app EXCEPT !.cycles[k].asr = "over", !.silenced = TRUE]
  <2>1. [app.cycles[k] EXCEPT !.asr = "over", !.tells = "nothing"] = [app.cycles[k] EXCEPT !.asr = "over"]
    BY <1>2 DEF Cycle, AsrResult
  <2>2. app' = [over EXCEPT !.silenced = TRUE]
    BY <1>1, <1>6, <2>1 DEF Put, App
  <2>3. Less(app, over)
    BY <1>3
  <2> HIDE DEF over
  <2>4. Less(over, app')
    BY <2>2, <2>3, SilencedFacts, LessAside DEF Less
  <2>5. Less(app, app')
    BY <2>3, <2>4, LessTwice
  <2> QED BY <2>5, LessEvent DEF AsrResult
<1> QED BY <1>4, <1>5, <1>6 DEF AsrResult

LEMMA AsrFinalStep ==
  ASSUME IInv, NEW k \in Keys, AsrFinal(k)
  PROVE  Good
<1>1. app \in App /\ Cycles(app) /\ Found(app, k) /\ ~Unended(app.cycles[k].fed)
  BY IInvFacts DEF AsrFinal, Unended
<1>2. app.cycles[k].sentFinal
  BY <1>1, CyclesFacts DEF Sound
<1> PICK text \in {"final", "empty"} :
      app' = [app EXCEPT !.cycles[k].asr = "over", !.cycles[k].tells = text]
  BY DEF AsrFinal
<1> DEFINE y == [app.cycles[k] EXCEPT !.asr = "over", !.tells = text]
<1>3. app' = Put(app, k, y)
  BY <1>1 DEF Put, App
<1>4. text \in {"nothing", "partial", "segment", "error", "final", "empty"}
      /\ "over" \in {"idle", "active", "over"}
  OBVIOUS
<1>5. Less(app, Put(app, k, y))
  BY <1>1, <1>2, <1>4, TellsFacts
<1> HIDE DEF y
<1>6. Less(app, app')
  BY <1>3, <1>5
<1> QED BY <1>6, LessEvent DEF AsrFinal

\* A text is given to the translator, and the cycle waits for it.
LEMMA GivenStep ==
  ASSUME NEW c \in App, NEW w, NEW n, State(c, w, n), NEW b, Less(c, b),
         NEW x \in [key : Keys, of : Inputs, final : BOOLEAN],
         x.final /\ Found(b, x.key) => b.cycles[x.key].of = x.of /\ b.cycles[x.key].finished
  PROVE  LET e == Given(b, x)
         IN  e \in App /\ State(e, w, n) /\ Spared(c, e) /\ AskedFor(c, e)
<1> DEFINE e == Given(b, x)
<1>1. b \in App /\ State(b, w, n) /\ Spared(c, b) /\ AskedFor(c, b)
  BY LessState
<1>2. e \in App /\ e.translating = b.translating \cup {x}
  BY <1>1, GivenFacts
<1>3. /\ e.cycles = b.cycles /\ e.active = b.active /\ e.dropped = b.dropped
      /\ e.late = b.late /\ e.posted = b.posted /\ e.shown = b.shown
  BY <1>1, GivenFacts
<1> HIDE DEF e
<1>4. Cycles(e)
  BY <1>1, <1>3 DEF State, Cycles, CyclesBut, Found, HasActive, ActiveKey
<1>5. Returns(e)
  BY <1>1, <1>2, <1>3 DEF State, Returns, Found
<1>6. Held(e, w, n)
  <2>1. Owned(e, w)
    BY <1>1, <1>3 DEF State, Held, Owned, Found
  <2>2. Fresh(e, w)
    BY <1>1, <1>3 DEF State, Held, Fresh, Found
  <2>3. Counts(e, n) /\ Single(e)
    BY <1>1, <1>3 DEF State, Held, Counts, Single, Found
  <2> QED BY <2>1, <2>2, <2>3 DEF Held
<1>7. Spared(c, e)
  BY <1>1, <1>3 DEF Spared
<1>8. AskedFor(c, e)
  <2>1. \A i : Asked(e, i) = Asked(b, i)
    BY <1>3 DEF Asked
  <2> QED BY <1>1, <2>1 DEF AskedFor
<1>9. e \in App /\ State(e, w, n) /\ Spared(c, e) /\ AskedFor(c, e)
  BY <1>2, <1>4, <1>5, <1>6, <1>7, <1>8 DEF State
<1> QED BY <1>9 DEF e

LEMMA SameGood ==
  ASSUME IInv, app' \in App, State(app', dev, count.input), Spared(app, app'), AskedFor(app, app'),
         UNCHANGED dev,
         \/ UNCHANGED count
         \/ count.event < MaxEvents /\ Counted("event")
  PROVE  Good
<1>1. count' \in Count /\ count'.input = count.input
  BY IInvFacts, CountEvent, CountSame
<1> QED BY <1>1, IInvFacts, GoodStep

\* A worker reports: a final text comes only after the end was sent, when the
\* recording is over.
LEMMA AsrReportedStep ==
  ASSUME IInv, NEW k \in Keys, AsrReported(k)
  PROVE  Good
<1> DEFINE x == app.cycles[k]
<1> DEFINE y == [x EXCEPT !.asr = x.asr, !.tells = "nothing"]
<1> DEFINE c == Put(app, k, y)
<1> DEFINE i == c.cycles[k].of
<1>1. /\ app \in App /\ Cycles(app) /\ Found(app, k) /\ State(app, dev, count.input)
      /\ UNCHANGED dev /\ UNCHANGED count
  BY IInvFacts DEF AsrReported
<1>2. x \in Cycle
  BY <1>1, FoundFacts
<1>3. y = [x EXCEPT !.tells = "nothing"] /\ x.asr \in {"idle", "active", "over"}
  BY <1>2 DEF Cycle
<1>4. /\ Less(app, c) /\ Found(c, k) /\ c.cycles[k].of = x.of
      /\ c.cycles[k].sentFinal = x.sentFinal
  BY <1>1, <1>3, TellsFacts
<1>5. c = [app EXCEPT !.cycles[k].tells = "nothing"]
  BY <1>1, <1>3 DEF Put, App
<1> DEFINE failed == FinishWithError(c, k, "worker")
<1>6. \/ x.tells = "partial" /\ app' = Partially(c, k, "worker")
      \/ x.tells = "segment" /\ app' = Segmented(c, k, "worker")
      \/ x.tells = "error" /\ app' \in {failed, UpgradeNotice(failed, k[1], "worker", i)}
      \/ x.tells \in {"final", "empty"} /\ app' = FinishWithFinalText(c, k, "worker", x.tells = "empty")
  BY <1>5 DEF AsrReported
<1> HIDE DEF c
<1>7. c \in App /\ Cycles(c)
  BY <1>1, <1>4 DEF Less
<1>8. i \in Inputs /\ (app.late \/ i \notin app.dropped)
  BY <1>1, <1>4, <1>7, FoundFacts DEF State, Held, Single
<1>9. \A e, ks : Reports(c, e, ks, i) => Reports(app, e, ks, i)
  <2> TAKE e, ks
  <2> HAVE Reports(c, e, ks, i)
  <2>1. Reports(app, e, {} \cup ks, i)
    BY <1>4, LessReports, ReportsTwice
  <2> QED BY <2>1
<1>10. CASE x.tells = "partial" /\ app' = Partially(c, k, "worker")
  <2>1. Less(c, app')
    BY <1>4, <1>7, <1>10, PartialFacts
  <2> QED BY <1>1, <1>4, <2>1, LessTwice, LessEvent
<1>11. CASE x.tells = "segment" /\ app' = Segmented(c, k, "worker")
  <2> DEFINE h == Display(c, "worker", Hide(NoCallback), i)
  <2>1. /\ Less(c, h)
        /\ \/ Reports(c, app', {}, i)
           \/ app' = Given(h, [key |-> k, of |-> i, final |-> FALSE])
    BY <1>4, <1>7, <1>11, SegmentFacts
  <2> HIDE DEF h, i
  <2>2. CASE Reports(c, app', {}, i)
    <3>1. app' \in App /\ State(app', dev, count.input) /\ Spared(app, app') /\ AskedFor(app, app')
      BY <1>1, <1>8, <1>9, <2>2, ReportsStep
    <3> QED BY <1>1, <3>1, SameGood
  <2>3. CASE app' = Given(h, [key |-> k, of |-> i, final |-> FALSE])
    <3> DEFINE job == [key |-> k, of |-> i, final |-> FALSE]
    <3>1. job \in [key : Keys, of : Inputs, final : BOOLEAN] /\ ~job.final
      BY <1>8
    <3>2. Less(app, h)
      BY <1>4, <2>1, LessTwice
    <3> HIDE DEF job
    <3>3. /\ Given(h, job) \in App /\ State(Given(h, job), dev, count.input)
          /\ Spared(app, Given(h, job)) /\ AskedFor(app, Given(h, job))
      BY <1>1, <3>1, <3>2, GivenStep
    <3> QED BY <1>1, <2>3, <3>3, SameGood DEF job
  <2> QED BY <2>1, <2>2, <2>3
<1>12. CASE x.tells = "error" /\ app' \in {failed, UpgradeNotice(failed, k[1], "worker", i)}
  <2>1. Less(c, failed)
    BY <1>4, <1>7, ErrorFacts
  <2> HIDE DEF failed, i
  <2> DEFINE told == SendUiState(failed, k[1], "ready")
  <2> DEFINE shown == Display(told, "worker", Hide(UpgradePage), i)
  <2>2. told \in App /\ Aside(failed, told)
    BY <2>1, SendFacts DEF Less, Tellable
  <2>3. UpgradeNotice(failed, k[1], "worker", i) = shown
    BY DEF UpgradeNotice
  <2>4. Hide(UpgradePage) \in Call /\ Hide(UpgradePage).call # "subtitle"
    BY CallFacts
  <2> HIDE DEF told
  <2>5. shown \in App /\ Aside(told, shown)
    BY <1>8, <2>2, <2>4, DisplayFacts
  <2> HIDE DEF shown
  <2>6. Less(failed, shown)
    BY <2>2, <2>5, LessAside, LessTwice
  <2>7. Less(c, app')
    BY <1>12, <2>1, <2>3, <2>6, LessTwice
  <2> QED BY <1>1, <1>4, <2>7, LessTwice, LessEvent
<1>13. CASE x.tells \in {"final", "empty"} /\ app' = FinishWithFinalText(c, k, "worker", x.tells = "empty")
  <2>1. x.sentFinal
    BY <1>1, <1>13, CyclesFacts DEF Sound
  <2> DEFINE empty == x.tells = "empty"
  <2>2. empty \in BOOLEAN /\ app' = FinishWithFinalText(c, k, "worker", empty)
    BY <1>13
  <2> HIDE DEF empty
  <2> DEFINE job == [key |-> k, of |-> i, final |-> TRUE]
  <2>3. \/ Reports(c, app', {k}, i)
        \/ app' = Given(Marked(c, k), job)
    BY <1>4, <1>7, <2>1, <2>2, FinalTextFacts
  <2>4. \A d \in Devices : Recording(app, d) => ActiveKey(app, d) \notin {k}
    BY <2>1 DEF Recording
  <2>5. CASE Reports(c, app', {k}, i)
    <3> HIDE DEF i
    <3>1. Reports(app, app', {k}, i)
      BY <1>9, <2>5
    <3>2. app' \in App /\ State(app', dev, count.input) /\ Spared(app, app') /\ AskedFor(app, app')
      BY <1>1, <1>8, <2>4, <3>1, ReportsStep
    <3> QED BY <1>1, <3>2, SameGood
  <2>6. CASE app' = Given(Marked(c, k), job)
    <3> DEFINE b == Marked(c, k)
    <3>1. Less(c, b) /\ b.cycles[k].of = i /\ b.cycles[k].finished
      BY <1>4, <1>7, <2>1, MarkedFacts
    <3>2. job \in [key : Keys, of : Inputs, final : BOOLEAN] /\ job.key = k /\ job.of = i
      BY <1>8
    <3> HIDE DEF b, job, i
    <3>3. Less(app, b)
      BY <1>4, <3>1, LessTwice
    <3>4. /\ Given(b, job) \in App /\ State(Given(b, job), dev, count.input)
          /\ Spared(app, Given(b, job)) /\ AskedFor(app, Given(b, job))
      BY <1>1, <3>1, <3>2, <3>3, GivenStep
    <3> QED BY <1>1, <2>6, <3>4, SameGood DEF b
  <2> QED BY <2>3, <2>5, <2>6
<1> QED BY <1>6, <1>10, <1>11, <1>12, <1>13

\* The translator answers: of a cycle that has its text, as far as any is left.
LEMMA TranslatedStep ==
  ASSUME IInv, NEW x \in app.translating, Translated(x)
  PROVE  Good
<1> DEFINE k == x.key
<1> DEFINE i == x.of
<1> DEFINE translating == app.translating \ {x}
<1> DEFINE c == [app EXCEPT !.translating = translating]
<1> DEFINE shown == ShowSubtitle(c, k[1], "translator", i)
<1> DEFINE failed == Display(c, "translator", ErrorText(NoCallback), i)
<1>1. app \in App /\ Cycles(app) /\ State(app, dev, count.input) /\ UNCHANGED dev
  BY IInvFacts DEF Translated
<1>2. k \in Keys /\ i \in Inputs
  BY <1>1 DEF App
<1>3. Less(app, c)
  <2>1. translating \in SUBSET app.translating /\ app.translating \in SUBSET [key : Keys, of : Inputs, final : BOOLEAN]
    BY <1>1 DEF App
  <2> HIDE DEF translating
  <2>2. c \in App /\ c.translating = translating
    BY <1>1, <2>1 DEF App
  <2>3. \A f \in {"cycles", "active", "dropped", "late", "posted", "shown"} : c[f] = app[f]
    BY <1>1 DEF App
  <2> HIDE DEF c
  <2>4. Goes(app, c, {})
    BY <2>1, <2>2, <2>3 DEF Goes, Found
  <2>5. Cycles(app) => Cycles(c)
    BY <2>3 DEF Cycles, CyclesBut, Found, HasActive, ActiveKey
  <2>6. SameAsked(app, c)
    BY <2>3 DEF SameAsked, Asked
  <2> QED BY <2>2, <2>4, <2>5, <2>6 DEF Less, Quiet
<1>4. \/ /\ app' = IF x.final THEN FinishCycle(shown, k, "translator", ShouldHide(c, k), i) ELSE shown
         /\ UNCHANGED count
      \/ /\ app' = IF x.final THEN FinishCycle(failed, k, "translator", FALSE, i) ELSE failed
         /\ count.event < MaxEvents /\ Counted("event")
  BY DEF Translated
<1> HIDE DEF c
<1>5. Reports(c, shown, {}, i) /\ Reports(c, failed, {}, i)
  <2>1. c \in App /\ NoCallback \in Callbacks
    BY <1>3, CallFacts DEF Less
  <2>2. failed \in App /\ Aside(c, failed)
    BY <1>2, <2>1, CallFacts, DisplayFacts
  <2> HIDE DEF failed
  <2>3. Reports(c, failed, {}, i)
    BY <2>2, LessAside, LessReports
  <2> HIDE DEF i, shown
  <2> QED BY <1>2, <2>1, <2>3, SubtitleReports DEF shown
<1> HIDE DEF shown, failed
<1>6. Reports(app, shown, {}, i) /\ Reports(app, failed, {}, i)
  <2>1. Reports(app, c, {}, i)
    BY <1>3, LessReports
  <2>2. Reports(app, shown, {} \cup {}, i) /\ Reports(app, failed, {} \cup {}, i)
    BY <1>5, <2>1, ReportsTwice
  <2> QED BY <2>2
<1>7. \A b, hide : Reports(app, b, {}, i) => Reports(app, FinishCycle(b, k, "translator", hide, i), {k}, i)
  <2> TAKE b, hide
  <2> DEFINE e == FinishCycle(b, k, "translator", hide, i)
  <2> HAVE Reports(app, b, {}, i)
  <2>1. Reports(b, e, {k}, i)
    <3>1. b \in App
      BY DEF Reports
    <3> HIDE DEF k, i
    <3> QED BY <1>2, <3>1, FinishReports
  <2> HIDE DEF e
  <2>2. Reports(app, e, {} \cup {k}, i)
    BY <2>1, ReportsTwice
  <2> QED BY <2>2 DEF e
<1>8. \/ ~x.final /\ Reports(app, app', {}, i)
      \/ x.final /\ Reports(app, app', {k}, i)
  BY <1>4, <1>6, <1>7
<1>9. x.final => \A d \in Devices : Recording(app, d) /\ ~app.late => ActiveKey(app, d) \notin {k}
  <2> SUFFICES ASSUME x.final, NEW d \in Devices, Recording(app, d), ~app.late, ActiveKey(app, d) = k
               PROVE  FALSE
    OBVIOUS
  <2>1. HasActive(app, d) /\ ~app.cycles[k].sentFinal
    BY DEF Recording
  <2>2. Found(app, k)
    BY <1>1, <2>1 DEF Cycles, CyclesBut
  <2>3. app.cycles[k].finished
    BY <1>1, <2>2 DEF State, Returns
  <2>4. Sound(app.cycles[k])
    BY <1>1, <1>2, <2>2, CyclesFacts
  <2> QED BY <2>1, <2>3, <2>4 DEF Sound
<1>10. \E y \in app.translating : y.of = i
  OBVIOUS
<1> HIDE DEF i, k
<1>11. app' \in App /\ State(app', dev, count.input) /\ Spared(app, app') /\ AskedFor(app, app')
  <2>1. CASE ~x.final /\ Reports(app, app', {}, i)
    BY <1>1, <1>10, <2>1, ReportsStep
  <2>2. CASE x.final /\ Reports(app, app', {k}, i)
    BY <1>1, <1>9, <1>10, <2>2, ReportsStep
  <2> QED BY <1>8, <2>1, <2>2
<1> QED BY <1>1, <1>4, <1>11, SameGood

Posts == Seq([call : Call, of : Inputs])

LEMMA HeadOf ==
  ASSUME NEW S, NEW s \in Seq(S), s # <<>>
  PROVE  Head(s) \in S
OBVIOUS

\* Taking the first call off the queue.
LEMMA AsksTail ==
  ASSUME NEW posted \in Posts, posted # <<>>, NEW i
  PROVE  Cardinality(Asks(posted, i)) =
           Cardinality(Asks(Tail(posted), i)) + (IF Head(posted).call = Subtitle(i) THEN 1 ELSE 0)
<1> DEFINE rest == Tail(posted)
<1> DEFINE all == Asks(posted, i)
<1> DEFINE left == Asks(rest, i)
<1>1. /\ Len(posted) \in Nat \ {0} /\ DOMAIN posted = 1..Len(posted)
      /\ DOMAIN rest = 1..(Len(posted) - 1) /\ Head(posted) = posted[1]
      /\ \A n \in 1..(Len(posted) - 1) : rest[n] = posted[n + 1]
  BY DEF Posts
<1> HIDE DEF rest
<1>2. \A n : n \in all <=> n \in 1..Len(posted) /\ posted[n].call = Subtitle(i)
  BY <1>1 DEF Asks
<1>3. \A n : n \in left <=> n \in 1..(Len(posted) - 1) /\ posted[n + 1].call = Subtitle(i)
  BY <1>1 DEF Asks
<1>4. IsFiniteSet(all) /\ IsFiniteSet(left)
  <2>1. all \subseteq 1..Len(posted) /\ left \subseteq 1..(Len(posted) - 1)
    BY <1>2, <1>3
  <2>2. IsFiniteSet(1..Len(posted)) /\ IsFiniteSet(1..(Len(posted) - 1))
    BY <1>1, FS_Interval
  <2> QED BY <2>1, <2>2, FS_Subset
<1> HIDE DEF all, left
<1> DEFINE shift == [n \in left |-> n + 1]
<1>5. Cardinality(all \ {1}) = Cardinality(left)
  <2>1. \A n \in left : n \in Nat /\ n + 1 \in all \ {1}
    BY <1>1, <1>2, <1>3
  <2>2. \A m \in all \ {1} : m - 1 \in left /\ (m - 1) + 1 = m
    BY <1>1, <1>2, <1>3
  <2>3. shift \in Bijection(left, all \ {1})
    <3>1. shift \in [left -> all \ {1}]
      BY <2>1
    <3>2. \A n, m \in left : shift[n] = shift[m] => n = m
      BY <2>1
    <3>3. \A m \in all \ {1} : \E n \in left : shift[n] = m
      BY <2>2
    <3> QED BY <3>1, <3>2, <3>3 DEF Bijection, Injection, Surjection, IsInjective
  <2> QED BY <1>4, <2>3, FS_Bijection DEF ExistsBijection
<1>6. Cardinality(all \ {1}) = IF 1 \in all THEN Cardinality(all) - 1 ELSE Cardinality(all)
  BY <1>4, FS_RemoveElement
<1>7. 1 \in all <=> Head(posted).call = Subtitle(i)
  BY <1>1, <1>2
<1>8. Cardinality(all) \in Nat /\ Cardinality(left) \in Nat
  BY <1>4, FS_CardinalityType
<1>9. Cardinality(all) = Cardinality(left) + (IF Head(posted).call = Subtitle(i) THEN 1 ELSE 0)
  BY <1>5, <1>6, <1>7, <1>8
<1> QED BY <1>9 DEF all, left, rest

\* A subtitle that is shown was asked for when it was posted.
LEMMA TakenFacts ==
  ASSUME NEW c \in App, c.posted # <<>>
  PROVE  Less(c, Displayed([c EXCEPT !.posted = Tail(@)], Head(c.posted).call))
<1> DEFINE call == Head(c.posted).call
<1> DEFINE rest == Tail(c.posted)
<1> DEFINE e == [c EXCEPT !.posted = rest]
<1>1. c.posted \in Posts /\ c.shown \in [Inputs -> Nat]
  BY DEF App, Posts
<1>2. rest \in Posts /\ call \in Call
  <2>1. Head(c.posted) \in [call : Call, of : Inputs]
    BY <1>1, HeadOf DEF Posts
  <2> QED BY <1>1, <2>1 DEF Posts
<1>3. \A i \in Inputs : Cardinality(Asks(c.posted, i)) =
        Cardinality(Asks(rest, i)) + (IF call = Subtitle(i) THEN 1 ELSE 0)
  BY <1>1, AsksTail
<1> HIDE DEF rest, call
<1>4. e \in App /\ e.posted = rest
  BY <1>2 DEF App, Posts
<1>5. \A f \in {"cycles", "active", "dropped", "translating", "late", "shown"} : e[f] = c[f]
  BY DEF App
<1>6. \A i \in Inputs : Cardinality(Asks(rest, i)) \in Nat
  <2> TAKE i \in Inputs
  <2>1. IsFiniteSet(Asks(rest, i))
    BY <1>4, AskedNumbers
  <2> QED BY <2>1, FS_CardinalityType
<1>7. CASE call.call # "subtitle"
  <2>1. \A i \in Inputs : call # Subtitle(i)
    BY <1>7, CallFacts
  <2>2. SameAsked(c, e)
    BY <1>3, <1>4, <1>5, <1>6, <2>1 DEF SameAsked, Asked
  <2>3. Less(c, e)
    BY <1>4, <1>5, <2>2, SameCyclesLess
  <2> HIDE DEF e
  <2>4. Less(e, Displayed(e, call))
    BY <1>2, <1>4, <1>7, DisplayedFacts, LessAside
  <2> QED BY <2>3, <2>4, LessTwice DEF e, rest, call
<1>8. CASE call.call = "subtitle"
  <2> DEFINE i == call.of
  <2>1. i \in Inputs /\ call = Subtitle(i) /\ \A j \in Inputs : call = Subtitle(j) => j = i
    BY <1>2, <1>8, CallKinds, CallFacts
  <2> DEFINE more == c.shown[i] + 1
  <2> DEFINE shown == [c.shown EXCEPT ![i] = more]
  <2> DEFINE h == [e EXCEPT !.shown = shown]
  <2>2. more \in Nat /\ c.shown[i] \in Nat
    BY <1>1, <2>1
  <2>3. Displayed(e, call) = h
    BY <1>4, <1>5, <1>8 DEF Displayed, App
  <2> HIDE DEF i, more
  <2>4. shown \in [Inputs -> Nat] /\ shown[i] = more /\ \A j \in Inputs \ {i} : shown[j] = c.shown[j]
    BY <1>1, <2>1, <2>2
  <2> HIDE DEF shown, e
  <2>5. h \in App /\ h.shown = shown /\ h.posted = rest
    BY <1>4, <2>4 DEF App
  <2>6. \A f \in {"cycles", "active", "dropped", "translating", "late"} : h[f] = c[f]
    BY <1>4, <1>5 DEF App
  <2> HIDE DEF h
  <2>7. SameAsked(c, h)
    <3> SUFFICES ASSUME NEW j \in Inputs PROVE Asked(h, j) = Asked(c, j)
      BY DEF SameAsked
    <3>1. Asked(h, j) = Cardinality(Asks(rest, j)) + shown[j]
      BY <2>5 DEF Asked
    <3>2. Asked(c, j) = Cardinality(Asks(c.posted, j)) + c.shown[j] /\ c.shown[j] \in Nat
      BY <1>1 DEF Asked
    <3>3. CASE j = i
      BY <1>3, <1>6, <2>1, <2>2, <2>4, <3>1, <3>2, <3>3 DEF more
    <3>4. CASE j # i
      BY <1>3, <1>6, <2>1, <2>4, <3>1, <3>2, <3>4
    <3> QED BY <3>3, <3>4
  <2>8. Less(c, h)
    BY <2>5, <2>6, <2>7, SameCyclesLess
  <2> QED BY <2>3, <2>8 DEF e, rest, call
<1> QED BY <1>7, <1>8

LEMMA UiMessageStep ==
  ASSUME IInv, UiMessage
  PROVE  Good
<1> DEFINE late == app.late \/ Superseded(app)
<1> DEFINE c == [app EXCEPT !.late = late]
<1>1. app \in App /\ app.posted # <<>> /\ UNCHANGED dev /\ UNCHANGED count
  BY IInvFacts DEF UiMessage
<1>2. late \in BOOLEAN /\ (app.late => late)
  OBVIOUS
<1>3. app' = Displayed([c EXCEPT !.posted = Tail(app.posted)], Head(app.posted).call)
  BY <1>1 DEF UiMessage, App
<1>4. c.posted = app.posted
  BY <1>1 DEF App
<1> HIDE DEF late
<1>5. Less(app, c)
  BY <1>1, <1>2, LateFacts
<1> HIDE DEF c
<1>6. Less(c, app')
  BY <1>1, <1>3, <1>4, <1>5, TakenFacts DEF Less
<1>7. Less(app, app')
  BY <1>5, <1>6, LessTwice
<1> QED BY <1>1, <1>7, LessEvent

-----------------------------------------------------------------------------
LEMMA InitHolds ==
  ASSUME Init
  PROVE  IInv
<1>1. PICK mode \in {"hold", "click"} :
        app = [cycles |-> [k \in Keys |-> None], active |-> [d \in Devices |-> NoSession],
               mode |-> mode, connected |-> Devices, ui |-> [d \in Devices |-> "ready"],
               overlay |-> Hidden, posted |-> <<>>, timers |-> {}, translating |-> {},
               shown |-> [i \in Inputs |-> 0], dropped |-> {}, silenced |-> FALSE,
               late |-> FALSE]
  BY DEF Init
<1>2. /\ app.cycles = [k \in Keys |-> None] /\ app.active = [d \in Devices |-> NoSession]
      /\ app.translating = {} /\ app.dropped = {}
  BY <1>1
<1>3. /\ \A k \in Keys : ~Found(app, k)
      /\ \A d \in Devices : ~HasActive(app, d)
  BY <1>2 DEF Found, HasActive
<1>4. app \in App
  <2>1. Hidden \in Overlays(Callbacks)
    BY CallFacts DEF Hidden, Overlays
  <2>2. <<>> \in Seq([call : Call, of : Inputs]) /\ NoSession \in 0..MaxInputs
    BY BoundsAssumption DEF NoSession
  <2> QED BY <1>1, <2>1, <2>2 DEF App
<1>5. /\ NoTail \in Tails /\ NoInput \in 0..MaxInputs /\ 0 \in 0..MaxFrames
      /\ NoSession \in 0..MaxInputs
  BY NoTailFacts, BoundsAssumption DEF NoInput, NoSession
<1>6. Silent \in Sending /\ Silent.session = 0 /\ Silent.input = 0 /\ Silent.tail = NoTail
  <2>1. Silent \in Sending
    BY <1>5 DEF Silent, Sending, Tails
  <2>2. Silent.session = NoSession /\ Silent.input = NoInput /\ Silent.tail = NoTail
    BY DEF Silent
  <2> QED BY <2>1, <2>2 DEF NoSession, NoInput
<1>7. Silent.up /\ Silent.ended
  BY DEF Silent
<1>8. /\ dev \in [Devices -> Sending] /\ \A d \in Devices : dev[d] = Silent
      /\ count.input = 0 /\ count \in Count
  BY <1>6, BoundsAssumption DEF Init, Count
<1>9. Cycles(app) /\ Returns(app)
  BY <1>2, <1>3 DEF Cycles, CyclesBut, Returns
<1>10. Held(app, dev, count.input)
  BY <1>2, <1>3, <1>7, <1>8 DEF Held, Owned, Fresh, Counts, Single
<1>11. Numbered(dev, count.input)
  BY <1>6, <1>7, <1>8 DEF Numbered, Sends, NoInput
<1> QED BY <1>4, <1>8, <1>9, <1>10, <1>11 DEF IInv, TypeOK, Count

LEMMA NextStep ==
  ASSUME IInv, Next
  PROVE  Good
<1>1. CASE \E luck \in Lucks : Audio(luck)
  BY <1>1, AudioStep
<1>2. CASE \E d \in Devices : Press(d) \/ ButtonDown(d) \/ ButtonUp(d)
  BY <1>2, PressStep, ButtonDownStep, ButtonUpStep
<1>3. CASE \E d \in Devices : SideClick(d) \/ DeviceLost(d) \/ DeviceBack(d)
  BY <1>3, SideClickStep, DeviceLostStep, DeviceBackStep
<1>4. CASE \E k \in Keys : AsrResult(k) \/ AsrFinal(k) \/ AsrReported(k) \/ HalfSecond(k)
  BY <1>4, AsrResultStep, AsrFinalStep, AsrReportedStep, HalfSecondStep
<1>5. CASE \E x \in app.translating : Translated(x)
  BY <1>5, TranslatedStep
<1>6. CASE UiMessage \/ OverlayTimer \/ UpdateConfig
  BY <1>6, UiMessageStep, OverlayTimerStep, UpdateConfigStep
<1> QED BY <1>1, <1>2, <1>3, <1>4, <1>5, <1>6 DEF Next, Lucks

LEMMA StutterStep ==
  ASSUME IInv, UNCHANGED vars
  PROVE  Good
<1>1. app' = app /\ UNCHANGED dev /\ UNCHANGED count
  BY DEF vars
<1>2. Less(app, app')
  BY <1>1, IInvFacts, LessSelf
<1> QED BY <1>1, <1>2, LessEvent

LEMMA GoodAlways ==
  ASSUME IInv, [Next]_vars
  PROVE  Good
BY NextStep, StutterStep

(* The inductive invariant of the subtitle cycles: the active cycle of a   *)
(* device exists, a cycle with a device's session number is of what the    *)
(* device sends with it, a cycle that reports or has its text has sent its *)
(* end, and what the translator is to answer for is found with its text.   *)
THEOREM CyclesInvariance == Spec => []IInv
<1>1. Init => IInv
  BY InitHolds
<1>2. IInv /\ [Next]_vars => IInv'
  BY GoodAlways DEF Good
<1> QED BY <1>1, <1>2, PTL DEF Spec

\* The state keeps its types.
THEOREM CyclesTypes == Spec => []TypeOK
<1>1. IInv => TypeOK
  BY DEF IInv
<1> QED BY <1>1, CyclesInvariance, PTL

(* The ASR session of a cycle is fed the audio of the cycle's recording,   *)
(* though frames that are late or of a device that restarted come with     *)
(* session numbers that were used before; and it is told of the end once,  *)
(* by the end marker or by the timeout that stands in for it.              *)
THEOREM FedItsOwnAlways == Spec => []FedItsOwn
<1>1. IInv => FedItsOwn
  BY DEF IInv, Cycles, CyclesBut, Sound, Neat, FedItsOwn
<1> QED BY <1>1, CyclesInvariance, PTL

(* While a device records, texts, failures and timeouts of its earlier     *)
(* recordings do not end the cycle it records to.                          *)
THEOREM RecordingGoesOnAlways == Spec => RecordingGoesOn
<1>1. IInv /\ [Next]_vars =>
        [\A d \in Devices : Recording(app, d) /\ ~app.late =>
           LET k == ActiveKey(app, d)
           IN  app.cycles[k].of \notin app'.dropped => app'.cycles[k].of = app.cycles[k].of]_vars
  BY GoodAlways DEF Good, Spared
<1> QED BY <1>1, CyclesInvariance, PTL DEF Spec, RecordingGoesOn

(* Of a recording that was cancelled no subtitle is asked for any more,    *)
(* unless its text was with the translator, or a click began it anew.      *)
THEOREM DroppedNotShownAlways == Spec => DroppedNotShown
<1>1. IInv /\ [Next]_vars =>
        [\A i \in app.dropped :
           LET asked(c) == Cardinality({n \in DOMAIN c.posted : c.posted[n].call = Subtitle(i)}) + c.shown[i]
           IN  asked(app') > asked(app) => app.late \/ \E x \in app.translating : x.of = i]_vars
  BY GoodAlways DEF Good, AskedFor, Asked, Asks
<1> QED BY <1>1, CyclesInvariance, PTL DEF Spec, DroppedNotShown

=============================================================================
