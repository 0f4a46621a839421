------------------------- MODULE AsrClientWinProofs -------------------------
(***************************************************************************)
(* Proofs about AsrClientWin, for every number of sessions, chunks and     *)
(* failures: the client implements AsrOutcomes, a final text is of the     *)
(* session that ends, and a session gets the audio of one recording.       *)
(*                                                                         *)
(* AInv is the inductive invariant.  Most actions change the calls of one  *)
(* thread and leave the fates alone or end the current session; lemma      *)
(* Ordinary proves once what such a step keeps, and that it is a step of   *)
(* AsrOutcomes or none.  BeginKeeps and RestartKeeps do so for the steps   *)
(* that begin a session and make a connection anew.                        *)
(*                                                                         *)
(* AudioInv, inductive with AInv, says of every chunk where it is: in one  *)
(* place, for a session that gets one recording only.                      *)
(***************************************************************************)
EXTENDS AsrClientWin, SequenceTheorems, TLAPS

\* What Start left to do when the connection must be made anew.
Restarting ==
  {<<Call("shutdown"), Call("restart")>>, <<Call("close"), Call("restart")>>, <<Call("restart")>>}

NamesOf(t) ==
  {"send", "finish", "tell"}
    \cup IF t = "ui" THEN {} ELSE {"fail", "failed", "flush", "flushing", "stop"}

Allowed(t, rest) == \A i \in 1..Len(rest) : rest[i].call \in NamesOf(t)

ShapeInv ==
  /\ calls["ui"] \in Restarting \/ Allowed("ui", calls["ui"])
  /\ Allowed("worker", calls["worker"])

\* At most one session is active: the current one, or the one whose connection
\* is being made anew.
FateInv ==
  /\ fate \in [SessionIds -> Fates] /\ told \subseteq SessionIds
  /\ calls["ui"] = <<Call("restart")>> => ~Active
  /\ calls["ui"] \in Restarting => Unused # {}
  /\ Active => fate[currentId] = "active"
  /\ \A s \in SessionIds :
       fate[s] = "active" => s = currentId \/ calls["ui"] = <<Call("restart")>>
  /\ \A s, t \in SessionIds : fate[s] = "active" /\ fate[t] = "active" => s = t
  /\ \A s \in told : fate[s] \in {"final", "error"}

\* A callback that is due is all its thread has left, its session has ended by
\* itself, no callback for it has run, and the other thread has another's.
TellInv ==
  /\ \A t \in Threads : \A i \in 1..Len(calls[t]) :
       calls[t][i].call = "tell" =>
         /\ i = 1 /\ Len(calls[t]) = 1
         /\ fate[calls[t][i].session] \in {"final", "error"}
         /\ calls[t][i].session \notin told
         /\ calls[t][i].text \in {calls[t][i].session, NoId}
  /\ \A i \in 1..Len(calls["ui"]), j \in 1..Len(calls["worker"]) :
       calls["ui"][i].call = "tell" /\ calls["worker"][j].call = "tell"
         => calls["ui"][i].session # calls["worker"][j].session

AInv == StateOK /\ ThreadsOK /\ NetOK /\ ShapeInv /\ FateInv /\ TellInv

Step == Promise!OutcomesNext \/ UNCHANGED Promise!outcomeVars

-----------------------------------------------------------------------------
LEMMA Numbers == MaxSessions \in Nat \ {0} /\ MaxFaults \in Nat /\ MaxChunks \in Nat
BY BoundsAssumption

LEMMA IdFacts == NoId \notin SessionIds /\ SessionIds \subseteq Nat
BY Numbers DEF NoId, SessionIds

LEMMA PromiseIds == Promise!SessionIds = SessionIds
BY DEF Promise!SessionIds, SessionIds

LEMMA QueueTail ==
  ASSUME NEW S, NEW s \in Seq(S), s # <<>>
  PROVE  /\ Head(s) \in S /\ Head(s) = s[1] /\ 1 \in 1..Len(s)
         /\ Tail(s) \in Seq(S)
         /\ \A i \in 1..Len(Tail(s)) : i + 1 \in 1..Len(s) /\ Tail(s)[i] = s[i + 1]
OBVIOUS

LEMMA QueueAppend ==
  ASSUME NEW S, NEW s \in Seq(S), NEW e \in S
  PROVE  Append(s, e) \in Seq(S)
OBVIOUS

LEMMA QueueOne ==
  ASSUME NEW S, NEW e \in S
  PROVE  <<e>> \in Seq(S) /\ Len(<<e>>) = 1 /\ <<e>>[1] = e
OBVIOUS

LEMMA QueueNone == \A S : <<>> \in Seq(S) /\ Len(<<>>) = 0
OBVIOUS

LEMMA QueueConcat ==
  ASSUME NEW S, NEW s \in Seq(S), NEW t \in Seq(S)
  PROVE  /\ s \o t \in Seq(S)
         /\ \A i \in 1..Len(s \o t) :
              \/ i \in 1..Len(s) /\ (s \o t)[i] = s[i]
              \/ i - Len(s) \in 1..Len(t) /\ (s \o t)[i] = t[i - Len(s)]
OBVIOUS

\* The kinds of calls.
LEMMA CallTypes ==
  /\ \A name \in {"finish", "shutdown", "close", "restart", "fail", "flush", "stop"} :
       Call(name) \in Calls /\ Call(name).call = name
  /\ \A frame \in Frames : Send(frame) \in Calls /\ Send(frame).call = "send"
  /\ \A was \in BOOLEAN : FailUnless(was) \in Calls /\ FailUnless(was).call = "failed"
  /\ \A s \in SessionIds, text \in Ids :
       /\ Tell(s, text) \in Calls /\ Tell(s, text).call = "tell"
       /\ Tell(s, text).session = s /\ Tell(s, text).text = text
BY DEF Call, Send, FailUnless, Tell, Calls

LEMMA TellType ==
  ASSUME NEW call \in Calls, call.call = "tell"
  PROVE  call.session \in SessionIds /\ call.text \in Ids
BY DEF Calls

LEMMA SendType ==
  ASSUME NEW call \in Calls, call.call = "send"
  PROVE  call.frame \in Frames
BY DEF Calls

LEMMA FlushingType ==
  ASSUME NEW call \in Calls, call.call = "flushing"
  PROVE  call.session \in Ids /\ call.chunks \in Seq(Queued) /\ call.chunks # <<>>
BY DEF Calls

LEMMA FrameTypes ==
  /\ \A name \in {"connect", "disconnect"} : Frame(name, NoId) \in Frames
  /\ \A name \in {"start", "finish", "cancel"}, s \in SessionIds : Frame(name, s) \in Frames
  /\ \A s \in Ids, chunk \in Chunks : Task(s, chunk) \in Frames
  /\ \A name \in {"connected", "disconnected", "error", "response"}, s \in Ids :
       Frame(name, s) \in Events
  /\ \A name \in {"started", "canceled"}, s \in SessionIds : Frame(name, s) \in Events
  /\ \A s \in SessionIds, e \in BOOLEAN :
       [name |-> "finished", session |-> s, empty |-> e] \in Events
BY DEF Frame, Task, Frames, Events

LEMMA EventTypes ==
  ASSUME NEW event \in Events
  PROVE  /\ event.name \in {"started", "canceled", "finished"} => event.session \in SessionIds
         /\ event.session \in Ids
BY DEF Events, Ids

-----------------------------------------------------------------------------
\* What a thread has left to do.

LEMMA GoFacts ==
  ASSUME ThreadsOK, NEW t \in Threads, NEW rest \in Seq(Calls), Go(t, rest)
  PROVE  /\ calls' \in [Threads -> Seq(Calls)]
         /\ calls'[t] = rest
         /\ \A u \in Threads : u # t => calls'[u] = calls[u]
BY DEF ThreadsOK, Go

LEMMA InCallFacts ==
  ASSUME ThreadsOK, NEW t \in Threads, NEW name, InCall(t, name)
  PROVE  /\ calls[t] \in Seq(Calls) /\ calls[t] # <<>>
         /\ Head(calls[t]) \in Calls /\ Head(calls[t]).call = name
         /\ Head(calls[t]) = calls[t][1] /\ 1 \in 1..Len(calls[t])
         /\ Tail(calls[t]) \in Seq(Calls)
         /\ \A i \in 1..Len(Tail(calls[t])) :
              i + 1 \in 1..Len(calls[t]) /\ Tail(calls[t])[i] = calls[t][i + 1]
<1>1. calls[t] \in Seq(Calls) /\ calls[t] # <<>> /\ Head(calls[t]).call = name
  BY DEF ThreadsOK, InCall
<1> QED
  BY <1>1, QueueTail

\* A thread that is not making a connection anew has ordinary calls only.
Ready(t) == t = "ui" => calls["ui"] \notin Restarting

NoTell(rest) == \A i \in 1..Len(rest) : rest[i].call # "tell"

LEMMA RestartCalls ==
  ASSUME NEW rest \in Restarting
  PROVE  /\ rest \in Seq(Calls) /\ rest # <<>>
         /\ Head(rest).call \in {"shutdown", "close", "restart"}
         /\ Head(rest).call = "shutdown" => rest = <<Call("shutdown"), Call("restart")>>
         /\ Head(rest).call = "close" => rest = <<Call("close"), Call("restart")>>
         /\ Head(rest).call = "restart" => rest = <<Call("restart")>>
         /\ NoTell(rest)
<1> DEFINE S == Call("shutdown")
           C == Call("close")
           R == Call("restart")
<1>1. /\ S \in Calls /\ C \in Calls /\ R \in Calls
      /\ S.call = "shutdown" /\ C.call = "close" /\ R.call = "restart"
  BY CallTypes
<1>2. rest \in {<<S, R>>, <<C, R>>, <<R>>}
  BY DEF Restarting
<1> HIDE DEF S, C, R
<1>3. \A a, b \in Calls : /\ <<a, b>> \in Seq(Calls) /\ <<a, b>> # <<>> /\ Head(<<a, b>>) = a
                          /\ Len(<<a, b>>) = 2 /\ <<a, b>>[1] = a /\ <<a, b>>[2] = b
  OBVIOUS
<1>4. \A a \in Calls : /\ <<a>> \in Seq(Calls) /\ <<a>> # <<>> /\ Head(<<a>>) = a
                       /\ Len(<<a>>) = 1 /\ <<a>>[1] = a
  OBVIOUS
<1>5. CASE rest = <<S, R>>
  BY <1>1, <1>3, <1>5 DEF NoTell, S, R
<1>6. CASE rest = <<C, R>>
  BY <1>1, <1>3, <1>6 DEF NoTell, C, R
<1>7. CASE rest = <<R>>
  BY <1>1, <1>4, <1>7 DEF NoTell, R
<1> QED
  BY <1>2, <1>5, <1>6, <1>7

LEMMA NotRestarting ==
  ASSUME NEW rest, Allowed("ui", rest)
  PROVE  rest \notin Restarting
<1> SUFFICES ASSUME rest \in Restarting PROVE FALSE
  OBVIOUS
<1>1. rest \in Seq(Calls) /\ rest # <<>> /\ Head(rest).call \in {"shutdown", "close", "restart"}
  BY RestartCalls
<1>2. Head(rest) = rest[1] /\ 1 \in 1..Len(rest)
  BY <1>1, QueueTail
<1> QED
  BY <1>1, <1>2 DEF Allowed, NamesOf

LEMMA ReadyFacts ==
  ASSUME ThreadsOK, ShapeInv, NEW t \in Threads,
         \/ calls[t] = <<>>
         \/ \E name \in NamesOf(t) : InCall(t, name)
  PROVE  Ready(t) /\ Allowed(t, calls[t])
<1>1. CASE t = "worker"
  BY <1>1 DEF Ready, ShapeInv
<1>2. CASE t = "ui"
  <2>1. calls["ui"] \notin Restarting
    BY <1>2, RestartCalls DEF InCall, NamesOf
  <2> QED
    BY <1>2, <2>1 DEF Ready, ShapeInv
<1> QED
  BY <1>1, <1>2 DEF Threads

\* The callback, if the head is not one: none of the rest is either.
LEMMA RestFacts ==
  ASSUME ThreadsOK, ShapeInv, TellInv, NEW t \in Threads, NEW name \in NamesOf(t), InCall(t, name)
  PROVE  Allowed(t, Tail(calls[t])) /\ NoTell(Tail(calls[t]))
<1>1. Allowed(t, calls[t])
  BY ReadyFacts
<1>2. Allowed(t, Tail(calls[t]))
  BY <1>1, InCallFacts DEF Allowed
<1>3. ASSUME NEW i \in 1..Len(Tail(calls[t])), Tail(calls[t])[i].call = "tell"
      PROVE  FALSE
  <2>1. i + 1 \in 1..Len(calls[t]) /\ calls[t][i + 1].call = "tell"
    BY <1>3, InCallFacts
  <2> QED
    BY <2>1 DEF TellInv
<1> QED
  BY <1>2, <1>3 DEF NoTell

LEMMA ConcatAllowed ==
  ASSUME NEW t, NEW r \in Seq(Calls), NEW s \in Seq(Calls),
         Allowed(t, r), Allowed(t, s), NoTell(r), NoTell(s)
  PROVE  r \o s \in Seq(Calls) /\ Allowed(t, r \o s) /\ NoTell(r \o s)
BY QueueConcat DEF Allowed, NoTell

LEMMA OneAllowed ==
  ASSUME NEW t, NEW call \in Calls, call.call \in NamesOf(t)
  PROVE  /\ <<call>> \in Seq(Calls) /\ Allowed(t, <<call>>)
         /\ call.call # "tell" => NoTell(<<call>>)
BY QueueOne DEF Allowed, NoTell

LEMMA NoneAllowed ==
  \A t : <<>> \in Seq(Calls) /\ Allowed(t, <<>>) /\ NoTell(<<>>)
BY QueueNone DEF Allowed, NoTell

-----------------------------------------------------------------------------
\* What most steps keep.

Ends == Fates \ {"unused", "active"}

FateKept == UNCHANGED <<fate, currentId>> /\ Active' = Active
FateEnded(end) == fate' = Ended(end) /\ currentId' = NoId /\ ~Active'

LEMMA FatesFacts ==
  Fates = {"unused", "active", "final", "error", "refused", "silent", "cancelled"}
BY DEF Fates, Promise!Fates

\* Ending the current session is a step of AsrOutcomes, and leaves the other
\* fates alone.
LEMMA EndedFacts ==
  ASSUME StateOK, FateInv, NEW end \in Ends, FateEnded(end), UNCHANGED told
  PROVE  /\ Step
         /\ fate' \in [SessionIds -> Fates]
         /\ \A s \in SessionIds :
              fate[s] # "active" => fate'[s] = fate[s]
         /\ \A s \in SessionIds :
              fate'[s] = "active" => fate[s] = "active" /\ calls["ui"] = <<Call("restart")>>
         /\ \A s \in SessionIds : fate[s] = "unused" <=> fate'[s] = "unused"
         /\ Active => fate'[currentId] = end
<1>1. CASE Active
  <2>1. currentId \in SessionIds /\ fate[currentId] = "active"
    BY <1>1 DEF FateInv, StateOK, Active, Ids
  <2>2. fate' = [fate EXCEPT ![currentId] = end] /\ end \in Fates /\ end \notin {"unused", "active"}
    BY <1>1 DEF FateEnded, Ended, Ends
  <2>3. Promise!End(currentId)
    BY <2>1, <2>2 DEF Promise!End, Fates
  <2>4. Step
    BY <2>1, <2>3, PromiseIds DEF Step, Promise!OutcomesNext
  <2>5. \A s \in SessionIds : fate[s] = "active" => s = currentId
    BY <2>1 DEF FateInv
  <2> QED
    BY <2>1, <2>2, <2>4, <2>5 DEF FateInv
<1>2. CASE ~Active
  <2>1. fate' = fate
    BY <1>2 DEF FateEnded, Ended
  <2>2. \A s \in SessionIds : fate[s] = "active" => calls["ui"] = <<Call("restart")>>
    BY <1>2, IdFacts DEF FateInv, StateOK, Active
  <2> QED
    BY <1>2, <2>1, <2>2 DEF Step, Promise!outcomeVars, FateInv
<1> QED
  BY <1>1, <1>2

\* The calls of one thread become rest: no callback, or the one of the session
\* that ends in this step.
LEMMA TellKept ==
  ASSUME ThreadsOK, FateInv, TellInv, NEW t \in Threads, NEW rest \in Seq(Calls), Go(t, rest),
         UNCHANGED told,
         \A s \in SessionIds : fate[s] # "active" => fate'[s] = fate[s],
         \/ NoTell(rest)
         \/ /\ currentId \in SessionIds /\ fate[currentId] = "active"
            /\ fate'[currentId] \in {"final", "error"}
            /\ \E text \in {currentId, NoId} : rest = <<Tell(currentId, text)>>
  PROVE  TellInv'
<1>1. /\ calls'[t] = rest /\ \A u \in Threads : u # t => calls'[u] = calls[u]
  BY GoFacts
<1> DEFINE Due(call) == /\ fate'[call.session] \in {"final", "error"}
                        /\ call.session \notin told
                        /\ call.text \in {call.session, NoId}
<1>2. ASSUME NEW u \in Threads, u # t, NEW i \in 1..Len(calls[u]), calls[u][i].call = "tell"
      PROVE  /\ i = 1 /\ Len(calls[u]) = 1 /\ Due(calls[u][i])
             /\ calls[u][i].session \in SessionIds /\ fate[calls[u][i].session] # "active"
  <2>1. calls[u][i] \in Calls
    BY <1>2 DEF ThreadsOK
  <2>2. calls[u][i].session \in SessionIds
    BY <1>2, <2>1, TellType
  <2> QED
    BY <1>2, <2>2 DEF TellInv
<1>3. CASE NoTell(rest)
  <2>1. \A i \in 1..Len(calls'[t]) : calls'[t][i].call # "tell"
    BY <1>1, <1>3 DEF NoTell
  <2> QED
    BY <1>1, <1>2, <2>1 DEF TellInv, Threads
<1>4. ASSUME currentId \in SessionIds, fate[currentId] = "active",
             fate'[currentId] \in {"final", "error"},
             NEW text \in {currentId, NoId}, rest = <<Tell(currentId, text)>>
      PROVE  TellInv'
  <2>1. text \in Ids
    BY <1>4 DEF Ids
  <2>2. Len(rest) = 1 /\ rest[1] = Tell(currentId, text)
    BY <1>4
  <2>3. rest[1].session = currentId /\ rest[1].text = text
    BY <1>4, <2>1, <2>2, CallTypes
  <2>4. currentId \notin told
    BY <1>4 DEF FateInv
  <2>5. ASSUME NEW i \in 1..Len(calls'[t]), calls'[t][i].call = "tell"
        PROVE  /\ i = 1 /\ Len(calls'[t]) = 1 /\ Due(calls'[t][i])
               /\ fate[calls'[t][i].session] = "active"
    BY <1>1, <1>4, <2>2, <2>3, <2>4
  <2> QED
    BY <1>1, <1>2, <2>5 DEF TellInv, Threads
<1> QED
  BY <1>3, <1>4

LEMMA Ordinary ==
  ASSUME AInv, NEW t \in Threads, Ready(t),
         NEW rest \in Seq(Calls), Allowed(t, rest), Go(t, rest), UNCHANGED told,
         FateKept \/ \E end \in Ends : FateEnded(end),
         \/ NoTell(rest)
         \/ /\ Active /\ fate'[currentId] \in {"final", "error"}
            /\ \E text \in {currentId, NoId} : rest = <<Tell(currentId, text)>>
  PROVE  ShapeInv' /\ FateInv' /\ TellInv' /\ Step /\ calls' \in [Threads -> Seq(Calls)]
<1>1. /\ calls' \in [Threads -> Seq(Calls)] /\ calls'[t] = rest
      /\ \A u \in Threads : u # t => calls'[u] = calls[u]
  BY GoFacts DEF AInv
<1>2. Step /\ fate' \in [SessionIds -> Fates]
      /\ (\A s \in SessionIds : fate[s] # "active" => fate'[s] = fate[s])
      /\ (\A s \in SessionIds : fate[s] = "unused" <=> fate'[s] = "unused")
      /\ (\A s \in SessionIds : fate'[s] = "active" => fate[s] = "active")
  <2>1. CASE FateKept
    BY <2>1 DEF FateKept, Step, Promise!outcomeVars, AInv, FateInv
  <2>2. CASE \E end \in Ends : FateEnded(end)
    BY <2>2, EndedFacts DEF AInv
  <2> QED
    BY <2>1, <2>2
<1>3. ShapeInv'
  BY <1>1 DEF AInv, ShapeInv, Threads, Allowed
<1>4. calls'["ui"] \in Restarting => t # "ui" /\ calls'["ui"] = calls["ui"]
  <2>1. Allowed("ui", rest) => rest \notin Restarting
    BY NotRestarting
  <2> QED
    BY <1>1, <2>1 DEF Threads
<1>5. calls["ui"] = <<Call("restart")>> => t # "ui" /\ calls'["ui"] = calls["ui"]
  <2>1. <<Call("restart")>> \in Restarting
    BY DEF Restarting
  <2> QED
    BY <1>1, <2>1 DEF Ready, Threads
<1>6. calls'["ui"] = <<Call("restart")>> => calls'["ui"] = calls["ui"]
  BY <1>4 DEF Restarting
<1>7. FateInv'
  <2>1. calls'["ui"] \in Restarting => Unused' # {}
    BY <1>2, <1>4 DEF AInv, FateInv, Unused
  <2>2. \A s \in SessionIds : fate'[s] = "active" =>
          s = currentId' \/ calls'["ui"] = <<Call("restart")>>
    <3>1. CASE FateKept
      BY <1>2, <1>5, <3>1 DEF AInv, FateInv, FateKept
    <3>2. CASE \E end \in Ends : FateEnded(end)
      BY <1>5, <3>2, EndedFacts DEF AInv
    <3> QED
      BY <3>1, <3>2
  <2>3. calls'["ui"] = <<Call("restart")>> => ~Active'
    BY <1>6 DEF AInv, FateInv, FateKept, FateEnded
  <2>4. Active' => fate'[currentId'] = "active"
    BY DEF AInv, FateInv, FateKept, FateEnded
  <2>5. \A s, u \in SessionIds : fate'[s] = "active" /\ fate'[u] = "active" => s = u
    BY <1>2 DEF AInv, FateInv
  <2>6. told' \subseteq SessionIds /\ \A s \in told' : fate'[s] \in {"final", "error"}
    BY <1>2 DEF AInv, FateInv
  <2> QED
    BY <1>2, <2>1, <2>2, <2>3, <2>4, <2>5, <2>6 DEF FateInv
<1>8. TellInv'
  <2>1. Active => currentId \in SessionIds /\ fate[currentId] = "active"
    BY DEF AInv, FateInv, StateOK, Active, Ids
  <2> QED
    BY <1>2, <2>1, TellKept DEF AInv
<1> QED
  BY <1>1, <1>2, <1>3, <1>7, <1>8

\* The thread may have changed nothing of its calls.
LEMMA StaysFacts ==
  ASSUME ThreadsOK, NEW t \in Threads, calls[t] = <<>>, UNCHANGED calls
  PROVE  Go(t, <<>>)
BY DEF ThreadsOK, Go

LEMMA StateUnchanged ==
  ASSUME StateOK, UNCHANGED stateVars
  PROVE  StateOK'
BY DEF StateOK, stateVars, sessionVars

LEMMA NetUnchanged ==
  ASSUME NetOK, UNCHANGED netVars
  PROVE  NetOK'
BY DEF NetOK, netVars

LEMMA ThreadsKept ==
  ASSUME ThreadsOK, UNCHANGED spoken, calls' \in [Threads -> Seq(Calls)],
         worker' \in {worker, "opening", "loop", "receive", "exited"}
  PROVE  ThreadsOK'
BY DEF ThreadsOK

LEMMA SentFacts ==
  ASSUME NetOK, NEW frame \in Frames, Sent(frame)
  PROVE  toServer' \in Seq(Frames)
BY QueueAppend DEF Sent, NetOK

\* The client's session ends, or there was none.
LEMMA ClearedFacts ==
  ASSUME StateOK, ClearSession, cancelled' \in BOOLEAN, websocket' \in BOOLEAN,
         connectionState' \in {"disconnected", "connecting", "ready"}
  PROVE  StateOK' /\ ~Active' /\ currentId' = NoId
BY QueueNone DEF StateOK, ClearSession, Active, Ids

-----------------------------------------------------------------------------
\* Either thread.

LEMMA FrameSentKeeps ==
  ASSUME AInv, NEW t \in Threads, FrameSent(t)
  PROVE  AInv' /\ Step
<1>1. InCall(t, "send") /\ "send" \in NamesOf(t)
  BY DEF FrameSent, NamesOf
<1>2. Ready(t) /\ Tail(calls[t]) \in Seq(Calls) /\ Allowed(t, Tail(calls[t]))
      /\ NoTell(Tail(calls[t]))
  BY <1>1, ReadyFacts, RestFacts, InCallFacts DEF AInv
<1>3. Go(t, Tail(calls[t])) /\ FateKept /\ UNCHANGED told
  BY DEF FrameSent, Return, FateKept, stateVars, sessionVars, Active
<1>4. ShapeInv' /\ FateInv' /\ TellInv' /\ Step /\ calls' \in [Threads -> Seq(Calls)]
  BY <1>2, <1>3, Ordinary
<1>5. toServer' \in Seq(Frames)
  BY <1>1, InCallFacts, SendType, SentFacts DEF AInv, FrameSent
<1>6. NetOK'
  BY <1>5 DEF AInv, NetOK, FrameSent
<1>7. StateOK' /\ ThreadsOK'
  BY <1>4, StateUnchanged, ThreadsKept DEF AInv, FrameSent
<1> QED
  BY <1>4, <1>6, <1>7 DEF AInv

\* A failure ends the session with the callback, if it is due.
LEMMA FailureKeeps ==
  ASSUME AInv, NEW t \in Threads, Ready(t), NEW notify \in BOOLEAN, notify => Active,
         NEW end \in Ends, notify => end = "error",
         Go(t, IF notify THEN <<Tell(currentId, NoId)>> ELSE <<>>),
         fate' = Ended(end),
         ClearSession, Disconnect, cancelled' \in BOOLEAN,
         UNCHANGED <<worker, spoken, netVars, told>>
  PROVE  AInv' /\ Step
<1>1. StateOK' /\ FateEnded(end)
  BY ClearedFacts DEF AInv, FateEnded, Disconnect
<1> DEFINE rest == IF notify THEN <<Tell(currentId, NoId)>> ELSE <<>>
<1>2. CASE notify
  <2>1. currentId \in SessionIds /\ NoId \in Ids
    BY <1>2 DEF AInv, StateOK, Active, Ids
  <2>2. Tell(currentId, NoId) \in Calls /\ Tell(currentId, NoId).call = "tell"
    BY <2>1, CallTypes
  <2>3. rest = <<Tell(currentId, NoId)>> /\ rest \in Seq(Calls) /\ Allowed(t, rest)
    BY <1>2, <2>2, OneAllowed DEF NamesOf
  <2>4. fate'[currentId] = "error"
    BY <1>1, <1>2, EndedFacts DEF AInv
  <2> HIDE DEF rest
  <2>5. Go(t, rest)
    BY DEF rest
  <2> QED
    BY <1>1, <1>2, <2>3, <2>4, <2>5, Ordinary, NetUnchanged, ThreadsKept DEF AInv
<1>3. CASE ~notify
  <2>1. rest = <<>> /\ rest \in Seq(Calls) /\ Allowed(t, rest) /\ NoTell(rest)
    BY <1>3, NoneAllowed
  <2>2. Go(t, rest)
    OBVIOUS
  <2> HIDE DEF rest
  <2> QED
    BY <1>1, <2>1, <2>2, Ordinary, NetUnchanged, ThreadsKept DEF AInv
<1> QED
  BY <1>2, <1>3

LEMMA FrameFailedKeeps ==
  ASSUME AInv, NEW t \in Threads, FrameFailed(t)
  PROVE  AInv' /\ Step
<1> DEFINE notify == ~cancelled /\ Active
           refused == t = "ui" /\ Head(calls[t]).frame.name = "start"
           end == IF notify THEN "error" ELSE IF refused THEN "refused" ELSE "silent"
<1>1. Ready(t)
  BY ReadyFacts DEF AInv, FrameFailed, NamesOf
<1>2. notify \in BOOLEAN /\ (notify => Active) /\ end \in Ends /\ (notify => end = "error")
  <2> {"error", "refused", "silent"} \subseteq Ends
    BY FatesFacts DEF Ends
  <2>1. notify \in BOOLEAN
    OBVIOUS
  <2> QED
    BY <2>1
<1>3. /\ Go(t, IF notify THEN <<Tell(currentId, NoId)>> ELSE <<>>)
      /\ fate' = Ended(end)
      /\ ClearSession /\ Disconnect /\ cancelled' \in BOOLEAN
      /\ UNCHANGED <<worker, spoken, netVars, told>>
  BY DEF FrameFailed
<1> HIDE DEF notify, end
<1> QED
  BY <1>1, <1>2, <1>3, FailureKeeps

LEMMA FailLockedKeeps ==
  ASSUME AInv, FailLocked
  PROVE  AInv' /\ Step
<1> DEFINE notify == ~Head(calls["worker"]).was /\ Active
           end == IF notify THEN "error" ELSE "silent"
<1>1. "worker" \in Threads /\ Ready("worker")
  BY DEF Threads, Ready
<1>2. notify \in BOOLEAN /\ (notify => Active) /\ end \in Ends /\ (notify => end = "error")
  BY FatesFacts DEF Ends, Active, AInv, StateOK
<1>3. /\ Go("worker", IF notify THEN <<Tell(currentId, NoId)>> ELSE <<>>)
      /\ fate' = Ended(end)
      /\ ClearSession /\ Disconnect /\ cancelled' \in BOOLEAN
      /\ UNCHANGED <<worker, spoken, netVars, told>>
  BY DEF FailLocked, AInv, StateOK
<1> HIDE DEF notify, end
<1> QED
  BY <1>1, <1>2, <1>3, FailureKeeps

\* A step that ends nothing and reports nothing.
LEMMA Plain ==
  ASSUME AInv, NEW t \in Threads, Ready(t),
         NEW rest \in Seq(Calls), Allowed(t, rest), NoTell(rest), Go(t, rest),
         FateKept, UNCHANGED told, StateOK', NetOK',
         spoken' \in [recording : Ids, count : Nat, last : BOOLEAN],
         worker' \in {worker, "opening", "loop", "receive", "exited"}
  PROVE  AInv' /\ Step
<1>1. ShapeInv' /\ FateInv' /\ TellInv' /\ Step /\ calls' \in [Threads -> Seq(Calls)]
  BY Ordinary
<1>2. ThreadsOK'
  BY <1>1 DEF AInv, ThreadsOK
<1> QED
  BY <1>1, <1>2 DEF AInv

LEMMA CallbackKeeps ==
  ASSUME AInv, NEW t \in Threads, Callback(t)
  PROVE  AInv' /\ Step
<1> DEFINE call == Head(calls[t])
<1>1. InCall(t, "tell") /\ "tell" \in NamesOf(t)
  BY DEF Callback, NamesOf
<1>2. Ready(t) /\ Tail(calls[t]) \in Seq(Calls) /\ Allowed(t, Tail(calls[t]))
      /\ NoTell(Tail(calls[t]))
  BY <1>1, ReadyFacts, RestFacts, InCallFacts DEF AInv
<1>3. call \in Calls /\ call.call = "tell" /\ call = calls[t][1] /\ 1 \in 1..Len(calls[t])
  BY <1>1, InCallFacts DEF AInv
<1>4. call.session \in SessionIds
  BY <1>3, TellType
<1>5. fate[call.session] \in {"final", "error"} /\ call.session \notin told
  BY <1>3 DEF AInv, TellInv
<1>6. Go(t, Tail(calls[t])) /\ told' = told \cup {call.session} /\ UNCHANGED fate
  BY DEF Callback, Return
<1>7. Promise!Tell(call.session)
  BY <1>5, <1>6 DEF Promise!Tell
<1>8. Step
  BY <1>4, <1>7, PromiseIds DEF Step, Promise!OutcomesNext
<1>9. /\ calls' \in [Threads -> Seq(Calls)] /\ calls'[t] = Tail(calls[t])
      /\ \A u \in Threads : u # t => calls'[u] = calls[u]
  BY <1>2, <1>6, GoFacts DEF AInv
<1>10. ShapeInv'
  BY <1>2, <1>9 DEF AInv, ShapeInv, Threads, Allowed
<1>11. TellInv'
  <2>1. \A i \in 1..Len(calls'[t]) : calls'[t][i].call # "tell"
    BY <1>2, <1>9 DEF NoTell
  <2>2. ASSUME NEW u \in Threads, u # t, NEW i \in 1..Len(calls[u]), calls[u][i].call = "tell"
        PROVE  /\ i = 1 /\ Len(calls[u]) = 1
               /\ fate[calls[u][i].session] \in {"final", "error"}
               /\ calls[u][i].session \notin told /\ calls[u][i].session # call.session
               /\ calls[u][i].text \in {calls[u][i].session, NoId}
    BY <1>3, <2>2 DEF AInv, TellInv, Threads
  <2> HIDE DEF call
  <2> QED
    BY <1>6, <1>9, <2>1, <2>2 DEF TellInv, Threads
<1>12. FateInv'
  <2>1. UNCHANGED <<currentId, sessionState>>
    BY DEF Callback, stateVars, sessionVars
  <2>2. told' \subseteq SessionIds /\ \A s \in told' : fate[s] \in {"final", "error"}
    BY <1>4, <1>5, <1>6 DEF AInv, FateInv
  <2>3. calls'["ui"] = calls["ui"] \/ (calls["ui"] \notin Restarting /\ calls'["ui"] \notin Restarting)
    <3>1. CASE t = "ui"
      <4>1. Tail(calls["ui"]) \notin Restarting
        BY <1>2, <3>1, NotRestarting
      <4> QED
        BY <1>2, <1>9, <3>1, <4>1 DEF Ready
    <3>2. CASE t # "ui"
      BY <1>9, <3>2 DEF Threads
    <3> QED
      BY <3>1, <3>2
  <2>4. <<Call("restart")>> \in Restarting
    BY DEF Restarting
  <2> QED
    BY <1>6, <2>1, <2>2, <2>3, <2>4 DEF AInv, FateInv, Active, Unused
<1>13. StateOK' /\ NetOK' /\ ThreadsOK'
  BY <1>9, StateUnchanged, NetUnchanged, ThreadsKept DEF AInv, Callback
<1> QED
  BY <1>8, <1>10, <1>11, <1>12, <1>13 DEF AInv

LEMMA FinishKeeps ==
  ASSUME AInv, NEW t \in Threads, FinishReusableSessionIfNeeded(t)
  PROVE  AInv' /\ Step
<1>1. InCall(t, "finish") /\ "finish" \in NamesOf(t)
  BY DEF FinishReusableSessionIfNeeded, NamesOf
<1>2. Ready(t) /\ Tail(calls[t]) \in Seq(Calls) /\ Allowed(t, Tail(calls[t]))
      /\ NoTell(Tail(calls[t]))
  BY <1>1, ReadyFacts, RestFacts, InCallFacts DEF AInv
<1>3. FateKept
  BY DEF FinishReusableSessionIfNeeded, FateKept, Active
<1>4. queue' \in Seq(Queued)
  <2> DEFINE pad == [chunk |-> NoAudio, last |-> TRUE]
  <2>1. pad \in Queued
    BY DEF Queued, Chunks, NoAudio, Ids
  <2>2. queue' = queue \/ queue' = Append(queue, pad)
    BY DEF FinishReusableSessionIfNeeded
  <2> HIDE DEF pad
  <2> QED
    BY <2>1, <2>2, QueueAppend DEF AInv, StateOK
<1>5. StateOK'
  BY <1>4 DEF AInv, StateOK, FinishReusableSessionIfNeeded
<1>6. NetOK' /\ UNCHANGED <<worker, spoken, told>>
  BY NetUnchanged DEF AInv, FinishReusableSessionIfNeeded
<1>7. CASE Return(t)
  BY <1>2, <1>3, <1>5, <1>6, <1>7, Plain DEF Return, AInv, ThreadsOK
<1>8. CASE /\ sessionState = "streaming"
           /\ Go(t, <<Send(Frame("finish", currentId))>> \o Tail(calls[t]))
  <2>1. currentId \in SessionIds
    BY <1>8 DEF AInv, StateOK, Ids
  <2> DEFINE send == Send(Frame("finish", currentId))
  <2>2. send \in Calls /\ send.call = "send"
    BY <2>1, FrameTypes, CallTypes
  <2> HIDE DEF send
  <2>3. <<send>> \in Seq(Calls) /\ Allowed(t, <<send>>) /\ NoTell(<<send>>)
    BY <2>2, OneAllowed DEF NamesOf
  <2> DEFINE rest == <<send>> \o Tail(calls[t])
  <2>4. rest \in Seq(Calls) /\ Allowed(t, rest) /\ NoTell(rest)
    BY <1>2, <2>3, ConcatAllowed
  <2>5. Go(t, rest)
    BY <1>8 DEF send
  <2> HIDE DEF rest
  <2> QED
    BY <1>2, <1>3, <1>5, <1>6, <2>4, <2>5, Plain DEF AInv, ThreadsOK
<1> QED
  BY <1>7, <1>8 DEF FinishReusableSessionIfNeeded

LEMMA EitherThreadKeeps ==
  ASSUME AInv, NEW t \in Threads, EitherThread(t)
  PROVE  AInv' /\ Step
BY FrameSentKeeps, FrameFailedKeeps, CallbackKeeps, FinishKeeps DEF EitherThread

-----------------------------------------------------------------------------
\* The worker thread.

LEMMA WorkerReady == "worker" \in Threads /\ Ready("worker")
BY DEF Threads, Ready

\* A list of at most one call for the worker, which is no callback.
LEMMA WorkerRest ==
  /\ <<>> \in Seq(Calls) /\ Allowed("worker", <<>>) /\ NoTell(<<>>)
  /\ \A call \in Calls :
       call.call \in {"send", "finish", "fail", "failed", "flush", "flushing", "stop"} =>
         <<call>> \in Seq(Calls) /\ Allowed("worker", <<call>>) /\ NoTell(<<call>>)
BY NoneAllowed, OneAllowed DEF NamesOf

LEMMA WorkerPlain ==
  ASSUME AInv, NEW rest, Go("worker", rest),
         \/ rest = <<>>
         \/ \E call \in Calls :
              /\ rest = <<call>>
              /\ call.call \in {"send", "finish", "fail", "failed", "flush", "flushing", "stop"},
         FateKept, UNCHANGED <<told, spoken>>, StateOK', NetOK',
         worker' \in {worker, "opening", "loop", "receive", "exited"}
  PROVE  AInv' /\ Step
<1>1. rest \in Seq(Calls) /\ Allowed("worker", rest) /\ NoTell(rest)
  BY WorkerRest
<1>2. spoken' \in [recording : Ids, count : Nat, last : BOOLEAN]
  BY DEF AInv, ThreadsOK
<1> QED
  BY <1>1, <1>2, WorkerReady, Plain

LEMMA WorkerFlagKeeps ==
  ASSUME AInv, FailReusableSession \/ StopReceiving
  PROVE  AInv' /\ Step
<1>1. /\ UNCHANGED <<connectionState, websocket, sessionVars, worker, spoken, netVars, fate, told>>
      /\ cancelled' = TRUE
  BY DEF FailReusableSession, StopReceiving
<1>2. StateOK' /\ NetOK' /\ FateKept
  BY <1>1, NetUnchanged DEF AInv, StateOK, sessionVars, FateKept, Active
<1>3. CASE FailReusableSession
  <2>1. FailUnless(cancelled) \in Calls /\ FailUnless(cancelled).call = "failed"
    BY CallTypes DEF AInv, StateOK
  <2> QED
    BY <1>1, <1>2, <1>3, <2>1, WorkerPlain DEF FailReusableSession
<1>4. CASE StopReceiving
  <2>1. InCall("worker", "stop") /\ "stop" \in NamesOf("worker")
    BY <1>4 DEF StopReceiving, NamesOf
  <2>2. LET rest == Tail(calls["worker"])
        IN  rest \in Seq(Calls) /\ Allowed("worker", rest) /\ NoTell(rest)
    BY <2>1, WorkerReady, RestFacts, InCallFacts DEF AInv
  <2> QED
    BY <1>1, <1>2, <1>4, <2>2, WorkerReady, Plain DEF StopReceiving, Return, AInv, ThreadsOK
<1> QED
  BY <1>3, <1>4

LEMMA FlushingFacts ==
  ASSUME NEW s \in Ids, NEW chunks \in Seq(Queued)
  PROVE  LET rest == Flushing(s, chunks)
         IN  rest \in Seq(Calls) /\ Allowed("worker", rest) /\ NoTell(rest)
<1> DEFINE call == [call |-> "flushing", session |-> s, chunks |-> chunks]
<1>1. chunks # <<>> => call \in Calls /\ call.call = "flushing"
  BY DEF Calls
<1>2. \/ Flushing(s, chunks) = <<>>
      \/ chunks # <<>> /\ Flushing(s, chunks) = <<call>>
  BY DEF Flushing
<1> HIDE DEF call
<1> QED
  BY <1>1, <1>2, WorkerRest

LEMMA FlushKeeps ==
  ASSUME AInv, FlushQueuedAudioChunks
  PROVE  AInv' /\ Step
<1>1. Flushing(currentId, queue) \in Seq(Calls) /\ Allowed("worker", Flushing(currentId, queue))
      /\ NoTell(Flushing(currentId, queue))
  BY FlushingFacts DEF AInv, StateOK
<1>2. StateOK' /\ NetOK' /\ FateKept
  BY QueueNone, NetUnchanged DEF AInv, StateOK, FateKept, Active, FlushQueuedAudioChunks
<1> QED
  BY <1>1, <1>2, WorkerReady, Plain DEF FlushQueuedAudioChunks, AInv, ThreadsOK

LEMMA FlushChunkKeeps ==
  ASSUME AInv, FlushChunk
  PROVE  AInv' /\ Step
<1> DEFINE call == Head(calls["worker"])
           first == Head(call.chunks)
           send == Send(Task(call.session, first.chunk))
           after == FinishAfter(first.last)
           more == Flushing(call.session, Tail(call.chunks))
<1>1. call \in Calls /\ call.call = "flushing"
  BY WorkerReady, InCallFacts DEF FlushChunk, AInv
<1>2. call.session \in Ids /\ call.chunks \in Seq(Queued) /\ call.chunks # <<>>
  BY <1>1, FlushingType
<1>3. first \in Queued /\ Tail(call.chunks) \in Seq(Queued)
  BY <1>2, QueueTail
<1>4. Go("worker", <<send>> \o after \o more)
      /\ UNCHANGED <<stateVars, worker, spoken, netVars, fate, told>>
  BY DEF FlushChunk
<1>5. send \in Calls /\ send.call = "send"
  <2>1. first.chunk \in Chunks
    BY <1>3 DEF Queued
  <2> QED
    BY <1>2, <2>1, FrameTypes, CallTypes
<1>6. after \in Seq(Calls) /\ Allowed("worker", after) /\ NoTell(after)
  <2>1. Call("finish") \in Calls /\ Call("finish").call = "finish"
    BY CallTypes
  <2> QED
    BY <2>1, WorkerRest DEF FinishAfter
<1>7. more \in Seq(Calls) /\ Allowed("worker", more) /\ NoTell(more)
  BY <1>2, <1>3, FlushingFacts
<1> HIDE DEF send, after, more
<1>8. <<send>> \in Seq(Calls) /\ Allowed("worker", <<send>>) /\ NoTell(<<send>>)
  BY <1>5, WorkerRest
<1> DEFINE sending == <<send>> \o after
           rest == sending \o more
<1>9. sending \in Seq(Calls) /\ Allowed("worker", sending) /\ NoTell(sending)
  BY <1>6, <1>8, ConcatAllowed
<1> HIDE DEF sending
<1>10. rest \in Seq(Calls) /\ Allowed("worker", rest) /\ NoTell(rest)
  BY <1>7, <1>9, ConcatAllowed
<1>11. Go("worker", rest)
  BY <1>4 DEF sending
<1> HIDE DEF rest
<1>12. StateOK' /\ NetOK' /\ FateKept
  BY <1>4, StateUnchanged, NetUnchanged DEF AInv, FateKept, stateVars, sessionVars, Active
<1> QED
  BY <1>4, <1>10, <1>11, <1>12, WorkerReady, Plain DEF AInv, ThreadsOK

LEMMA OpenKeeps ==
  ASSUME AInv, OpenConnection
  PROVE  AInv' /\ Step
<1>1. FateKept /\ UNCHANGED <<spoken, told>> /\ worker' = "loop"
  BY DEF OpenConnection, FateKept, sessionVars, Active
<1>2. CASE /\ link' = "open" /\ websocket' = TRUE /\ connectionState' = "connecting"
           /\ Go("worker", <<Send(Frame("connect", NoId))>>)
           /\ UNCHANGED faults
  <2>1. StateOK' /\ NetOK'
    BY <1>2 DEF OpenConnection, AInv, StateOK, NetOK, sessionVars
  <2>2. Send(Frame("connect", NoId)) \in Calls /\ Send(Frame("connect", NoId)).call = "send"
    BY FrameTypes, CallTypes
  <2> QED
    BY <1>1, <1>2, <2>1, <2>2, WorkerPlain
<1>3. CASE /\ faults < MaxFaults
           /\ faults' = faults + 1
           /\ Go("worker", <<Call("fail")>>)
           /\ UNCHANGED <<link, websocket, connectionState>>
  <2>1. faults' \in 0..MaxFaults
    BY <1>3, Numbers DEF AInv, NetOK
  <2>2. StateOK' /\ NetOK'
    BY <1>3, <2>1 DEF OpenConnection, AInv, StateOK, NetOK, sessionVars
  <2>3. Call("fail") \in Calls /\ Call("fail").call = "fail"
    BY CallTypes
  <2> QED
    BY <1>1, <1>3, <2>2, <2>3, WorkerPlain
<1> QED
  BY <1>2, <1>3 DEF OpenConnection

LEMMA LoopKeeps ==
  ASSUME AInv, CheckCancelled \/ ConnectionLost
  PROVE  AInv' /\ Step
<1>1. FateKept /\ UNCHANGED <<spoken, told>> /\ worker' \in {"exited", "receive", "loop"}
  BY DEF CheckCancelled, ConnectionLost, FateKept, stateVars, sessionVars, Active
<1>2. CASE CheckCancelled
  <2>1. StateOK' /\ NetOK'
    BY <1>2, QueueNone DEF CheckCancelled, AInv, StateOK, NetOK, sessionVars, Disconnect
  <2>2. Go("worker", <<>>)
    BY <1>2, StaysFacts, WorkerReady DEF AInv, CheckCancelled, WorkerIn
  <2> QED
    BY <1>1, <2>1, <2>2, WorkerPlain
<1>3. CASE ConnectionLost
  <2>1. StateOK' /\ NetOK'
    BY <1>3, StateUnchanged, NetUnchanged DEF AInv, ConnectionLost
  <2>2. Call("fail") \in Calls /\ Call("fail").call = "fail"
    BY CallTypes
  <2>3. Go("worker", <<>>) \/ Go("worker", <<Call("fail")>>)
    BY <1>3 DEF ConnectionLost
  <2> QED
    BY <1>1, <2>1, <2>2, <2>3, WorkerPlain
<1> QED
  BY <1>2, <1>3

\* What the worker receives.
LEMMA ReceivesFacts ==
  ASSUME AInv, NEW name, Receives(name)
  PROVE  /\ Head(toClient) \in Events /\ Head(toClient).name = name
         /\ Head(toClient).session \in Ids
         /\ name \in {"started", "canceled", "finished"} => Head(toClient).session \in SessionIds
         /\ NetOK' /\ worker' = "loop" /\ calls["worker"] = <<>>
         /\ UNCHANGED <<told, spoken>>
<1>1. Head(toClient) \in Events /\ Tail(toClient) \in Seq(Events)
  BY QueueTail DEF AInv, NetOK, Receives
<1>2. NetOK'
  BY <1>1 DEF AInv, NetOK, Receives
<1> QED
  BY <1>1, <1>2, EventTypes DEF Receives, WorkerIn

\* An event about the current session finds it active.
LEMMA CurrentFacts ==
  ASSUME AInv, Current, Head(toClient).session \in SessionIds
  PROVE  Active /\ currentId \in SessionIds /\ Head(toClient).session = currentId
BY IdFacts DEF AInv, StateOK, Current, Active

LEMMA ConnectionEventKeeps ==
  ASSUME AInv, ConnectionStarted \/ ServiceError \/ ConnectionFinished
  PROVE  AInv' /\ Step
<1>1. CASE ConnectionStarted
  <2>1. NetOK' /\ worker' = "loop" /\ UNCHANGED <<told, spoken>>
    BY <1>1, ReceivesFacts DEF ConnectionStarted
  <2>2. StateOK' /\ FateKept
    BY <1>1 DEF ConnectionStarted, AInv, StateOK, sessionVars, FateKept, Active
  <2>3. CASE sessionState = "starting"
    <3>1. currentId \in SessionIds
      BY <2>3 DEF AInv, StateOK, Ids
    <3>2. Send(Frame("start", currentId)) \in Calls /\ Send(Frame("start", currentId)).call = "send"
      BY <3>1, FrameTypes, CallTypes
    <3>3. Go("worker", <<Send(Frame("start", currentId))>>)
      BY <1>1, <2>3 DEF ConnectionStarted
    <3> QED
      BY <2>1, <2>2, <3>2, <3>3, WorkerPlain
  <2>4. CASE sessionState # "starting"
    <3>1. Go("worker", <<>>)
      BY <1>1, <2>4 DEF ConnectionStarted
    <3> QED
      BY <2>1, <2>2, <3>1, WorkerPlain
  <2> QED
    BY <2>3, <2>4
<1>2. CASE ServiceError
  <2>1. NetOK' /\ worker' = "loop" /\ UNCHANGED <<told, spoken>>
    BY <1>2, ReceivesFacts DEF ServiceError
  <2>2. StateOK' /\ FateKept
    BY <1>2, StateUnchanged DEF ServiceError, AInv, FateKept, stateVars, sessionVars, Active
  <2>3. Call("fail") \in Calls /\ Call("fail").call = "fail"
    BY CallTypes
  <2> QED
    BY <1>2, <2>1, <2>2, <2>3, WorkerPlain DEF ServiceError
<1>3. CASE ConnectionFinished
  <2>1. NetOK' /\ worker' = "loop" /\ UNCHANGED <<told, spoken>>
    BY <1>3, ReceivesFacts DEF ConnectionFinished
  <2>2. StateOK' /\ FateKept
    BY <1>3 DEF ConnectionFinished, Disconnect, AInv, StateOK, FateKept, sessionVars, Active
  <2>3. Call("stop") \in Calls /\ Call("stop").call = "stop"
    BY CallTypes
  <2> QED
    BY <1>3, <2>1, <2>2, <2>3, WorkerPlain DEF ConnectionFinished
<1> QED
  BY <1>1, <1>2, <1>3

LEMMA SessionStartedKeeps ==
  ASSUME AInv, SessionStarted
  PROVE  AInv' /\ Step
<1>1. /\ NetOK' /\ worker' = "loop" /\ UNCHANGED <<told, spoken>>
      /\ Head(toClient).session \in SessionIds /\ calls["worker"] = <<>>
  BY ReceivesFacts DEF SessionStarted
<1>2. CASE Current
  <2>1. Active /\ currentId \in SessionIds
    BY <1>1, <1>2, CurrentFacts
  <2>2. StateOK' /\ FateKept
    BY <1>2, <2>1, IdFacts DEF SessionStarted, AInv, StateOK, FateKept, Active
  <2>3. Call("flush") \in Calls /\ Call("flush").call = "flush"
    BY CallTypes
  <2>4. Go("worker", <<Call("flush")>>)
    BY <1>2 DEF SessionStarted
  <2> QED
    BY <1>1, <2>2, <2>3, <2>4, WorkerPlain
<1>3. CASE ~Current
  <2>1. StateOK' /\ FateKept
    BY <1>3 DEF SessionStarted, AInv, StateOK, FateKept, Active
  <2>2. Go("worker", <<>>)
    BY <1>1, <1>3, StaysFacts, WorkerReady DEF SessionStarted, AInv
  <2> QED
    BY <1>1, <2>1, <2>2, WorkerPlain
<1> QED
  BY <1>2, <1>3

LEMMA AsrResponseKeeps ==
  ASSUME AInv, AsrResponse
  PROVE  AInv' /\ Step
<1>1. /\ NetOK' /\ worker' = "loop" /\ UNCHANGED <<told, spoken>> /\ calls["worker"] = <<>>
  BY ReceivesFacts DEF AsrResponse
<1>2. StateOK' /\ FateKept
  BY DEF AsrResponse, Current, AInv, StateOK, FateKept, Active
<1>3. Go("worker", <<>>)
  BY <1>1, StaysFacts, WorkerReady DEF AsrResponse, AInv
<1> QED
  BY <1>1, <1>2, <1>3, WorkerPlain

LEMMA SessionFinishedKeeps ==
  ASSUME AInv, SessionFinished
  PROVE  AInv' /\ Step
<1>1. /\ NetOK' /\ worker' = "loop" /\ UNCHANGED <<told, spoken>>
      /\ Head(toClient).session \in SessionIds /\ calls["worker"] = <<>>
  BY ReceivesFacts DEF SessionFinished
<1>2. CASE Current
  <2>1. Active /\ currentId \in SessionIds
    BY <1>1, <1>2, CurrentFacts
  <2>2. "final" \in Ends
    BY FatesFacts DEF Ends
  <2>3. StateOK' /\ FateEnded("final")
    BY <1>2, ClearedFacts DEF SessionFinished, SessionOver, AInv, StateOK, FateEnded
  <2>4. fate'[currentId] = "final"
    BY <1>1, <2>1, <2>2, <2>3, EndedFacts DEF AInv
  <2> DEFINE text == IF Head(toClient).empty THEN transcript ELSE currentId
  <2>5. text \in {currentId, NoId} /\ text \in Ids
    BY <2>1 DEF AInv, StateOK, Ids
  <2>6. Go("worker", <<Tell(currentId, text)>>)
    BY <1>2 DEF SessionFinished
  <2> HIDE DEF text
  <2> DEFINE rest == <<Tell(currentId, text)>>
  <2>7. Tell(currentId, text) \in Calls /\ Tell(currentId, text).call = "tell"
    BY <2>1, <2>5, CallTypes
  <2>8. rest \in Seq(Calls) /\ Allowed("worker", rest)
    BY <2>7, OneAllowed DEF NamesOf
  <2>9. \E x \in {currentId, NoId} : rest = <<Tell(currentId, x)>>
    BY <2>5
  <2> HIDE DEF rest
  <2>10. Go("worker", rest)
    BY <2>6 DEF rest
  <2>11. ShapeInv' /\ FateInv' /\ TellInv' /\ Step /\ calls' \in [Threads -> Seq(Calls)]
    BY <1>1, <2>1, <2>2, <2>3, <2>4, <2>8, <2>9, <2>10, WorkerReady, Ordinary
  <2> QED
    BY <1>1, <2>3, <2>11, ThreadsKept DEF AInv
<1>3. CASE ~Current
  <2>1. StateOK' /\ FateKept
    BY <1>3 DEF SessionFinished, AInv, StateOK, FateKept, sessionVars, Active
  <2>2. Go("worker", <<>>)
    BY <1>1, <1>3, StaysFacts, WorkerReady DEF SessionFinished, AInv
  <2> QED
    BY <1>1, <2>1, <2>2, WorkerPlain
<1> QED
  BY <1>2, <1>3

\* A session ends with no callback.
LEMMA QuietEndKeeps ==
  ASSUME AInv, NEW t \in Threads, calls[t] = <<>>, UNCHANGED <<calls, told, connectionState,
         websocket, cancelled>>, ClearSession, NEW end \in Ends, fate' = Ended(end), NetOK',
         spoken' \in [recording : Ids, count : Nat, last : BOOLEAN],
         worker' \in {worker, "opening", "loop", "receive", "exited"}
  PROVE  AInv' /\ Step
<1>1. Go(t, <<>>)
  BY StaysFacts DEF AInv
<1>2. Ready(t)
  BY ReadyFacts DEF AInv
<1>3. StateOK' /\ FateEnded(end)
  BY ClearedFacts DEF AInv, StateOK, FateEnded
<1>4. ShapeInv' /\ FateInv' /\ TellInv' /\ Step /\ calls' \in [Threads -> Seq(Calls)]
  BY <1>1, <1>2, <1>3, NoneAllowed, Ordinary
<1>5. ThreadsOK'
  BY <1>4 DEF AInv, ThreadsOK
<1> QED
  BY <1>3, <1>4, <1>5 DEF AInv

LEMMA SessionCanceledKeeps ==
  ASSUME AInv, SessionCanceled
  PROVE  AInv' /\ Step
<1>1. /\ NetOK' /\ worker' = "loop" /\ UNCHANGED <<told, spoken>> /\ calls["worker"] = <<>>
  BY ReceivesFacts DEF SessionCanceled
<1>2. CASE Current
  <2>1. "silent" \in Ends
    BY FatesFacts DEF Ends
  <2>2. /\ UNCHANGED <<calls, told, connectionState, websocket, cancelled>>
        /\ ClearSession /\ fate' = Ended("silent")
    BY <1>1, <1>2 DEF SessionCanceled
  <2>3. spoken' \in [recording : Ids, count : Nat, last : BOOLEAN]
    BY <1>1 DEF AInv, ThreadsOK
  <2> QED
    BY <1>1, <2>1, <2>2, <2>3, WorkerReady, QuietEndKeeps
<1>3. CASE ~Current
  <2>1. StateOK' /\ FateKept
    BY <1>3 DEF SessionCanceled, AInv, StateOK, FateKept, sessionVars, Active
  <2>2. Go("worker", <<>>)
    BY <1>1, <1>3, StaysFacts, WorkerReady DEF SessionCanceled, AInv
  <2> QED
    BY <1>1, <2>1, <2>2, WorkerPlain
<1> QED
  BY <1>2, <1>3

LEMMA WorkerKeeps ==
  ASSUME AInv, WorkerStep
  PROVE  AInv' /\ Step
BY WorkerReady, EitherThreadKeeps, WorkerFlagKeeps, FailLockedKeeps, FlushKeeps, FlushChunkKeeps,
   OpenKeeps, LoopKeeps, ConnectionEventKeeps, SessionStartedKeeps, AsrResponseKeeps,
   SessionFinishedKeeps, SessionCanceledKeeps DEF WorkerStep

-----------------------------------------------------------------------------
\* The UI thread.

LEMMA UiFacts == "ui" \in Threads /\ "worker" \in Threads /\ Threads = {"ui", "worker"}
BY DEF Threads

LEMMA UiIdle ==
  ASSUME AInv, calls["ui"] = <<>>
  PROVE  /\ Ready("ui") /\ calls["ui"] \notin Restarting
         /\ \A s \in SessionIds : fate[s] = "active" => s = currentId
<1>1. calls["ui"] \notin Restarting
  BY RestartCalls
<1>2. <<Call("restart")>> \in Restarting
  BY DEF Restarting
<1> QED
  BY <1>1, <1>2 DEF Ready, AInv, FateInv

\* What the UI thread is about to do, when it makes a connection anew.
LEMMA UiRestarting ==
  ASSUME AInv, NEW name \in {"shutdown", "close", "restart"}, InCall("ui", name)
  PROVE  /\ calls["ui"] \in Restarting
         /\ name = "shutdown" => calls["ui"] = <<Call("shutdown"), Call("restart")>>
         /\ name = "close" => calls["ui"] = <<Call("close"), Call("restart")>>
         /\ name = "restart" => calls["ui"] = <<Call("restart")>>
         /\ name # "restart" => calls["ui"] # <<Call("restart")>>
<1>1. Head(calls["ui"]).call = name /\ Head(calls["ui"]) = calls["ui"][1]
      /\ 1 \in 1..Len(calls["ui"])
  BY UiFacts, InCallFacts DEF AInv
<1>2. ~Allowed("ui", calls["ui"])
  BY <1>1 DEF Allowed, NamesOf
<1>3. calls["ui"] \in Restarting
  BY <1>2 DEF AInv, ShapeInv
<1>4. Head(<<Call("restart")>>).call = "restart"
  BY CallTypes
<1> QED
  BY <1>1, <1>3, <1>4, RestartCalls

\* The UI thread goes on without a callback: those of the worker stay due.
LEMMA UiTells ==
  ASSUME AInv, NEW rest \in Seq(Calls), Go("ui", rest), NoTell(rest), UNCHANGED told,
         \A s \in SessionIds : fate[s] \in {"final", "error"} => fate'[s] = fate[s]
  PROVE  TellInv'
<1>1. calls'["ui"] = rest /\ calls'["worker"] = calls["worker"]
  BY UiFacts, GoFacts DEF AInv
<1>2. \A i \in 1..Len(calls'["ui"]) : calls'["ui"][i].call # "tell"
  BY <1>1 DEF NoTell
<1>3. ASSUME NEW i \in 1..Len(calls["worker"]), calls["worker"][i].call = "tell"
      PROVE  /\ i = 1 /\ Len(calls["worker"]) = 1
             /\ fate'[calls["worker"][i].session] \in {"final", "error"}
             /\ calls["worker"][i].session \notin told
             /\ calls["worker"][i].text \in {calls["worker"][i].session, NoId}
  <2>1. calls["worker"][i] \in Calls
    BY <1>3, UiFacts DEF AInv, ThreadsOK
  <2>2. calls["worker"][i].session \in SessionIds
    BY <1>3, <2>1, TellType
  <2> QED
    BY <1>3, <2>2, UiFacts DEF AInv, TellInv
<1> QED
  BY <1>1, <1>2, <1>3, UiFacts DEF TellInv

\* Another session begins.
LEMMA BeginKeeps ==
  ASSUME AInv, NEW id \in SessionIds, fate[id] = "unused",
         \A s \in SessionIds : fate[s] # "active",
         fate' = [fate EXCEPT ![id] = "active"], currentId' = id, UNCHANGED told,
         NEW rest \in Seq(Calls), Go("ui", rest), NoTell(rest),
         rest \in Restarting \/ Allowed("ui", rest), rest # <<Call("restart")>>,
         rest \in Restarting => \E s \in Unused : s # id
  PROVE  ShapeInv' /\ FateInv' /\ TellInv' /\ Step /\ calls' \in [Threads -> Seq(Calls)]
<1>1. /\ calls' \in [Threads -> Seq(Calls)] /\ calls'["ui"] = rest
      /\ calls'["worker"] = calls["worker"]
  BY UiFacts, GoFacts DEF AInv
<1>2. Promise!Begin(id)
  BY PromiseIds DEF Promise!Begin
<1>3. Step
  BY <1>2, PromiseIds DEF Step, Promise!OutcomesNext
<1>4. ShapeInv'
  BY <1>1 DEF AInv, ShapeInv, Allowed
<1>5. TellInv'
  BY UiTells DEF AInv, FateInv
<1>6. FateInv'
  <2>1. "active" \in Fates
    BY FatesFacts
  <2>2. rest \in Restarting => Unused' # {}
    BY DEF Unused, AInv, FateInv
  <2>3. \A s \in told : fate'[s] = fate[s]
    BY DEF AInv, FateInv
  <2>4. fate' \in [SessionIds -> Fates] /\ fate'[id] = "active"
        /\ \A s \in SessionIds : fate'[s] = "active" => s = id
    BY <2>1 DEF AInv, FateInv
  <2> QED
    BY <1>1, <2>2, <2>3, <2>4 DEF FateInv, AInv
<1> QED
  BY <1>1, <1>3, <1>4, <1>5, <1>6

\* One step on towards another connection.
LEMMA RestartKeeps ==
  ASSUME AInv, calls["ui"] \in Restarting, calls["ui"] # <<Call("restart")>>,
         NEW rest \in Restarting, Go("ui", rest), UNCHANGED <<fate, told>>,
         \/ FateKept /\ rest # <<Call("restart")>>
         \/ ~Active' /\ rest = <<Call("restart")>>
  PROVE  ShapeInv' /\ FateInv' /\ TellInv' /\ Step /\ calls' \in [Threads -> Seq(Calls)]
<1>1. rest \in Seq(Calls) /\ NoTell(rest)
  BY RestartCalls
<1>2. /\ calls' \in [Threads -> Seq(Calls)] /\ calls'["ui"] = rest
      /\ calls'["worker"] = calls["worker"]
  BY <1>1, UiFacts, GoFacts DEF AInv
<1>3. ShapeInv'
  BY <1>2 DEF AInv, ShapeInv, Allowed
<1>4. TellInv'
  BY <1>1, UiTells
<1>5. FateInv'
  BY <1>2 DEF AInv, FateInv, FateKept, Unused
<1>6. Step
  BY DEF Step, Promise!outcomeVars
<1> QED
  BY <1>2, <1>3, <1>4, <1>5, <1>6

LEMMA NextIdFacts ==
  ASSUME Unused # {}
  PROVE  NextId \in Unused /\ NextId \in SessionIds /\ fate[NextId] = "unused"
BY DEF NextId, Unused

LEMMA StartKeeps ==
  ASSUME AInv, Start
  PROVE  AInv' /\ Step
<1>1. NextId \in SessionIds /\ fate[NextId] = "unused" /\ \E s \in Unused : s # NextId
  BY NextIdFacts DEF Start
<1>2. \A s \in SessionIds : fate[s] # "active"
  BY UiIdle, IdFacts DEF Start, AInv, StateOK
<1>3. /\ fate' = [fate EXCEPT ![NextId] = "active"] /\ currentId' = NextId
      /\ UNCHANGED <<told, worker, netVars>>
  BY DEF Start
<1>4. StateOK'
  BY <1>1, IdFacts, QueueNone DEF Start, AInv, StateOK, Ids, QueueAtStart
<1>5. spoken' \in [recording : Ids, count : Nat, last : BOOLEAN]
  BY <1>1 DEF Start, Ids
<1> DEFINE send == Send(Frame("start", NextId))
           anew == <<Call("shutdown"), Call("restart")>>
<1>6. \E rest \in {<<send>>, <<>>, anew} : Go("ui", rest)
  BY DEF Start
<1>7. PICK rest \in {<<send>>, <<>>, anew} : Go("ui", rest)
  BY <1>6
<1>8. /\ rest \in Seq(Calls) /\ NoTell(rest) /\ rest # <<Call("restart")>>
      /\ rest \in Restarting \/ Allowed("ui", rest)
  <2>1. send \in Calls /\ send.call = "send" /\ Call("restart").call = "restart"
    BY <1>1, FrameTypes, CallTypes
  <2>2. <<send>> \in Seq(Calls) /\ Allowed("ui", <<send>>) /\ NoTell(<<send>>)
    BY <2>1, OneAllowed DEF NamesOf
  <2>3. anew \in Restarting /\ anew # <<Call("restart")>>
    BY DEF Restarting
  <2>4. anew \in Seq(Calls) /\ NoTell(anew)
    BY <2>3, RestartCalls
  <2>5. <<>> \in Seq(Calls) /\ Allowed("ui", <<>>) /\ NoTell(<<>>)
    BY NoneAllowed
  <2>6. <<send>> # <<Call("restart")>> /\ <<>> # <<Call("restart")>>
    BY <2>1
  <2> HIDE DEF send, anew
  <2> QED
    BY <1>7, <2>2, <2>3, <2>4, <2>5, <2>6
<1>9. ShapeInv' /\ FateInv' /\ TellInv' /\ Step /\ calls' \in [Threads -> Seq(Calls)]
  <2> HIDE DEF send, anew
  <2> QED
    BY <1>1, <1>2, <1>3, <1>7, <1>8, BeginKeeps
<1>10. NetOK' /\ ThreadsOK'
  BY <1>3, <1>5, <1>9, NetUnchanged DEF AInv, ThreadsOK
<1> QED
  BY <1>4, <1>9, <1>10 DEF AInv

LEMMA CallPairs ==
  \A a, b, c \in Calls : /\ Tail(<<a, b>>) = <<b>> /\ <<c>> \o <<b>> = <<c, b>>
                        /\ <<c, b>> # <<b>>
<1>1. \A a, b : Tail(<<a, b>>) = <<b>>
  OBVIOUS
<1>2. ASSUME NEW b \in Calls, NEW c \in Calls
      PROVE  <<c>> \o <<b>> = <<c, b>>
  <2>1. <<c>> \in Seq(Calls) /\ <<b>> \in Seq(Calls) /\ <<c, b>> \in Seq(Calls)
    OBVIOUS
  <2>2. /\ <<c>> \o <<b>> \in Seq(Calls) /\ Len(<<c>> \o <<b>>) = 2
        /\ (<<c>> \o <<b>>)[1] = c /\ (<<c>> \o <<b>>)[2] = b
    OBVIOUS
  <2>3. \A i \in 1..2 : i = 1 \/ i = 2
    OBVIOUS
  <2>4. Len(<<c, b>>) = 2 /\ <<c, b>>[1] = c /\ <<c, b>>[2] = b
    OBVIOUS
  <2>5. \A i \in 1..Len(<<c>> \o <<b>>) : (<<c>> \o <<b>>)[i] = <<c, b>>[i]
    BY <2>2, <2>3, <2>4
  <2> QED
    BY <2>1, <2>2, <2>4, <2>5, SeqEqual
<1>3. \A b, c : Len(<<c, b>>) = 2 /\ Len(<<b>>) = 1
  OBVIOUS
<1> QED
  BY <1>1, <1>2, <1>3

LEMMA ShutdownKeeps ==
  ASSUME AInv, ShutdownReusableConnection \/ CloseConnection
  PROVE  AInv' /\ Step
<1> DEFINE S == Call("shutdown")
           C == Call("close")
           R == Call("restart")
<1>1. S \in Calls /\ C \in Calls /\ R \in Calls
  BY CallTypes
<1>2. <<C, R>> \in Restarting /\ <<R>> \in Restarting
  BY DEF Restarting
<1>3. CASE ShutdownReusableConnection
  <2>1. calls["ui"] \in Restarting /\ calls["ui"] = <<S, R>> /\ calls["ui"] # <<R>>
    BY <1>3, UiRestarting DEF ShutdownReusableConnection
  <2>2. Go("ui", <<C>> \o Tail(calls["ui"]))
    BY <1>3 DEF ShutdownReusableConnection
  <2>3. StateOK' /\ NetOK' /\ FateKept /\ UNCHANGED <<fate, told, worker, spoken>>
    BY <1>3, NetUnchanged DEF ShutdownReusableConnection, AInv, StateOK, sessionVars, FateKept,
       Active
  <2> HIDE DEF S, C, R
  <2>4. <<C>> \o Tail(calls["ui"]) = <<C, R>> /\ <<C, R>> # <<R>>
    BY <1>1, <2>1, CallPairs
  <2>5. Go("ui", <<C, R>>)
    BY <2>2, <2>4
  <2>6. ShapeInv' /\ FateInv' /\ TellInv' /\ Step /\ calls' \in [Threads -> Seq(Calls)]
    BY <1>2, <2>1, <2>3, <2>4, <2>5, RestartKeeps DEF R
  <2> QED
    BY <2>3, <2>6 DEF AInv, ThreadsOK
<1>4. CASE CloseConnection
  <2>1. calls["ui"] \in Restarting /\ calls["ui"] = <<C, R>> /\ calls["ui"] # <<R>>
    BY <1>4, UiRestarting DEF CloseConnection
  <2>2. Go("ui", Tail(calls["ui"]))
    BY <1>4 DEF CloseConnection, Return
  <2>3. StateOK' /\ ~Active' /\ UNCHANGED <<fate, told, worker, spoken>>
    BY <1>4, ClearedFacts DEF CloseConnection, AInv, StateOK
  <2>4. Frame("disconnect", NoId) \in Frames
    BY FrameTypes
  <2>5. toServer' \in Seq(Frames)
    BY <1>4, <2>4, SentFacts DEF CloseConnection, AInv, NetOK
  <2>6. NetOK'
    BY <1>4, <2>5 DEF CloseConnection, AInv, NetOK
  <2> HIDE DEF S, C, R
  <2>7. Tail(calls["ui"]) = <<R>>
    BY <1>1, <2>1, CallPairs
  <2>8. Go("ui", <<R>>)
    BY <2>2, <2>7
  <2>9. ShapeInv' /\ FateInv' /\ TellInv' /\ Step /\ calls' \in [Threads -> Seq(Calls)]
    BY <1>2, <2>1, <2>3, <2>8, RestartKeeps DEF R
  <2> QED
    BY <2>3, <2>6, <2>9 DEF AInv, ThreadsOK
<1> QED
  BY <1>3, <1>4

\* The session of the old connection goes on in the new one, or another begins.
LEMMA StartWorkerKeeps ==
  ASSUME AInv, StartWorker
  PROVE  AInv' /\ Step
<1> DEFINE open == {s \in SessionIds : fate[s] = "active"}
           id == IF open # {} THEN CHOOSE s \in open : TRUE ELSE NextId
<1>1. calls["ui"] = <<Call("restart")>> /\ calls["ui"] \in Restarting
  BY UiRestarting DEF StartWorker
<1>2. ~Active /\ Unused # {} /\ currentId = NoId /\ transcript = NoId
  BY <1>1 DEF AInv, FateInv, StateOK, Active
<1>3. /\ currentId' = id /\ fate' = [fate EXCEPT ![id] = "active"]
      /\ UNCHANGED <<told, spoken, faults, received>>
      /\ Go("ui", Tail(calls["ui"]))
  BY DEF StartWorker, Return
<1>4. Tail(calls["ui"]) = <<>>
  BY <1>1
<1>5. Go("ui", <<>>)
  BY <1>3, <1>4
<1>6. /\ <<>> \in Seq(Calls) /\ Allowed("ui", <<>>) /\ NoTell(<<>>)
      /\ <<>> \notin Restarting /\ <<>> # <<Call("restart")>>
  BY NoneAllowed, NotRestarting
<1>7. id \in SessionIds
  BY <1>2, NextIdFacts
<1>8. ShapeInv' /\ FateInv' /\ TellInv' /\ Step /\ calls' \in [Threads -> Seq(Calls)]
  <2>1. CASE open # {}
    <3>1. fate[id] = "active"
      BY <2>1
    <3> HIDE DEF id
    <3>2. fate' = fate
      BY <1>3, <1>7, <3>1 DEF AInv, FateInv
    <3>3. /\ calls' \in [Threads -> Seq(Calls)] /\ calls'["ui"] = <<>>
          /\ calls'["worker"] = calls["worker"]
      BY <1>5, <1>6, UiFacts, GoFacts DEF AInv
    <3>4. ShapeInv'
      BY <1>6, <3>3 DEF AInv, ShapeInv, Allowed
    <3>5. TellInv'
      BY <1>3, <1>5, <1>6, <3>2, UiTells
    <3>6. \A s \in SessionIds : fate[s] = "active" => s = id
      BY <1>7, <3>1 DEF AInv, FateInv
    <3>7. FateInv'
      BY <1>3, <1>6, <3>1, <3>2, <3>3, <3>6 DEF AInv, FateInv
    <3>8. Step
      BY <1>3, <3>2 DEF Step, Promise!outcomeVars
    <3> QED
      BY <3>3, <3>4, <3>5, <3>7, <3>8
  <2>2. CASE open = {}
    <3>1. fate[id] = "unused" /\ \A s \in SessionIds : fate[s] # "active"
      BY <1>2, <2>2, NextIdFacts
    <3> HIDE DEF id, open
    <3> QED
      BY <1>3, <1>5, <1>6, <1>7, <3>1, BeginKeeps
  <2> QED
    BY <2>1, <2>2
<1>9. StateOK'
  <2> HIDE DEF id
  <2> QED
    BY <1>2, <1>3, <1>7, IdFacts DEF StartWorker, AInv, StateOK, Ids
<1>10. NetOK' /\ ThreadsOK'
  BY <1>3, <1>8, QueueNone DEF StartWorker, AInv, NetOK, ThreadsOK
<1> QED
  BY <1>8, <1>9, <1>10 DEF AInv

LEMMA SendAudioKeeps ==
  ASSUME AInv, NEW last \in BOOLEAN, SendReusableAudio(last)
  PROVE  AInv' /\ Step
<1> DEFINE n == spoken.count + 1
           chunk == [of |-> spoken.recording, n |-> n]
           send == Send(Task(currentId, chunk))
           after == FinishAfter(last)
<1>1. spoken.recording \in Ids /\ spoken.count \in Nat
  BY DEF AInv, ThreadsOK
<1>2. n \in Nat /\ chunk \in Chunks
  <2>1. n \in Nat
    BY <1>1
  <2> QED
    BY <1>1, <2>1 DEF Chunks
<1>3. spoken' = [spoken EXCEPT !.count = n, !.last = spoken.last \/ last]
      /\ queue' = (IF sessionState \in {"starting", "idle"}
                   THEN Append(queue, [chunk |-> chunk, last |-> last]) ELSE queue)
      /\ Go("ui", IF sessionState # "streaming" THEN <<>> ELSE <<send>> \o after)
      /\ calls["ui"] = <<>>
      /\ UNCHANGED <<connectionState, websocket, cancelled, sessionState, currentId, transcript,
                     worker, netVars, fate, told>>
  BY DEF SendReusableAudio
<1> HIDE DEF n, chunk
<1>4. spoken' \in [recording : Ids, count : Nat, last : BOOLEAN]
  BY <1>2, <1>3 DEF AInv, ThreadsOK
<1>5. queue' \in Seq(Queued)
  <2> DEFINE element == [chunk |-> chunk, last |-> last]
  <2>1. element \in Queued
    BY <1>2 DEF Queued
  <2>2. queue' = queue \/ queue' = Append(queue, element)
    BY <1>3
  <2> HIDE DEF element
  <2> QED
    BY <2>1, <2>2, QueueAppend DEF AInv, StateOK
<1>6. StateOK' /\ NetOK' /\ FateKept /\ UNCHANGED told
  BY <1>3, <1>5, NetUnchanged DEF AInv, StateOK, FateKept, Active
<1>7. Ready("ui")
  BY <1>3, UiIdle
<1>8. CASE sessionState # "streaming"
  <2>1. Go("ui", <<>>)
    BY <1>3, <1>8
  <2> QED
    BY <1>3, <1>4, <1>6, <1>7, <2>1, UiFacts, NoneAllowed, Plain
<1>9. CASE sessionState = "streaming"
  <2>1. send \in Calls /\ send.call = "send"
    BY <1>2, FrameTypes, CallTypes DEF AInv, StateOK
  <2>2. after \in Seq(Calls) /\ Allowed("ui", after) /\ NoTell(after)
    <3>1. Call("finish") \in Calls /\ Call("finish").call = "finish"
      BY CallTypes
    <3> QED
      BY <3>1, OneAllowed, NoneAllowed DEF FinishAfter, NamesOf
  <2> HIDE DEF send, after
  <2>3. <<send>> \in Seq(Calls) /\ Allowed("ui", <<send>>) /\ NoTell(<<send>>)
    BY <2>1, OneAllowed DEF NamesOf
  <2> DEFINE rest == <<send>> \o after
  <2>4. rest \in Seq(Calls) /\ Allowed("ui", rest) /\ NoTell(rest)
    BY <2>2, <2>3, ConcatAllowed
  <2>5. Go("ui", rest)
    BY <1>3, <1>9
  <2> HIDE DEF rest
  <2> QED
    BY <1>3, <1>4, <1>6, <1>7, <2>4, <2>5, UiFacts, Plain
<1> QED
  BY <1>8, <1>9

LEMMA CancelKeeps ==
  ASSUME AInv, CancelReusableSession
  PROVE  AInv' /\ Step
<1>1. "cancelled" \in Ends
  BY FatesFacts DEF Ends
<1>2. spoken' \in [recording : Ids, count : Nat, last : BOOLEAN]
  BY DEF CancelReusableSession, Silence, Ids
<1>3. toServer' \in Seq(Frames)
  <2>1. CASE Active /\ websocket
    <3>1. currentId \in SessionIds
      BY <2>1 DEF AInv, StateOK, Active, Ids
    <3> QED
      BY <2>1, <3>1, FrameTypes, SentFacts DEF CancelReusableSession, AInv
  <2>2. CASE ~(Active /\ websocket)
    BY <2>2 DEF CancelReusableSession, AInv, NetOK
  <2> QED
    BY <2>1, <2>2
<1>4. NetOK'
  BY <1>3 DEF CancelReusableSession, AInv, NetOK
<1>5. /\ calls["ui"] = <<>> /\ ClearSession /\ fate' = Ended("cancelled")
      /\ UNCHANGED <<calls, told, connectionState, websocket, cancelled, worker>>
  BY DEF CancelReusableSession
<1> QED
  BY <1>1, <1>2, <1>4, <1>5, UiFacts, QuietEndKeeps

-----------------------------------------------------------------------------
\* The service and the network.

LEMMA NetStep ==
  ASSUME AInv, UNCHANGED <<stateVars, worker, calls, spoken, fate, told>>, NetOK'
  PROVE  AInv' /\ Step
<1>1. StateOK' /\ ThreadsOK'
  BY StateUnchanged DEF AInv, ThreadsOK
<1>2. ShapeInv' /\ TellInv'
  BY DEF AInv, ShapeInv, TellInv
<1>3. FateInv'
  BY DEF AInv, FateInv, Active, Unused, stateVars, sessionVars
<1>4. Step
  BY DEF Step, Promise!outcomeVars
<1> QED
  BY <1>1, <1>2, <1>3, <1>4 DEF AInv

LEMMA ServiceKeeps ==
  ASSUME AInv, Service
  PROVE  AInv' /\ Step
<1> DEFINE f == Head(toServer)
<1>1. f \in Frames /\ Tail(toServer) \in Seq(Frames)
  BY QueueTail DEF Service, AInv, NetOK
<1>2. /\ \E reply \in Replies(f) : toClient' = toClient \o reply
      /\ received' = (IF f.name = "task" /\ f.session # NoId /\ f.chunk # NoAudio
                      THEN [received EXCEPT ![f.session] = Append(@, f.chunk)] ELSE received)
      /\ toServer' = Tail(toServer)
      /\ UNCHANGED <<stateVars, worker, calls, spoken, link, faults, fate, told>>
  BY DEF Service
<1> HIDE DEF f
<1>3. Replies(f) \subseteq Seq(Events)
  <2>1. NoId \in Ids /\ f.session \in Ids
        /\ (f.name \in {"start", "finish", "cancel"} => f.session \in SessionIds)
        /\ f.name \in {"connect", "start", "task", "finish", "cancel", "disconnect"}
    BY <1>1 DEF Frames, Ids
  <2>2. \A e \in Events : <<e>> \in Seq(Events)
    BY QueueOne
  <2>3. <<>> \in Seq(Events)
    BY QueueNone
  <2>4. /\ Frame("connected", NoId) \in Events /\ Frame("disconnected", NoId) \in Events
        /\ Frame("response", f.session) \in Events
        /\ f.session \in SessionIds =>
             /\ Frame("started", f.session) \in Events /\ Frame("canceled", f.session) \in Events
             /\ \A e \in BOOLEAN :
                  [name |-> "finished", session |-> f.session, empty |-> e] \in Events
    BY <2>1, FrameTypes
  <2>5. CASE f.name = "finish"
    BY <2>1, <2>2, <2>4, <2>5 DEF Replies
  <2>6. CASE f.name # "finish"
    BY <2>1, <2>2, <2>3, <2>4, <2>6 DEF Replies
  <2> QED
    BY <2>5, <2>6
<1>4. toClient' \in Seq(Events)
  <2>1. PICK reply \in Seq(Events) : toClient' = toClient \o reply
    BY <1>2, <1>3
  <2>2. toClient \in Seq(Events)
    BY DEF AInv, NetOK
  <2> QED
    BY <2>1, <2>2, QueueConcat
<1>5. received' \in [SessionIds -> Seq(Chunks)]
  <2>1. CASE f.name = "task" /\ f.session # NoId
    <3>1. f.session \in SessionIds /\ f.chunk \in Chunks
      BY <1>1, <2>1 DEF Frames, Ids
    <3>2. received \in [SessionIds -> Seq(Chunks)] /\ received[f.session] \in Seq(Chunks)
      BY <3>1 DEF AInv, NetOK
    <3>3. Append(received[f.session], f.chunk) \in Seq(Chunks)
      BY <3>1, <3>2, QueueAppend
    <3> QED
      BY <1>2, <3>1, <3>2, <3>3
  <2>2. CASE ~(f.name = "task" /\ f.session # NoId)
    BY <1>2, <2>2 DEF AInv, NetOK
  <2> QED
    BY <2>1, <2>2
<1>6. NetOK'
  BY <1>1, <1>2, <1>4, <1>5 DEF AInv, NetOK
<1> QED
  BY <1>2, <1>6, NetStep

LEMMA FaultKeeps ==
  ASSUME AInv, Fault
  PROVE  AInv' /\ Step
<1>1. faults' \in 0..MaxFaults
  BY Numbers DEF Fault, AInv, NetOK
<1>2. ASSUME NEW event \in Events, Reply(event)
      PROVE  toClient' \in Seq(Events)
  BY <1>2, QueueAppend DEF Reply, AInv, NetOK
<1>3. /\ Frame("error", NoId) \in Events /\ Frame("disconnected", NoId) \in Events
      /\ \A s \in SessionIds : Frame("canceled", s) \in Events
  BY FrameTypes DEF Ids
<1>4. /\ toClient' \in Seq(Events) /\ toServer' \in Seq(Frames)
      /\ link' \in {"closed", "open", "closing", "broken", "ended"}
  BY <1>2, <1>3, QueueNone DEF Fault, AInv, NetOK
<1>5. NetOK' /\ UNCHANGED <<stateVars, worker, calls, spoken, fate, told>>
  BY <1>1, <1>4 DEF Fault, AInv, NetOK
<1> QED
  BY <1>5, NetStep

-----------------------------------------------------------------------------

LEMMA UiKeeps ==
  ASSUME AInv, UiStep \/ Caller
  PROVE  AInv' /\ Step
BY UiFacts, EitherThreadKeeps, ShutdownKeeps, StartWorkerKeeps, StartKeeps, SendAudioKeeps,
   CancelKeeps DEF UiStep, Caller

LEMMA InitAInv == Init => AInv
<1> SUFFICES ASSUME Init PROVE AInv
  OBVIOUS
<1>1. StateOK
  BY QueueNone DEF Init, StateOK, Ids
<1>2. calls = [t \in Threads |-> <<>>] /\ calls["ui"] = <<>> /\ calls["worker"] = <<>>
  BY UiFacts DEF Init
<1>3. ThreadsOK
  <2>1. Silence \in [recording : Ids, count : Nat, last : BOOLEAN]
    BY DEF Silence, Ids
  <2> QED
    BY <1>2, <2>1, QueueNone DEF Init, ThreadsOK
<1>4. NetOK
  <2>1. 0 \in 0..MaxFaults
    BY Numbers
  <2>2. received \in [SessionIds -> Seq(Chunks)]
    BY QueueNone DEF Init
  <2> QED
    BY <2>1, <2>2, QueueNone DEF Init, NetOK
<1>5. ShapeInv
  BY <1>2, NoneAllowed DEF ShapeInv
<1>6. FateInv
  <2>1. <<>> \notin Restarting
    BY NoneAllowed, NotRestarting
  <2>2. <<Call("restart")>> \in Restarting
    BY DEF Restarting
  <2>3. fate = [s \in SessionIds |-> "unused"] /\ told = {} /\ sessionState = "idle"
    BY DEF Init
  <2>4. "unused" \in Fates
    BY FatesFacts
  <2> QED
    BY <1>2, <2>1, <2>2, <2>3, <2>4 DEF FateInv, Active
<1>7. TellInv
  <2>1. \A t \in Threads : Len(calls[t]) = 0
    BY <1>2, QueueNone
  <2> QED
    BY <2>1, UiFacts DEF TellInv
<1> QED
  BY <1>1, <1>3, <1>4, <1>5, <1>6, <1>7 DEF AInv

\* Every step of the client, the service and the network keeps the invariant
\* and is a step of AsrOutcomes, or leaves its variables alone.
LEMMA NextAInv == AInv /\ [Next]_vars => AInv' /\ Step
<1> SUFFICES ASSUME AInv, [Next]_vars PROVE AInv' /\ Step
  OBVIOUS
<1>1. CASE Next
  BY <1>1, UiKeeps, WorkerKeeps, ServiceKeeps, FaultKeeps DEF Next
<1>2. CASE UNCHANGED vars
  BY <1>2, NetUnchanged, NetStep DEF vars, AInv
<1> QED
  BY <1>1, <1>2

(* The invariant: at most one session is active, it is the client's, or    *)
(* the one whose connection the UI thread makes anew, and a callback that  *)
(* is due is its thread's last call (asr_client_win.cc).                   *)
THEOREM ClientInvariance == Spec => []AInv
<1> QED
  BY InitAInv, NextAInv, PTL DEF Spec

(* Type correctness of the client's state, of the frames and events on     *)
(* their way and of the fates (asr_client_win.h).                          *)
THEOREM ClientTypes == Spec => []TypeOK
<1>1. AInv => TypeOK
  BY DEF AInv, TypeOK, FateInv
<1> QED
  BY <1>1, ClientInvariance, PTL

(* The client implements AsrOutcomes: each session it starts meets one     *)
(* end, on whichever thread, and runs its callback at most once            *)
(* (asr_client_win.cc:134, 435, 458, 525).                                 *)
THEOREM ClientKeepsPromise == Spec => KeepsPromise
<1>1. Init => Promise!OutcomesInit
  BY PromiseIds DEF Init, Promise!OutcomesInit
<1>2. Step => [Promise!OutcomesNext]_(Promise!outcomeVars)
  BY DEF Step
<1> QED
  BY <1>1, <1>2, InitAInv, NextAInv, PTL DEF Spec, KeepsPromise, Promise!OutcomesSpec

(* The text of on_final was recognised in the session that ends, although  *)
(* the latest transcript serves an empty result and late responses of      *)
(* other sessions still come (asr_client_win.cc:435).                      *)
THEOREM FinalOfItsOwn == Spec => []FinalIsItsOwn
<1>1. AInv => FinalIsItsOwn
  <2> SUFFICES ASSUME AInv, NEW t \in Threads, NEW i \in DOMAIN calls[t],
                      calls[t][i].call = "tell"
               PROVE  calls[t][i].text \in {calls[t][i].session, NoId}
    BY DEF FinalIsItsOwn
  <2>1. i \in 1..Len(calls[t])
    BY DEF AInv, ThreadsOK
  <2> QED
    BY <2>1 DEF AInv, TellInv
<1> QED
  BY <1>1, ClientInvariance, PTL

-----------------------------------------------------------------------------
(***************************************************************************)
(* Where the audio is.  A chunk waits in the queue, then in the list the   *)
(* worker flushes, in the hand of a thread that sends it, and on its way   *)
(* to the service.                                                         *)
(***************************************************************************)
Waiting(q, i, c) == i \in 1..Len(q) /\ q[i].chunk = c

Flushed(list, s, i, c) ==
  \E j \in 1..Len(list) :
    /\ list[j].call = "flushing" /\ list[j].session = s
    /\ i \in 1..Len(list[j].chunks) /\ list[j].chunks[i].chunk = c

Carries(frame, s, c) == frame.name = "task" /\ frame.session = s /\ frame.chunk = c

Sending(list, s, c) ==
  list # <<>> /\ list[1].call = "send" /\ Carries(list[1].frame, s, c)

OnWay(frames, s, i, c) == i \in 1..Len(frames) /\ Carries(frames[i], s, c)

Arrived(chunks, i, c) == i \in 1..Len(chunks) /\ chunks[i] = c

\* Chunk c is the i-th at station x, for session s if it is known there.
Holds(x, s, i, c) ==
  \/ x = "queue" /\ s = NoId /\ Waiting(queue, i, c)
  \/ x = "flush" /\ Flushed(calls["worker"], s, i, c)
  \/ x \in Threads /\ i = 1 /\ Sending(calls[x], s, c)
  \/ x = "server" /\ OnWay(toServer, s, i, c)
  \/ x = "service" /\ s \in SessionIds /\ Arrived(received[s], i, c)

\* A thread sends first and flushes last.
Ordered(list) ==
  \A i \in 1..Len(list) :
    /\ list[i].call = "send" => i = 1
    /\ list[i].call = "flushing" => i = Len(list)

\* A chunk is in one place.
Alone ==
  \A x, y, s, t, i, j, c :
    c # NoAudio /\ Holds(x, s, i, c) /\ Holds(y, t, j, c) => x = y /\ s = t /\ i = j

\* A session gets the chunks of one recording.
OneRecording ==
  \A x, y, s, i, j, c, d :
    /\ s \in SessionIds /\ c # NoAudio /\ d # NoAudio
    /\ Holds(x, s, i, c) /\ Holds(y, s, j, d)
    => c.of = d.of

\* Every chunk was recorded, for the recording that goes on if it is in the
\* queue or in the hands of an active session.
Recorded ==
  \A x, s, i, c :
    c # NoAudio /\ Holds(x, s, i, c) =>
      /\ c.of \in SessionIds /\ fate[c.of] # "unused"
      /\ c.of = spoken.recording => c.n <= spoken.count
      /\ x = "queue" => c.of = spoken.recording
      /\ s \in SessionIds =>
           fate[s] # "unused" /\ (fate[s] = "active" => c.of = spoken.recording)

SpokenOK ==
  spoken.recording \in SessionIds => fate[spoken.recording] # "unused"

AudioInv ==
  /\ \A t \in Threads : Ordered(calls[t])
  /\ Alone /\ OneRecording /\ Recorded /\ SpokenOK
  /\ \A s, i : ~Holds("service", s, i, NoAudio)

\* The list has less to send than the other.
Less(new, old) ==
  /\ Ordered(new)
  /\ \A s, c : Sending(new, s, c) => Sending(old, s, c)
  /\ \A s, i, c : Flushed(new, s, i, c) => Flushed(old, s, i, c)

\* Calls that send no audio.
Silent(call) ==
  call.call # "flushing" /\ (call.call = "send" => call.frame.name # "task")

LEMMA LessTail ==
  ASSUME NEW list \in Seq(Calls), list # <<>>, Ordered(list)
  PROVE  /\ Less(Tail(list), list)
         /\ \A i \in 1..Len(Tail(list)) : Tail(list)[i].call # "send"
<1>1. /\ Len(list) \in Nat \ {0} /\ Len(Tail(list)) = Len(list) - 1
      /\ Tail(list) \in Seq(Calls)
      /\ \A i \in 1..Len(Tail(list)) : i + 1 \in 1..Len(list) /\ Tail(list)[i] = list[i + 1] /\ i + 1 # 1
  OBVIOUS
<1>2. \A i \in 1..Len(Tail(list)) : Tail(list)[i].call # "send"
  BY <1>1 DEF Ordered
<1>3. Ordered(Tail(list))
  <2> SUFFICES ASSUME NEW i \in 1..Len(Tail(list)), Tail(list)[i].call = "flushing"
               PROVE  i = Len(Tail(list))
    BY <1>2 DEF Ordered
  <2>1. i + 1 \in 1..Len(list) /\ list[i + 1].call = "flushing"
    BY <1>1
  <2>2. i + 1 = Len(list)
    BY <2>1 DEF Ordered
  <2>3. \A k \in 1..Len(Tail(list)) : k + 1 = Len(list) => k = Len(Tail(list))
    OBVIOUS
  <2> QED
    BY <2>2, <2>3
<1>4. \A s, c : ~Sending(Tail(list), s, c)
  <2>1. Tail(list) # <<>> => 1 \in 1..Len(Tail(list))
    BY <1>1
  <2> QED
    BY <1>2, <2>1 DEF Sending
<1>5. ASSUME NEW s, NEW i, NEW c, Flushed(Tail(list), s, i, c)
      PROVE  Flushed(list, s, i, c)
  BY <1>1, <1>5 DEF Flushed
<1> QED
  BY <1>2, <1>3, <1>4, <1>5 DEF Less

LEMMA LessNone == \A old : Less(<<>>, old)
<1>1. Len(<<>>) = 0 /\ 1..0 = {}
  OBVIOUS
<1> QED
  BY <1>1 DEF Less, Ordered, Sending, Flushed

LEMMA LessSame ==
  ASSUME NEW list, Ordered(list)
  PROVE  Less(list, list)
BY DEF Less

\* A silent call before calls that send nothing.
LEMMA LessThen ==
  ASSUME NEW call \in Calls, Silent(call), NEW rest \in Seq(Calls), NEW old, Less(rest, old),
         \A i \in 1..Len(rest) : rest[i].call # "send"
  PROVE  Less(<<call>> \o rest, old)
<1> DEFINE new == <<call>> \o rest
<1>1. /\ Len(rest) \in Nat /\ Len(new) = Len(rest) + 1 /\ new # <<>> /\ new[1] = call
      /\ \A i \in 1..Len(new) : i = 1 \/ (i - 1 \in 1..Len(rest) /\ new[i] = rest[i - 1])
  OBVIOUS
<1> HIDE DEF new
<1>2. Ordered(new)
  <2> SUFFICES ASSUME NEW i \in 1..Len(new)
               PROVE  /\ new[i].call = "send" => i = 1
                      /\ new[i].call = "flushing" => i = Len(new)
    BY DEF Ordered
  <2>1. CASE i = 1
    BY <1>1, <2>1 DEF Silent
  <2>2. CASE i # 1
    <3>1. i - 1 \in 1..Len(rest) /\ new[i] = rest[i - 1]
      BY <1>1, <2>2
    <3>2. rest[i - 1].call = "flushing" => i - 1 = Len(rest)
      BY <3>1 DEF Less, Ordered
    <3> QED
      BY <1>1, <3>1, <3>2
  <2> QED
    BY <2>1, <2>2
<1>3. \A s, c : ~Sending(new, s, c)
  BY <1>1 DEF Sending, Carries, Silent
<1>4. ASSUME NEW s, NEW i, NEW c, Flushed(new, s, i, c)
      PROVE  Flushed(old, s, i, c)
  <2>1. PICK j \in 1..Len(new) :
          /\ new[j].call = "flushing" /\ new[j].session = s
          /\ i \in 1..Len(new[j].chunks) /\ new[j].chunks[i].chunk = c
    BY <1>4 DEF Flushed
  <2>2. j - 1 \in 1..Len(rest) /\ new[j] = rest[j - 1]
    BY <1>1, <2>1 DEF Silent
  <2>3. Flushed(rest, s, i, c)
    BY <2>1, <2>2 DEF Flushed
  <2> QED
    BY <2>3 DEF Less
<1> QED
  BY <1>2, <1>3, <1>4 DEF Less, new

LEMMA LessOne ==
  ASSUME NEW call \in Calls, Silent(call), NEW old
  PROVE  Less(<<call>>, old)
<1>1. /\ <<>> \in Seq(Calls) /\ <<call>> \o <<>> = <<call>>
      /\ \A i \in 1..Len(<<>>) : FALSE
  OBVIOUS
<1> DEFINE none == <<>>
<1>2. none \in Seq(Calls) /\ Less(none, old) /\ \A i \in 1..Len(none) : none[i].call # "send"
  BY <1>1, LessNone
<1> HIDE DEF none
<1>3. Less(<<call>> \o none, old)
  BY <1>2, LessThen
<1> QED
  BY <1>1, <1>3 DEF none

LEMMA GoLess ==
  ASSUME ThreadsOK, \A t \in Threads : Ordered(calls[t]),
         NEW t \in Threads, NEW rest \in Seq(Calls), Go(t, rest), Less(rest, calls[t])
  PROVE  \A u \in Threads : Less(calls'[u], calls[u])
BY GoFacts, LessSame

LEMMA SilentCalls ==
  /\ \A name \in {"finish", "shutdown", "close", "restart", "fail", "flush", "stop"} :
       Silent(Call(name))
  /\ \A frame : frame.name # "task" => Silent(Send(frame))
  /\ \A was : Silent(FailUnless(was))
  /\ \A s, text : Silent(Tell(s, text))
  /\ \A name, s : Frame(name, s).name = name
BY DEF Silent, Call, Send, FailUnless, Tell, Frame

-----------------------------------------------------------------------------
\* What a step keeps of the accounts that AsrOutcomes allows.
LEMMA FatesOn ==
  ASSUME FateInv, Step
  PROVE  \A s \in SessionIds :
           fate[s] # "unused" => fate'[s] # "unused" /\ (fate'[s] = "active" => fate[s] = "active")
<1>1. CASE UNCHANGED Promise!outcomeVars
  BY <1>1 DEF Promise!outcomeVars
<1>2. ASSUME NEW s \in SessionIds, Promise!Begin(s) \/ Promise!End(s) \/ Promise!Tell(s)
      PROVE  \A t \in SessionIds :
               fate[t] # "unused" => fate'[t] # "unused" /\ (fate'[t] = "active" => fate[t] = "active")
  BY <1>2 DEF FateInv, Promise!Begin, Promise!End, Promise!Tell
<1> QED
  BY <1>1, <1>2, PromiseIds DEF Step, Promise!OutcomesNext

\* Chunks stay in their session, or go nowhere.
LEMMA Carried ==
  ASSUME FateInv, Step, OneRecording, Recorded, SpokenOK, UNCHANGED spoken,
         \A x, s, i, c : c # NoAudio /\ Holds(x, s, i, c)' =>
           \E y, j : Holds(y, s, j, c) /\ (x = "queue" => y = "queue")
  PROVE  OneRecording' /\ Recorded' /\ SpokenOK'
<1>1. OneRecording'
  <2> SUFFICES ASSUME NEW x, NEW y, NEW s, NEW i, NEW j, NEW c, NEW d,
                      s \in SessionIds, c # NoAudio, d # NoAudio,
                      Holds(x, s, i, c)', Holds(y, s, j, d)'
               PROVE  c.of = d.of
    BY DEF OneRecording
  <2>1. PICK u, k : Holds(u, s, k, c)
    OBVIOUS
  <2>2. PICK v, l : Holds(v, s, l, d)
    OBVIOUS
  <2> QED
    BY <2>1, <2>2 DEF OneRecording
<1>2. Recorded'
  <2> SUFFICES ASSUME NEW x, NEW s, NEW i, NEW c, c # NoAudio, Holds(x, s, i, c)'
               PROVE  /\ c.of \in SessionIds /\ fate'[c.of] # "unused"
                      /\ c.of = spoken.recording => c.n <= spoken.count
                      /\ x = "queue" => c.of = spoken.recording
                      /\ s \in SessionIds =>
                           fate'[s] # "unused" /\ (fate'[s] = "active" => c.of = spoken.recording)
    BY DEF Recorded
  <2>1. PICK y, j : Holds(y, s, j, c) /\ (x = "queue" => y = "queue")
    OBVIOUS
  <2> QED
    BY <2>1, FatesOn DEF Recorded
<1>3. SpokenOK'
  BY FatesOn DEF SpokenOK
<1> QED
  BY <1>1, <1>2, <1>3

\* Nothing has been moved.
LEMMA Fewer ==
  ASSUME \A t \in Threads : Less(calls'[t], calls[t]),
         \A i, c : c # NoAudio /\ Waiting(queue', i, c) => Waiting(queue, i, c),
         \A s, i, c : OnWay(toServer', s, i, c) => OnWay(toServer, s, i, c),
         UNCHANGED received
  PROVE  \A x, s, i, c : c # NoAudio /\ Holds(x, s, i, c)' => Holds(x, s, i, c)
<1> SUFFICES ASSUME NEW x, NEW s, NEW i, NEW c, c # NoAudio, Holds(x, s, i, c)'
             PROVE  Holds(x, s, i, c)
  OBVIOUS
<1>1. "worker" \in Threads
  BY DEF Threads
<1> QED
  BY <1>1 DEF Holds, Less

LEMMA FewerKeeps ==
  ASSUME AInv, AudioInv, Step, UNCHANGED spoken,
         \A t \in Threads : Less(calls'[t], calls[t]),
         \A i, c : c # NoAudio /\ Waiting(queue', i, c) => Waiting(queue, i, c),
         \A s, i, c : OnWay(toServer', s, i, c) => OnWay(toServer, s, i, c),
         UNCHANGED received
  PROVE  AudioInv'
<1>1. \A x, s, i, c : c # NoAudio /\ Holds(x, s, i, c)' => Holds(x, s, i, c)
  BY Fewer
<1>2. Alone'
  BY <1>1 DEF AudioInv, Alone
<1>3. OneRecording' /\ Recorded' /\ SpokenOK'
  BY <1>1, Carried DEF AudioInv, AInv
<1>4. \A t \in Threads : Ordered(calls'[t])
  BY DEF Less
<1>5. \A s, i : ~Holds("service", s, i, NoAudio)'
  BY DEF AudioInv, Holds, Threads
<1> QED
  BY <1>2, <1>3, <1>4, <1>5 DEF AudioInv

\* The queue and the frames on their way: nothing, the same, or something that
\* carries no audio more.
LEMMA QuietFacts ==
  ASSUME AInv
  PROVE  /\ queue' = <<>> => \A i, c : ~Waiting(queue', i, c)
         /\ queue' = Append(queue, [chunk |-> NoAudio, last |-> TRUE]) =>
              \A i, c : c # NoAudio /\ Waiting(queue', i, c) => Waiting(queue, i, c)
         /\ toServer' = <<>> => \A s, i, c : ~OnWay(toServer', s, i, c)
         /\ \A frame \in Frames : frame.name # "task" /\ toServer' = Append(toServer, frame) =>
              \A s, i, c : OnWay(toServer', s, i, c) => OnWay(toServer, s, i, c)
<1>1. Len(<<>>) = 0 /\ 1..0 = {}
  OBVIOUS
<1>2. queue \in Seq(Queued) /\ toServer \in Seq(Frames)
  BY DEF AInv, StateOK, NetOK
<1> DEFINE pad == [chunk |-> NoAudio, last |-> TRUE]
<1>3. pad.chunk = NoAudio
  OBVIOUS
<1> HIDE DEF pad
<1>4. \A S, s, e : s \in Seq(S) => \A i \in 1..Len(Append(s, e)) :
        (i \in 1..Len(s) /\ Append(s, e)[i] = s[i]) \/ Append(s, e)[i] = e
  OBVIOUS
<1>5. queue' = Append(queue, pad) =>
        \A i, c : c # NoAudio /\ Waiting(queue', i, c) => Waiting(queue, i, c)
  BY <1>2, <1>3, <1>4 DEF Waiting
<1>6. ASSUME NEW frame \in Frames, frame.name # "task", toServer' = Append(toServer, frame),
             NEW s, NEW i, NEW c, OnWay(toServer', s, i, c)
      PROVE  OnWay(toServer, s, i, c)
  BY <1>2, <1>4, <1>6 DEF OnWay, Carries
<1>7. queue' = <<>> => \A i, c : ~Waiting(queue', i, c)
  BY <1>1 DEF Waiting
<1>8. toServer' = <<>> => \A s, i, c : ~OnWay(toServer', s, i, c)
  BY <1>1 DEF OnWay
<1> QED
  BY <1>5, <1>6, <1>7, <1>8 DEF pad

\* A step of one thread in which no audio moves.
LEMMA QuietKeeps ==
  ASSUME AInv, AudioInv, Step, UNCHANGED <<spoken, received>>,
         NEW t \in Threads, NEW rest \in Seq(Calls), Go(t, rest), Less(rest, calls[t]),
         \/ queue' \in {queue, <<>>}
         \/ queue' = Append(queue, [chunk |-> NoAudio, last |-> TRUE]),
         \/ toServer' \in {toServer, <<>>}
         \/ \E frame \in Frames : frame.name # "task" /\ toServer' = Append(toServer, frame)
  PROVE  AudioInv'
<1>1. \A u \in Threads : Less(calls'[u], calls[u])
  BY GoLess DEF AInv, AudioInv
<1>2. \A i, c : c # NoAudio /\ Waiting(queue', i, c) => Waiting(queue, i, c)
  BY QuietFacts
<1>3. \A s, i, c : OnWay(toServer', s, i, c) => OnWay(toServer, s, i, c)
  BY QuietFacts
<1> QED
  BY <1>1, <1>2, <1>3, FewerKeeps

\* ... because the thread returns from a call, ...
LEMMA ReturnKeeps ==
  ASSUME AInv, AudioInv, Step, UNCHANGED <<spoken, received>>,
         NEW t \in Threads, NEW name, InCall(t, name), Return(t),
         \/ queue' \in {queue, <<>>}
         \/ queue' = Append(queue, [chunk |-> NoAudio, last |-> TRUE]),
         \/ toServer' \in {toServer, <<>>}
         \/ \E frame \in Frames : frame.name # "task" /\ toServer' = Append(toServer, frame)
  PROVE  AudioInv'
<1>1. calls[t] \in Seq(Calls) /\ calls[t] # <<>> /\ Tail(calls[t]) \in Seq(Calls)
  BY InCallFacts DEF AInv
<1>2. Less(Tail(calls[t]), calls[t])
  BY <1>1, LessTail DEF AudioInv
<1>3. Go(t, Tail(calls[t]))
  BY DEF Return
<1> QED
  BY <1>1, <1>2, <1>3, QuietKeeps

\* ... or has one silent call left, or none.
LEMMA OneCallKeeps ==
  ASSUME AInv, AudioInv, Step, UNCHANGED <<spoken, received>>,
         NEW t \in Threads, NEW rest, Go(t, rest),
         rest = <<>> \/ \E call \in Calls : Silent(call) /\ rest = <<call>>,
         queue' \in {queue, <<>>},
         toServer' \in {toServer, <<>>}
  PROVE  AudioInv'
<1>1. rest \in Seq(Calls)
  BY QueueNone, QueueOne
<1>2. Less(rest, calls[t])
  BY LessNone, LessOne
<1> QED
  BY <1>1, <1>2, QuietKeeps

-----------------------------------------------------------------------------
\* The steps that move no audio.

LEMMA SilentOnes ==
  /\ \A name \in {"finish", "shutdown", "close", "restart", "fail", "flush", "stop"} :
       Call(name) \in Calls /\ Silent(Call(name))
  /\ \A was \in BOOLEAN : FailUnless(was) \in Calls /\ Silent(FailUnless(was))
  /\ \A s \in SessionIds, text \in Ids : Tell(s, text) \in Calls /\ Silent(Tell(s, text))
  /\ \A name \in {"start", "finish", "cancel"}, s \in SessionIds :
       Send(Frame(name, s)) \in Calls /\ Silent(Send(Frame(name, s)))
  /\ Send(Frame("connect", NoId)) \in Calls /\ Silent(Send(Frame("connect", NoId)))
BY SilentCalls, CallTypes, FrameTypes

LEMMA CurrentId ==
  ASSUME AInv
  PROVE  /\ currentId \in Ids /\ NoId \in Ids /\ transcript \in Ids
         /\ Active => currentId \in SessionIds
BY DEF AInv, StateOK, Active, Ids

LEMMA EndQuiet ==
  ASSUME AInv, AudioInv, Step, NEW t \in Threads, FrameFailed(t) \/ (t = "worker" /\ FailLocked)
  PROVE  AudioInv'
<1>1. /\ UNCHANGED <<spoken, received, toServer>> /\ queue' = <<>>
  BY DEF FrameFailed, FailLocked, ClearSession, netVars
<1>2. PICK rest : /\ Go(t, rest)
                  /\ rest = <<>> \/ (Active /\ rest = <<Tell(currentId, NoId)>>)
  <2>1. CASE FrameFailed(t)
    BY <2>1 DEF FrameFailed
  <2>2. CASE t = "worker" /\ FailLocked
    BY <2>2 DEF FailLocked
  <2> QED
    BY <2>1, <2>2
<1>3. rest = <<>> \/ \E call \in Calls : Silent(call) /\ rest = <<call>>
  BY <1>2, CurrentId, SilentOnes
<1> QED
  BY <1>1, <1>2, <1>3, OneCallKeeps

LEMMA ReturnQuiet ==
  ASSUME AInv, AudioInv, Step, NEW t \in Threads,
         Callback(t) \/ (t = "worker" /\ StopReceiving) \/ (t = "ui" /\ (CloseConnection \/ StartWorker))
  PROVE  AudioInv'
<1>1. CASE Callback(t)
  BY <1>1, ReturnKeeps DEF Callback, stateVars, sessionVars, netVars
<1>2. CASE t = "worker" /\ StopReceiving
  BY <1>2, ReturnKeeps DEF StopReceiving, sessionVars, netVars
<1>3. CASE t = "ui" /\ CloseConnection
  <2>1. InCall("ui", "close") /\ Return("ui") /\ UNCHANGED <<spoken, received>> /\ queue' = <<>>
    BY <1>3 DEF CloseConnection, ClearSession
  <2>2. Frame("disconnect", NoId) \in Frames /\ Frame("disconnect", NoId).name # "task"
    BY FrameTypes, SilentCalls
  <2>3. toServer' = toServer \/ toServer' = Append(toServer, Frame("disconnect", NoId))
    BY <1>3 DEF CloseConnection, Sent
  <2> QED
    BY <1>3, <2>1, <2>2, <2>3, ReturnKeeps
<1>4. CASE t = "ui" /\ StartWorker
  BY <1>4, ReturnKeeps DEF StartWorker
<1> QED
  BY <1>1, <1>2, <1>3, <1>4

LEMMA FinishQuiet ==
  ASSUME AInv, AudioInv, Step, NEW t \in Threads, FinishReusableSessionIfNeeded(t)
  PROVE  AudioInv'
<1>1. /\ InCall(t, "finish") /\ UNCHANGED <<spoken, received, toServer>>
      /\ queue' = queue \/ queue' = Append(queue, [chunk |-> NoAudio, last |-> TRUE])
  BY DEF FinishReusableSessionIfNeeded, netVars
<1>2. CASE Return(t)
  BY <1>1, <1>2, ReturnKeeps
<1>3. CASE sessionState = "streaming" /\ Go(t, <<Send(Frame("finish", currentId))>> \o Tail(calls[t]))
  <2> DEFINE send == Send(Frame("finish", currentId))
  <2>1. send \in Calls /\ Silent(send)
    BY <1>3, CurrentId, SilentOnes DEF Active
  <2> HIDE DEF send
  <2>2. calls[t] \in Seq(Calls) /\ calls[t] # <<>> /\ Tail(calls[t]) \in Seq(Calls)
    BY <1>1, InCallFacts DEF AInv
  <2>3. Less(<<send>> \o Tail(calls[t]), calls[t])
    BY <2>1, <2>2, LessTail, LessThen DEF AudioInv
  <2>4. <<send>> \o Tail(calls[t]) \in Seq(Calls)
    BY <2>1, <2>2
  <2>5. Go(t, <<send>> \o Tail(calls[t]))
    BY <1>3 DEF send
  <2> QED
    BY <1>1, <2>3, <2>4, <2>5, QuietKeeps
<1> QED
  BY <1>2, <1>3 DEF FinishReusableSessionIfNeeded

LEMMA ShutdownQuiet ==
  ASSUME AInv, AudioInv, Step, ShutdownReusableConnection
  PROVE  AudioInv'
<1>1. /\ InCall("ui", "shutdown") /\ UNCHANGED <<spoken, received, toServer, queue>>
      /\ Go("ui", <<Call("close")>> \o Tail(calls["ui"])) /\ "ui" \in Threads
  BY DEF ShutdownReusableConnection, netVars, sessionVars, Threads
<1>2. Call("close") \in Calls /\ Silent(Call("close"))
  BY SilentOnes
<1> DEFINE close == Call("close")
<1> HIDE DEF close
<1>3. calls["ui"] \in Seq(Calls) /\ calls["ui"] # <<>> /\ Tail(calls["ui"]) \in Seq(Calls)
  BY <1>1, InCallFacts DEF AInv
<1>4. Less(<<close>> \o Tail(calls["ui"]), calls["ui"])
  BY <1>1, <1>2, <1>3, LessTail, LessThen DEF AudioInv, close
<1>5. <<close>> \o Tail(calls["ui"]) \in Seq(Calls)
  BY <1>2, <1>3 DEF close
<1>6. Go("ui", <<close>> \o Tail(calls["ui"]))
  BY <1>1 DEF close
<1> QED
  BY <1>1, <1>4, <1>5, <1>6, QuietKeeps

\* The worker, at a place in its loop or in a failure.
LEMMA WorkerQuiet ==
  ASSUME AInv, AudioInv, Step,
         \/ FailReusableSession \/ OpenConnection \/ CheckCancelled \/ ConnectionLost
         \/ ConnectionStarted \/ ServiceError \/ ConnectionFinished
         \/ SessionStarted \/ AsrResponse \/ SessionFinished \/ SessionCanceled
  PROVE  AudioInv'
<1> USE DEF stateVars, sessionVars, netVars, Receives, WorkerIn
<1>1. "worker" \in Threads /\ (calls["worker"] = <<>> /\ UNCHANGED calls => Go("worker", <<>>))
  BY WorkerReady, StaysFacts DEF AInv
<1>2. CASE FailReusableSession
  <2>1. FailUnless(cancelled) \in Calls /\ Silent(FailUnless(cancelled))
    BY SilentOnes DEF AInv, StateOK
  <2> QED
    BY <1>1, <1>2, <2>1, OneCallKeeps DEF FailReusableSession
<1>3. CASE OpenConnection
  BY <1>1, <1>3, SilentOnes, OneCallKeeps DEF OpenConnection
<1>4. CASE CheckCancelled
  BY <1>1, <1>4, OneCallKeeps DEF CheckCancelled
<1>5. CASE ConnectionLost
  <2>1. Go("worker", <<>>) \/ Go("worker", <<Call("fail")>>)
    BY <1>5 DEF ConnectionLost
  <2> QED
    BY <1>1, <1>5, <2>1, SilentOnes, OneCallKeeps DEF ConnectionLost
<1>6. CASE ConnectionStarted
  <2>1. Go("worker", <<>>) \/ (Active /\ Go("worker", <<Send(Frame("start", currentId))>>))
    BY <1>6 DEF ConnectionStarted, Active
  <2> QED
    BY <1>1, <1>6, <2>1, CurrentId, SilentOnes, OneCallKeeps DEF ConnectionStarted
<1>7. CASE ServiceError \/ ConnectionFinished
  BY <1>1, <1>7, SilentOnes, OneCallKeeps DEF ServiceError, ConnectionFinished
<1>8. CASE SessionStarted
  <2>1. Go("worker", <<Call("flush")>>) \/ Go("worker", <<>>)
    BY <1>1, <1>8 DEF SessionStarted
  <2> QED
    BY <1>1, <1>8, <2>1, SilentOnes, OneCallKeeps DEF SessionStarted
<1>9. CASE AsrResponse
  BY <1>1, <1>9, OneCallKeeps DEF AsrResponse
<1>10. CASE SessionFinished
  <2>1. /\ UNCHANGED <<spoken, received, toServer>> /\ queue' \in {queue, <<>>}
        /\ calls["worker"] = <<>>
    BY <1>10 DEF SessionFinished, SessionOver, ClearSession
  <2>2. \/ UNCHANGED calls
        \/ /\ Current
           /\ \E text \in {transcript, currentId} : Go("worker", <<Tell(currentId, text)>>)
    BY <1>10 DEF SessionFinished
  <2>3. Current => currentId \in SessionIds
    <3>1. Head(toClient) \in Events /\ Head(toClient).name = "finished"
      BY <1>10, QueueTail DEF SessionFinished, AInv, NetOK
    <3> QED
      BY <3>1, EventTypes DEF Current
  <2> QED
    BY <1>1, <2>1, <2>2, <2>3, CurrentId, SilentOnes, OneCallKeeps
<1>11. CASE SessionCanceled
  <2>1. queue' \in {queue, <<>>}
    BY <1>11 DEF SessionCanceled, ClearSession
  <2> QED
    BY <1>1, <1>11, <2>1, OneCallKeeps DEF SessionCanceled
<1> QED
  BY <1>2, <1>3, <1>4, <1>5, <1>6, <1>7, <1>8, <1>9, <1>10, <1>11

LEMMA FaultQuiet ==
  ASSUME AInv, AudioInv, Step, Fault
  PROVE  AudioInv'
<1>1. /\ UNCHANGED <<spoken, received, calls, queue>> /\ toServer' \in {toServer, <<>>}
  BY DEF Fault, stateVars, sessionVars
<1>2. \A t \in Threads : Less(calls'[t], calls[t])
  BY <1>1, LessSame DEF AudioInv
<1>3. \A s, i, c : OnWay(toServer', s, i, c) => OnWay(toServer, s, i, c)
  BY <1>1, QuietFacts
<1> QED
  BY <1>1, <1>2, <1>3, FewerKeeps

LEMMA TaskType ==
  ASSUME NEW frame \in Frames, frame.name = "task"
  PROVE  frame.chunk \in Chunks /\ frame.session \in Ids
BY DEF Frames

LEMMA HoldsChunks ==
  ASSUME AInv, NEW x, NEW s, NEW i, NEW c, Holds(x, s, i, c)
  PROVE  c \in Chunks /\ i \in Nat \ {0}
<1>1. CASE x = "queue"
  <2>1. queue \in Seq(Queued) /\ i \in 1..Len(queue) /\ queue[i].chunk = c
    BY <1>1 DEF Holds, Waiting, Threads, AInv, StateOK
  <2>2. queue[i] \in Queued /\ i \in Nat \ {0}
    BY <2>1
  <2> QED
    BY <2>1, <2>2 DEF Queued
<1>2. CASE x = "flush"
  <2>1. Flushed(calls["worker"], s, i, c) /\ calls["worker"] \in Seq(Calls)
    BY <1>2, WorkerReady DEF Holds, Threads, AInv, ThreadsOK
  <2>2. PICK j \in 1..Len(calls["worker"]) :
          /\ calls["worker"][j].call = "flushing"
          /\ i \in 1..Len(calls["worker"][j].chunks) /\ calls["worker"][j].chunks[i].chunk = c
    BY <2>1 DEF Flushed
  <2>3. calls["worker"][j] \in Calls
    BY <2>1
  <2>4. PICK chunks \in Seq(Queued) : chunks = calls["worker"][j].chunks
    BY <2>2, <2>3, FlushingType
  <2>5. chunks[i] \in Queued /\ i \in Nat \ {0} /\ chunks[i].chunk = c
    BY <2>2, <2>4
  <2> QED
    BY <2>5 DEF Queued
<1>3. CASE x \in Threads
  <2>1. calls[x] \in Seq(Calls) /\ Sending(calls[x], s, c) /\ i = 1
    BY <1>3 DEF Holds, Threads, AInv, ThreadsOK
  <2>2. calls[x][1] \in Calls /\ calls[x][1].call = "send" /\ Carries(calls[x][1].frame, s, c)
    BY <2>1 DEF Sending
  <2>3. calls[x][1].frame \in Frames
    BY <2>2, SendType
  <2> QED
    BY <2>1, <2>2, <2>3, TaskType DEF Carries
<1>4. CASE x = "server"
  <2>1. toServer \in Seq(Frames) /\ i \in 1..Len(toServer) /\ Carries(toServer[i], s, c)
    BY <1>4 DEF Holds, OnWay, Threads, AInv, NetOK
  <2>2. toServer[i] \in Frames /\ i \in Nat \ {0}
    BY <2>1
  <2> QED
    BY <2>1, <2>2, TaskType DEF Carries
<1>5. CASE x = "service"
  <2>1. received[s] \in Seq(Chunks) /\ i \in 1..Len(received[s]) /\ received[s][i] = c
    BY <1>5 DEF Holds, Arrived, Threads, AInv, NetOK
  <2> QED
    BY <2>1
<1> QED
  BY <1>1, <1>2, <1>3, <1>4, <1>5 DEF Holds


-----------------------------------------------------------------------------
\* The steps that move a chunk.

\* Nothing has been moved but the fresh chunk, which is new there.
Joined(x0, s0, i0, fresh) ==
  \A x, s, i, c : c # NoAudio /\ Holds(x, s, i, c)' =>
    Holds(x, s, i, c) \/ (c = fresh /\ x = x0 /\ s = s0 /\ i = i0)

\* A chunk that was recorded is put somewhere.
LEMMA FreshKeeps ==
  ASSUME AInv, AudioInv, UNCHANGED <<fate, received>>, spoken.recording # NoId,
         spoken'.recording = spoken.recording, spoken'.count = spoken.count + 1,
         \A t \in Threads : Ordered(calls'[t]),
         NEW x0, NEW s0, NEW i0, NEW fresh,
         fresh = [of |-> spoken.recording, n |-> spoken.count + 1],
         s0 \in SessionIds => fate[s0] = "active",
         Joined(x0, s0, i0, fresh)
  PROVE  AudioInv'
<1> USE DEF Joined
<1>1. /\ fresh.of = spoken.recording /\ fresh.n = spoken.count + 1
      /\ spoken.recording \in SessionIds /\ fate[spoken.recording] # "unused" /\ spoken.count \in Nat
  BY DEF AudioInv, SpokenOK, AInv, ThreadsOK, Ids
<1>2. \A x, s, i : ~(fresh # NoAudio /\ Holds(x, s, i, fresh))
  BY <1>1 DEF AudioInv, Recorded
<1>3. Alone'
  <2> SUFFICES ASSUME NEW x, NEW y, NEW s, NEW t, NEW i, NEW j, NEW c, c # NoAudio,
                      Holds(x, s, i, c)', Holds(y, t, j, c)'
               PROVE  x = y /\ s = t /\ i = j
    BY DEF Alone
  <2>1. Holds(x, s, i, c) \/ (c = fresh /\ x = x0 /\ s = s0 /\ i = i0)
    OBVIOUS
  <2>2. Holds(y, t, j, c) \/ (c = fresh /\ y = x0 /\ t = s0 /\ j = i0)
    OBVIOUS
  <2> QED
    BY <1>2, <2>1, <2>2 DEF AudioInv, Alone
<1>4. \A x, s, i, c : c # NoAudio /\ Holds(x, s, i, c)' =>
        /\ Holds(x, s, i, c) \/ c.of = spoken.recording
        /\ c.of \in SessionIds /\ fate[c.of] # "unused"
        /\ c.of = spoken.recording => c.n <= spoken.count + 1
        /\ x = "queue" => c.of = spoken.recording
        /\ s \in SessionIds =>
             fate[s] # "unused" /\ (fate[s] = "active" => c.of = spoken.recording)
  <2> SUFFICES ASSUME NEW x, NEW s, NEW i, NEW c, c # NoAudio, Holds(x, s, i, c)'
               PROVE  /\ Holds(x, s, i, c) \/ c.of = spoken.recording
                      /\ c.of \in SessionIds /\ fate[c.of] # "unused"
                      /\ c.of = spoken.recording => c.n <= spoken.count + 1
                      /\ x = "queue" => c.of = spoken.recording
                      /\ s \in SessionIds =>
                           fate[s] # "unused" /\ (fate[s] = "active" => c.of = spoken.recording)
    OBVIOUS
  <2>1. CASE Holds(x, s, i, c)
    <3>1. /\ c.of \in SessionIds /\ fate[c.of] # "unused"
          /\ c.of = spoken.recording => c.n <= spoken.count
          /\ x = "queue" => c.of = spoken.recording
          /\ s \in SessionIds =>
               fate[s] # "unused" /\ (fate[s] = "active" => c.of = spoken.recording)
      BY <2>1 DEF AudioInv, Recorded
    <3>2. c.of = spoken.recording => c.n <= spoken.count + 1
      <4> SUFFICES ASSUME c.of = spoken.recording PROVE c.n <= spoken.count + 1
        OBVIOUS
      <4>1. c.n <= spoken.count /\ c.n \in Nat
        <5>1. c \in Chunks
          BY <2>1, HoldsChunks
        <5> QED
          BY <3>1, <5>1 DEF Chunks
      <4> QED
        BY <1>1, <4>1
    <3> QED
      BY <2>1, <3>1, <3>2
  <2>2. CASE c = fresh /\ s = s0
    <3>1. c.n <= spoken.count + 1
      BY <1>1, <2>2
    <3> QED
      BY <1>1, <2>2, <3>1
  <2> QED
    BY <2>1, <2>2
<1>5. OneRecording'
  <2> SUFFICES ASSUME NEW x, NEW y, NEW s, NEW i, NEW j, NEW c, NEW d,
                      s \in SessionIds, c # NoAudio, d # NoAudio,
                      Holds(x, s, i, c)', Holds(y, s, j, d)'
               PROVE  c.of = d.of
    BY DEF OneRecording
  <2>1. CASE s = s0
    BY <1>4, <2>1
  <2>2. CASE s # s0
    <3>1. Holds(x, s, i, c) /\ Holds(y, s, j, d)
      BY <2>2
    <3> QED
      BY <3>1 DEF AudioInv, OneRecording
  <2> QED
    BY <2>1, <2>2
<1>6. Recorded' /\ SpokenOK'
  BY <1>1, <1>4 DEF Recorded, SpokenOK
<1>7. \A s, i : ~Holds("service", s, i, NoAudio)'
  BY DEF AudioInv, Holds, Threads
<1> QED
  BY <1>3, <1>5, <1>6, <1>7 DEF AudioInv

\* Calls that are at most a frame to send and then a finish.
LEMMA SendingOne ==
  ASSUME NEW frame \in Frames, NEW last
  PROVE  LET list == <<Send(frame)>> \o FinishAfter(last)
         IN  /\ Ordered(list) /\ list \in Seq(Calls)
             /\ \A s, c : Sending(list, s, c) => Carries(frame, s, c)
             /\ list # <<>> /\ \A i \in 1..Len(list) : list[i].call # "flushing"
<1> DEFINE send == Send(frame)
           finish == Call("finish")
<1>1. /\ send \in Calls /\ send.call = "send" /\ finish \in Calls /\ finish.call = "finish"
  BY CallTypes
<1>2. send.frame = frame
  BY DEF Send
<1> HIDE DEF send, finish
<1>3. FinishAfter(last) = <<>> \/ FinishAfter(last) = <<finish>>
  BY DEF FinishAfter, finish
<1>4. CASE FinishAfter(last) = <<>>
  <2>1. <<send>> \o FinishAfter(last) = <<send>>
    BY <1>4
  <2>2. <<send>> \in Seq(Calls) /\ Len(<<send>>) = 1 /\ <<send>>[1] = send
    BY <1>1, QueueOne
  <2>3. Ordered(<<send>>) /\ <<send>> # <<>> /\ \A i \in 1..Len(<<send>>) : <<send>>[i].call # "flushing"
    BY <1>1, <2>2 DEF Ordered
  <2> QED
    BY <1>2, <2>1, <2>2, <2>3 DEF Sending, send
<1>5. CASE FinishAfter(last) = <<finish>>
  <2>1. <<send>> \o FinishAfter(last) = <<send, finish>>
    BY <1>1, <1>5, CallPairs
  <2> DEFINE list == <<send, finish>>
  <2>2. list \in Seq(Calls) /\ Len(list) = 2 /\ list[1] = send /\ list[2] = finish
    BY <1>1
  <2> HIDE DEF list
  <2>3. \A i \in 1..Len(list) : i = 1 \/ i = 2
    BY <2>2
  <2>4. Ordered(list) /\ list # <<>> /\ \A i \in 1..Len(list) : list[i].call # "flushing"
    BY <1>1, <2>2, <2>3 DEF Ordered
  <2> QED
    BY <1>2, <2>1, <2>2, <2>4 DEF Sending, send, list
<1> QED
  BY <1>3, <1>4, <1>5

LEMMA AppendedChunk ==
  ASSUME NEW q \in Seq(Queued), NEW e \in Queued
  PROVE  \A i, c : Waiting(Append(q, e), i, c) =>
           Waiting(q, i, c) \/ (i = Len(q) + 1 /\ c = e.chunk)
<1>1. /\ Len(q) \in Nat /\ Append(q, e)[Len(q) + 1] = e
      /\ \A i \in 1..Len(Append(q, e)) : i \in 1..Len(q) \/ i = Len(q) + 1
      /\ \A i \in 1..Len(q) : Append(q, e)[i] = q[i]
  OBVIOUS
<1> QED
  BY <1>1 DEF Waiting

\* The caller's chunk is queued, or taken in hand at once.
LEMMA SendAudioMoves ==
  ASSUME AInv, AudioInv, NEW last \in BOOLEAN, SendReusableAudio(last)
  PROVE  AudioInv'
<1> DEFINE chunk == [of |-> spoken.recording, n |-> spoken.count + 1]
           entry == [chunk |-> chunk, last |-> last]
<1>1. /\ calls["ui"] = <<>> /\ spoken.recording # NoId
      /\ UNCHANGED <<fate, received, toServer>>
      /\ spoken' = [spoken EXCEPT !.count = spoken.count + 1, !.last = spoken.last \/ last]
      /\ queue' = IF sessionState \in {"starting", "idle"} THEN Append(queue, entry) ELSE queue
      /\ Go("ui", IF sessionState # "streaming" THEN <<>>
                  ELSE <<Send(Task(currentId, chunk))>> \o FinishAfter(last))
  BY DEF SendReusableAudio, netVars
<1>2. spoken'.recording = spoken.recording /\ spoken'.count = spoken.count + 1
  BY <1>1 DEF AInv, ThreadsOK
<1>3. chunk \in Chunks /\ entry.chunk = chunk
  BY DEF AInv, ThreadsOK, Chunks
<1>4. entry \in Queued
  <2> HIDE DEF chunk
  <2> QED
    BY <1>3 DEF Queued
<1> HIDE DEF chunk, entry
<1>5. "ui" \in Threads /\ "worker" \in Threads /\ queue \in Seq(Queued)
  BY DEF Threads, AInv, StateOK
<1>6. CASE sessionState # "streaming"
  <2>1. Go("ui", <<>>) /\ calls'["ui"] = <<>> /\ calls'["worker"] = calls["worker"]
    BY <1>1, <1>5, <1>6, QueueNone, GoFacts DEF AInv, Threads
  <2>2. \A t \in Threads : calls'[t] = calls[t]
    BY <1>1, <2>1 DEF Threads
  <2>3. \A i, c : Waiting(queue', i, c) => Waiting(queue, i, c) \/ (i = Len(queue) + 1 /\ c = chunk)
    BY <1>1, <1>3, <1>4, <1>5, AppendedChunk
  <2>4. Joined("queue", NoId, Len(queue) + 1, chunk)
    BY <1>1, <1>5, <2>2, <2>3 DEF Holds, Joined
  <2>5. \A t \in Threads : Ordered(calls'[t])
    BY <2>2 DEF AudioInv
  <2>6. NoId \notin SessionIds
    BY IdFacts
  <2>7. chunk = [of |-> spoken.recording, n |-> spoken.count + 1]
    BY DEF chunk
  <2> QED
    BY <1>1, <1>2, <2>4, <2>5, <2>6, <2>7, FreshKeeps
<1>7. CASE sessionState = "streaming"
  <2> DEFINE frame == Task(currentId, chunk)
             list == <<Send(frame)>> \o FinishAfter(last)
  <2>1. frame \in Frames
    BY <1>3, CurrentId, FrameTypes
  <2>2. \A s, c : Carries(frame, s, c) => s = currentId /\ c = chunk
    BY DEF Carries, Task
  <2>3. Go("ui", list) /\ queue' = queue
    BY <1>1, <1>7
  <2> HIDE DEF frame
  <2>4. /\ Ordered(list) /\ list \in Seq(Calls)
        /\ \A s, c : Sending(list, s, c) => Carries(frame, s, c)
        /\ \A i \in 1..Len(list) : list[i].call # "flushing"
    BY <2>1, SendingOne
  <2> HIDE DEF list
  <2>5. calls'["ui"] = list /\ calls'["worker"] = calls["worker"]
    BY <1>5, <2>3, <2>4, GoFacts DEF AInv
  <2>6. \A t \in Threads : Ordered(calls'[t])
    BY <2>4, <2>5 DEF AudioInv, Threads
  <2>7. Joined("ui", currentId, 1, chunk)
    BY <1>1, <1>5, <2>2, <2>3, <2>4, <2>5 DEF Holds, Threads, Joined
  <2>8. fate[currentId] = "active"
    BY <1>7 DEF AInv, FateInv, Active
  <2>9. chunk = [of |-> spoken.recording, n |-> spoken.count + 1]
    BY DEF chunk
  <2> QED
    BY <1>1, <1>2, <2>6, <2>7, <2>8, <2>9, FreshKeeps
<1> QED
  BY <1>6, <1>7

\* The worker takes over the queue.
LEMMA FlushMoves ==
  ASSUME AInv, AudioInv, Step, FlushQueuedAudioChunks
  PROVE  AudioInv'
<1>1. /\ InCall("worker", "flush") /\ Go("worker", Flushing(currentId, queue)) /\ queue' = <<>>
      /\ UNCHANGED <<spoken, fate, toServer, received>>
  BY DEF FlushQueuedAudioChunks, netVars
<1> DEFINE list == Flushing(currentId, queue)
           call == [call |-> "flushing", session |-> currentId, chunks |-> queue]
<1>2. list \in Seq(Calls)
  BY CurrentId, FlushingFacts DEF AInv, StateOK
<1>3. call.call = "flushing" /\ call.session = currentId /\ call.chunks = queue
  OBVIOUS
<1>4. list = <<>> \/ list = <<call>>
  BY DEF Flushing
<1> HIDE DEF call
<1>5. Len(<<call>>) = 1 /\ <<call>>[1] = call /\ Len(<<>>) = 0 /\ 1..0 = {}
  OBVIOUS
<1>6. /\ Ordered(list) /\ (\A s, c : ~Sending(list, s, c))
      /\ \A s, i, c : Flushed(list, s, i, c) => s = currentId /\ Waiting(queue, i, c)
  <2>1. CASE list = <<>>
    BY <1>5, <2>1 DEF Ordered, Sending, Flushed
  <2>2. CASE list = <<call>>
    BY <1>3, <1>5, <2>2 DEF Ordered, Sending, Flushed, Waiting
  <2> QED
    BY <1>4, <2>1, <2>2
<1>7. Go("worker", list)
  BY <1>1
<1> HIDE DEF list
<1>8. calls'["worker"] = list /\ calls'["ui"] = calls["ui"]
  BY <1>2, <1>7, WorkerReady, GoFacts DEF AInv, Threads
<1>9. \A i, c : ~Waiting(queue', i, c)
  BY <1>1, QuietFacts
<1>10. \A x, s, i, c : Holds(x, s, i, c)' =>
         \/ x = "flush" /\ s = currentId /\ Holds("queue", NoId, i, c)
         \/ x \notin {"flush", "queue"} /\ Holds(x, s, i, c)
  BY <1>1, <1>6, <1>8, <1>9 DEF Holds, Threads
<1>11. Alone'
  <2> SUFFICES ASSUME NEW x, NEW y, NEW s, NEW t, NEW i, NEW j, NEW c, c # NoAudio,
                      Holds(x, s, i, c)', Holds(y, t, j, c)'
               PROVE  x = y /\ s = t /\ i = j
    BY DEF Alone
  <2>1. \/ x = "flush" /\ s = currentId /\ Holds("queue", NoId, i, c)
        \/ x \notin {"flush", "queue"} /\ Holds(x, s, i, c)
    BY <1>10
  <2>2. \/ y = "flush" /\ t = currentId /\ Holds("queue", NoId, j, c)
        \/ y \notin {"flush", "queue"} /\ Holds(y, t, j, c)
    BY <1>10
  <2> QED
    BY <2>1, <2>2 DEF AudioInv, Alone
<1>12. currentId \in SessionIds => fate[currentId] = "active"
  BY IdFacts DEF AInv, FateInv, StateOK, Active
<1>13. OneRecording'
  <2> SUFFICES ASSUME NEW x, NEW y, NEW s, NEW i, NEW j, NEW c, NEW d,
                      s \in SessionIds, c # NoAudio, d # NoAudio,
                      Holds(x, s, i, c)', Holds(y, s, j, d)'
               PROVE  c.of = d.of
    BY DEF OneRecording
  <2>1. \/ s = currentId /\ Holds("queue", NoId, i, c)
        \/ Holds(x, s, i, c)
    BY <1>10
  <2>2. \/ s = currentId /\ Holds("queue", NoId, j, d)
        \/ Holds(y, s, j, d)
    BY <1>10
  <2>3. CASE s = currentId
    BY <1>12, <2>1, <2>2, <2>3 DEF AudioInv, Recorded
  <2>4. CASE s # currentId
    BY <2>1, <2>2, <2>4 DEF AudioInv, OneRecording
  <2> QED
    BY <2>3, <2>4
<1>14. Recorded'
  <2> SUFFICES ASSUME NEW x, NEW s, NEW i, NEW c, c # NoAudio, Holds(x, s, i, c)'
               PROVE  /\ c.of \in SessionIds /\ fate[c.of] # "unused"
                      /\ c.of = spoken.recording => c.n <= spoken.count
                      /\ x = "queue" => c.of = spoken.recording
                      /\ s \in SessionIds =>
                           fate[s] # "unused" /\ (fate[s] = "active" => c.of = spoken.recording)
    BY <1>1 DEF Recorded
  <2>1. CASE x = "flush" /\ s = currentId /\ Holds("queue", NoId, i, c)
    BY <1>12, <2>1 DEF AudioInv, Recorded
  <2>2. CASE x \notin {"flush", "queue"} /\ Holds(x, s, i, c)
    BY <2>2 DEF AudioInv, Recorded
  <2> QED
    BY <1>10, <2>1, <2>2
<1>15. SpokenOK' /\ \A s, i : ~Holds("service", s, i, NoAudio)'
  BY <1>1 DEF AudioInv, SpokenOK, Holds, Threads
<1>16. \A t \in Threads : Ordered(calls'[t])
  BY <1>6, <1>8 DEF AudioInv, Threads
<1> QED
  BY <1>11, <1>13, <1>14, <1>15, <1>16 DEF AudioInv

\* A sequence and one element more, or none.
LEMMA LongerBy ==
  ASSUME NEW S, NEW list \in Seq(S), NEW e \in S
  PROVE  /\ list \o <<e>> \in Seq(S) /\ Len(list \o <<e>>) = Len(list) + 1
         /\ list # <<>> => (list \o <<e>>) # <<>> /\ (list \o <<e>>)[1] = list[1]
         /\ \A i \in 1..Len(list \o <<e>>) :
              \/ i \in 1..Len(list) /\ (list \o <<e>>)[i] = list[i]
              \/ i = Len(list) + 1 /\ (list \o <<e>>)[i] = e
         /\ list \o <<>> = list
OBVIOUS

\* The worker takes the first chunk of its list.
LEMMA FlushChunkMoves ==
  ASSUME AInv, AudioInv, Step, FlushChunk
  PROVE  AudioInv'
<1> DEFINE old == calls["worker"]
<1>1. /\ old \in Seq(Calls) /\ old # <<>> /\ Head(old) = old[1] /\ 1 \in 1..Len(old)
      /\ old[1] \in Calls /\ old[1].call = "flushing"
  BY WorkerReady, InCallFacts DEF FlushChunk, AInv
<1>2. PICK s0 \in Ids, chunks \in Seq(Queued) :
        s0 = old[1].session /\ chunks = old[1].chunks /\ chunks # <<>>
  BY <1>1, FlushingType
<1>3. /\ Head(chunks) = chunks[1] /\ 1 \in 1..Len(chunks) /\ chunks[1] \in Queued
      /\ Tail(chunks) \in Seq(Queued)
      /\ \A i \in 1..Len(Tail(chunks)) :
           i \in Nat \ {0} /\ i + 1 \in 1..Len(chunks) /\ Tail(chunks)[i] = chunks[i + 1]
  BY <1>2, QueueTail
<1> DEFINE frame == Task(s0, chunks[1].chunk)
           sending == <<Send(frame)>> \o FinishAfter(chunks[1].last)
           more == Flushing(s0, Tail(chunks))
           call == [call |-> "flushing", session |-> s0, chunks |-> Tail(chunks)]
           rest == sending \o more
<1>4. Go("worker", rest) /\ UNCHANGED <<spoken, fate, queue, toServer, received>>
  BY <1>1, <1>2, <1>3 DEF FlushChunk, stateVars, sessionVars, netVars
<1>5. frame \in Frames /\ \A s, c : Carries(frame, s, c) => s = s0 /\ c = chunks[1].chunk
  BY <1>2, <1>3, FrameTypes DEF Queued, Carries, Task
<1>6. call.call = "flushing" /\ call.session = s0 /\ call.chunks = Tail(chunks)
  OBVIOUS
<1>7. more = <<>> \/ (more = <<call>> /\ call \in Calls)
  BY <1>3 DEF Flushing, Calls
<1> HIDE DEF frame, call, old
<1>8. /\ Ordered(sending) /\ sending \in Seq(Calls) /\ sending # <<>>
      /\ \A s, c : Sending(sending, s, c) => Carries(frame, s, c)
      /\ \A i \in 1..Len(sending) : sending[i].call # "flushing"
  BY <1>5, SendingOne
<1> HIDE DEF sending, more
<1>9. /\ rest \in Seq(Calls) /\ Ordered(rest)
      /\ \A s, c : Sending(rest, s, c) => s = s0 /\ c = chunks[1].chunk
      /\ \A s, i, c : Flushed(rest, s, i, c) =>
           s = s0 /\ i \in Nat \ {0} /\ Flushed(old, s0, i + 1, c)
  <2>1. CASE more = <<>>
    <3>1. rest = sending
      BY <1>8, <2>1
    <3>2. \A s, i, c : ~Flushed(sending, s, i, c)
      BY <1>8 DEF Flushed
    <3> QED
      BY <1>5, <1>8, <3>1, <3>2
  <2>2. CASE more = <<call>> /\ call \in Calls
    <3> DEFINE new == sending \o <<call>>
    <3>1. /\ new \in Seq(Calls) /\ Len(new) = Len(sending) + 1 /\ new # <<>> /\ new[1] = sending[1]
          /\ \A i \in 1..Len(new) : \/ i \in 1..Len(sending) /\ new[i] = sending[i]
                                    \/ i = Len(new) /\ new[i] = call
          /\ Len(sending) \in Nat
      BY <1>8, <2>2, LongerBy
    <3> HIDE DEF new
    <3>2. Ordered(new)
      BY <1>6, <1>8, <3>1 DEF Ordered
    <3>3. \A s, c : Sending(new, s, c) => s = s0 /\ c = chunks[1].chunk
      BY <1>5, <1>8, <3>1 DEF Sending
    <3>4. ASSUME NEW s, NEW i, NEW c, Flushed(new, s, i, c)
          PROVE  s = s0 /\ i \in Nat \ {0} /\ Flushed(old, s0, i + 1, c)
      <4>1. PICK j \in 1..Len(new) :
              /\ new[j].call = "flushing" /\ new[j].session = s
              /\ i \in 1..Len(new[j].chunks) /\ new[j].chunks[i].chunk = c
        BY <3>4 DEF Flushed
      <4>2. new[j] = call
        BY <1>8, <3>1, <4>1
      <4>3. s = s0 /\ i \in 1..Len(Tail(chunks)) /\ Tail(chunks)[i].chunk = c
        BY <1>6, <4>1, <4>2
      <4>4. i \in Nat \ {0} /\ i + 1 \in 1..Len(chunks) /\ chunks[i + 1].chunk = c
        BY <1>3, <4>3
      <4>5. Flushed(old, s0, i + 1, c)
        BY <1>1, <1>2, <4>4 DEF Flushed
      <4> QED
        BY <4>3, <4>4, <4>5
    <3>5. rest = new
      BY <2>2 DEF new
    <3> QED
      BY <3>1, <3>2, <3>3, <3>4, <3>5
  <2> QED
    BY <1>7, <2>1, <2>2
<1> HIDE DEF rest
<1>10. calls'["worker"] = rest /\ calls'["ui"] = calls["ui"]
  BY <1>4, <1>9, WorkerReady, GoFacts DEF AInv, Threads
<1>11. \A c : c = chunks[1].chunk => Holds("flush", s0, 1, c)
  BY <1>1, <1>2, <1>3 DEF Holds, Flushed, old
<1>12. \A x, s, i, c : Holds(x, s, i, c)' =>
         \/ x \notin {"flush", "worker"} /\ Holds(x, s, i, c)
         \/ x = "worker" /\ Holds("flush", s, 1, c)
         \/ x = "flush" /\ i \in Nat \ {0} /\ Holds("flush", s, i + 1, c)
  BY <1>4, <1>9, <1>10, <1>11 DEF Holds, Threads, old
<1>13. \A i, j : i \in Nat \ {0} /\ j \in Nat \ {0} /\ i + 1 = j + 1 => i = j
  OBVIOUS
<1>14. \A i : i \in Nat \ {0} => i + 1 # 1
  OBVIOUS
<1>15. \A x, s, i, c : x = "worker" /\ Holds(x, s, i, c)' => i = 1
  BY DEF Holds, Threads
<1>16. Alone'
  <2> SUFFICES ASSUME NEW x, NEW y, NEW s, NEW t, NEW i, NEW j, NEW c, c # NoAudio,
                      Holds(x, s, i, c)', Holds(y, t, j, c)'
               PROVE  x = y /\ s = t /\ i = j
    BY DEF Alone
  <2>1. \/ x \notin {"flush", "worker"} /\ Holds(x, s, i, c)
        \/ x = "worker" /\ i = 1 /\ Holds("flush", s, 1, c)
        \/ x = "flush" /\ i \in Nat \ {0} /\ Holds("flush", s, i + 1, c)
    BY <1>12, <1>15
  <2>2. \/ y \notin {"flush", "worker"} /\ Holds(y, t, j, c)
        \/ y = "worker" /\ j = 1 /\ Holds("flush", t, 1, c)
        \/ y = "flush" /\ j \in Nat \ {0} /\ Holds("flush", t, j + 1, c)
    BY <1>12, <1>15
  <2> QED
    BY <1>13, <1>14, <2>1, <2>2 DEF AudioInv, Alone
<1>17. OneRecording' /\ Recorded' /\ SpokenOK'
  <2>1. ASSUME NEW x, NEW s, NEW i, NEW c, Holds(x, s, i, c)'
        PROVE  \E y, j : Holds(y, s, j, c) /\ (x = "queue" => y = "queue")
    BY <1>12, <2>1
  <2> QED
    BY <1>4, <2>1, Carried DEF AudioInv, AInv
<1>18. \A t \in Threads : Ordered(calls'[t])
  BY <1>9, <1>10 DEF AudioInv, Threads
<1>19. \A s, i : ~Holds("service", s, i, NoAudio)'
  BY <1>4 DEF AudioInv, Holds, Threads
<1> QED
  BY <1>16, <1>17, <1>18, <1>19 DEF AudioInv

\* A frame leaves a thread's hand.
LEMMA FrameMoves ==
  ASSUME AInv, AudioInv, Step, NEW t0 \in Threads, FrameSent(t0)
  PROVE  AudioInv'
<1> DEFINE frame == Head(calls[t0]).frame
<1>1. /\ InCall(t0, "send") /\ Return(t0) /\ UNCHANGED <<spoken, fate, queue, received>>
      /\ toServer' = toServer \/ toServer' = Append(toServer, frame)
  BY DEF FrameSent, Sent, stateVars, sessionVars
<1>2. CASE toServer' = toServer
  BY <1>1, <1>2, ReturnKeeps
<1>3. CASE toServer' = Append(toServer, frame)
  <2>1. /\ calls[t0] \in Seq(Calls) /\ calls[t0] # <<>> /\ Tail(calls[t0]) \in Seq(Calls)
        /\ Head(calls[t0]) = calls[t0][1] /\ calls[t0][1].call = "send"
    BY <1>1, InCallFacts DEF AInv
  <2>2. /\ Less(Tail(calls[t0]), calls[t0])
        /\ \A s, c : ~Sending(Tail(calls[t0]), s, c)
    <3>1. /\ Less(Tail(calls[t0]), calls[t0])
          /\ \A i \in 1..Len(Tail(calls[t0])) : Tail(calls[t0])[i].call # "send"
      BY <2>1, LessTail DEF AudioInv
    <3>2. Tail(calls[t0]) # <<>> => 1 \in 1..Len(Tail(calls[t0]))
      BY <2>1, QueueTail
    <3> QED
      BY <3>1, <3>2 DEF Sending
  <2>3. Go(t0, Tail(calls[t0]))
    BY <1>1 DEF Return
  <2>4. calls'[t0] = Tail(calls[t0]) /\ \A u \in Threads : u # t0 => calls'[u] = calls[u]
    BY <2>1, <2>3, GoFacts DEF AInv
  <2>5. \A u \in Threads : Less(calls'[u], calls[u])
    BY <2>1, <2>2, <2>3, GoLess DEF AInv, AudioInv
  <2>6. \A s, i, c : OnWay(toServer', s, i, c) =>
          OnWay(toServer, s, i, c) \/ (i = Len(toServer) + 1 /\ Holds(t0, s, 1, c))
    <3>1. \A i \in 1..Len(Append(toServer, frame)) :
            \/ i \in 1..Len(toServer) /\ Append(toServer, frame)[i] = toServer[i]
            \/ i = Len(toServer) + 1 /\ Append(toServer, frame)[i] = frame
      <4>1. toServer \in Seq(Frames)
        BY DEF AInv, NetOK
      <4> QED
        BY <4>1
    <3>2. \A s, c : Carries(frame, s, c) => Holds(t0, s, 1, c)
      BY <2>1 DEF Holds, Sending
    <3> QED
      BY <1>3, <3>1, <3>2 DEF OnWay
  <2>7. "worker" \in Threads /\ t0 # "server" /\ t0 # "queue"
    BY DEF Threads
  <2>8. \A x, s, i, c : Holds(x, s, i, c)' =>
          \/ x # t0 /\ Holds(x, s, i, c)
          \/ x = "server" /\ i = Len(toServer) + 1 /\ Holds(t0, s, 1, c)
    <3> SUFFICES ASSUME NEW x, NEW s, NEW i, NEW c, Holds(x, s, i, c)'
                 PROVE  \/ x # t0 /\ Holds(x, s, i, c)
                        \/ x = "server" /\ i = Len(toServer) + 1 /\ Holds(t0, s, 1, c)
      OBVIOUS
    <3>1. CASE x = "queue"
      BY <1>1, <2>7, <3>1 DEF Holds, Threads
    <3>2. CASE x = "flush"
      BY <2>5, <2>7, <3>2 DEF Holds, Threads, Less
    <3>3. CASE x \in Threads
      <4>1. i = 1 /\ Sending(calls'[x], s, c)
        BY <3>3 DEF Holds, Threads
      <4>2. x # t0
        BY <2>2, <2>4, <4>1
      <4> QED
        BY <2>4, <3>3, <4>1, <4>2 DEF Holds
    <3>4. CASE x = "server"
      <4>1. OnWay(toServer', s, i, c)
        BY <3>4 DEF Holds, Threads
      <4> QED
        BY <2>6, <2>7, <3>4, <4>1 DEF Holds
    <3>5. CASE x = "service"
      BY <1>1, <3>5 DEF Holds, Threads
    <3> QED
      BY <3>1, <3>2, <3>3, <3>4, <3>5 DEF Holds
  <2>9. \A s, i, c : Holds("server", s, i, c) => i # Len(toServer) + 1
    <3>1. Len(toServer) \in Nat
      BY DEF AInv, NetOK
    <3> QED
      BY <3>1 DEF Holds, OnWay, Threads
  <2>10. Alone'
    <3> SUFFICES ASSUME NEW x, NEW y, NEW s, NEW t, NEW i, NEW j, NEW c, c # NoAudio,
                        Holds(x, s, i, c)', Holds(y, t, j, c)'
                 PROVE  x = y /\ s = t /\ i = j
      BY DEF Alone
    <3>1. \/ x # t0 /\ Holds(x, s, i, c)
          \/ x = "server" /\ i = Len(toServer) + 1 /\ Holds(t0, s, 1, c)
      BY <2>8
    <3>2. \/ y # t0 /\ Holds(y, t, j, c)
          \/ y = "server" /\ j = Len(toServer) + 1 /\ Holds(t0, t, 1, c)
      BY <2>8
    <3> QED
      BY <3>1, <3>2 DEF AudioInv, Alone
  <2>11. OneRecording' /\ Recorded' /\ SpokenOK'
    <3>1. ASSUME NEW x, NEW s, NEW i, NEW c, Holds(x, s, i, c)'
          PROVE  \E y, j : Holds(y, s, j, c) /\ (x = "queue" => y = "queue")
      BY <2>8, <3>1
    <3> QED
      BY <1>1, <3>1, Carried DEF AudioInv, AInv
  <2>12. \A u \in Threads : Ordered(calls'[u])
    BY <2>5 DEF Less
  <2>13. \A s, i : ~Holds("service", s, i, NoAudio)'
    BY <1>1 DEF AudioInv, Holds, Threads
  <2> QED
    BY <2>10, <2>11, <2>12, <2>13 DEF AudioInv
<1> QED
  BY <1>1, <1>2, <1>3

\* The service gets the first frame on its way.
LEMMA ServiceMoves ==
  ASSUME AInv, AudioInv, Step, Service
  PROVE  AudioInv'
<1>1. /\ toServer \in Seq(Frames) /\ toServer # <<>> /\ toServer' = Tail(toServer)
      /\ UNCHANGED <<spoken, fate, queue, calls>> /\ received \in [SessionIds -> Seq(Chunks)]
  BY DEF AInv, NetOK, Service, stateVars, sessionVars
<1> DEFINE f == toServer[1]
<1>2. /\ Head(toServer) = f /\ f \in Frames /\ 1 \in 1..Len(toServer)
      /\ \A i \in 1..Len(Tail(toServer)) :
           i \in Nat \ {0} /\ i + 1 \in 1..Len(toServer) /\ Tail(toServer)[i] = toServer[i + 1]
  BY <1>1, QueueTail
<1>3. \/ UNCHANGED received
      \/ /\ f.name = "task" /\ f.session \in SessionIds /\ f.chunk # NoAudio
         /\ received' = [received EXCEPT ![f.session] = Append(received[f.session], f.chunk)]
  <2>1. f.name = "task" /\ f.session # NoId => f.session \in SessionIds
    BY <1>2, TaskType DEF Ids
  <2> QED
    BY <1>2, <2>1 DEF Service
<1> HIDE DEF f
<1>4. \A s, c : Carries(f, s, c) => Holds("server", s, 1, c)
  BY <1>2 DEF Holds, OnWay, f
<1>5. \A s, i, c : s \in SessionIds /\ Arrived(received'[s], i, c) =>
        \/ Arrived(received[s], i, c)
        \/ i = Len(received[s]) + 1 /\ c # NoAudio /\ Holds("server", s, 1, c)
  <2>1. CASE UNCHANGED received
    BY <2>1
  <2>2. CASE /\ f.name = "task" /\ f.session \in SessionIds /\ f.chunk # NoAudio
             /\ received' = [received EXCEPT ![f.session] = Append(received[f.session], f.chunk)]
    <3> SUFFICES ASSUME NEW s \in SessionIds, NEW i, NEW c, Arrived(received'[s], i, c)
                 PROVE  \/ Arrived(received[s], i, c)
                        \/ i = Len(received[s]) + 1 /\ c # NoAudio /\ Holds("server", s, 1, c)
      OBVIOUS
    <3>1. CASE s # f.session
      BY <1>1, <2>2, <3>1
    <3>2. CASE s = f.session
      <4>1. received'[s] = Append(received[s], f.chunk) /\ received[s] \in Seq(Chunks)
        BY <1>1, <2>2, <3>2
      <4>2. \A k \in 1..Len(Append(received[s], f.chunk)) :
              \/ k \in 1..Len(received[s]) /\ Append(received[s], f.chunk)[k] = received[s][k]
              \/ k = Len(received[s]) + 1 /\ Append(received[s], f.chunk)[k] = f.chunk
        BY <4>1
      <4> QED
        BY <1>4, <2>2, <3>2, <4>1, <4>2 DEF Arrived, Carries
    <3> QED
      BY <3>1, <3>2
  <2> QED
    BY <1>3, <2>1, <2>2
<1>6. \A s, i, c : OnWay(toServer', s, i, c) => i \in Nat \ {0} /\ Holds("server", s, i + 1, c)
  BY <1>1, <1>2 DEF Holds, OnWay
<1>7. \A x, s, i, c : Holds(x, s, i, c)' =>
        \/ x # "server" /\ Holds(x, s, i, c)
        \/ x = "server" /\ i \in Nat \ {0} /\ Holds("server", s, i + 1, c)
        \/ x = "service" /\ i = Len(received[s]) + 1 /\ c # NoAudio /\ Holds("server", s, 1, c)
  BY <1>1, <1>5, <1>6 DEF Holds, Threads
<1>8. \A i, j : i \in Nat \ {0} /\ j \in Nat \ {0} /\ i + 1 = j + 1 => i = j
  OBVIOUS
<1>9. \A i : i \in Nat \ {0} => i + 1 # 1
  OBVIOUS
<1>10. Alone'
  <2> SUFFICES ASSUME NEW x, NEW y, NEW s, NEW t, NEW i, NEW j, NEW c, c # NoAudio,
                      Holds(x, s, i, c)', Holds(y, t, j, c)'
               PROVE  x = y /\ s = t /\ i = j
    BY DEF Alone
  <2>1. \/ x # "server" /\ Holds(x, s, i, c)
        \/ x = "server" /\ i \in Nat \ {0} /\ Holds("server", s, i + 1, c)
        \/ x = "service" /\ i = Len(received[s]) + 1 /\ Holds("server", s, 1, c)
    BY <1>7
  <2>2. \/ y # "server" /\ Holds(y, t, j, c)
        \/ y = "server" /\ j \in Nat \ {0} /\ Holds("server", t, j + 1, c)
        \/ y = "service" /\ j = Len(received[t]) + 1 /\ Holds("server", t, 1, c)
    BY <1>7
  <2> QED
    BY <1>8, <1>9, <2>1, <2>2 DEF AudioInv, Alone
<1>11. OneRecording' /\ Recorded' /\ SpokenOK'
  <2>1. ASSUME NEW x, NEW s, NEW i, NEW c, Holds(x, s, i, c)'
        PROVE  \E y, j : Holds(y, s, j, c) /\ (x = "queue" => y = "queue")
    BY <1>7, <2>1
  <2> QED
    BY <1>1, <2>1, Carried DEF AudioInv, AInv
<1>12. \A t \in Threads : Ordered(calls'[t])
  BY <1>1 DEF AudioInv
<1>13. \A s, i : ~Holds("service", s, i, NoAudio)'
  BY <1>7 DEF AudioInv
<1> QED
  BY <1>10, <1>11, <1>12, <1>13 DEF AudioInv

\* The caller turns to another recording, or to none: no session that is
\* active then has audio yet.
LEMMA TurnKeeps ==
  ASSUME AInv, AudioInv, Step, UNCHANGED received, queue' = <<>>,
         \A t \in Threads : Less(calls'[t], calls[t]),
         \A s, i, c : OnWay(toServer', s, i, c) => OnWay(toServer, s, i, c),
         \A s \in SessionIds : fate[s] # "unused" => fate'[s] # "active",
         \/ spoken' = Silence
         \/ /\ spoken'.recording \in SessionIds
            /\ fate[spoken'.recording] = "unused" /\ fate'[spoken'.recording] # "unused"
  PROVE  AudioInv'
<1>1. \A i, c : ~Waiting(queue', i, c)
  BY QuietFacts
<1>2. \A x, s, i, c : c # NoAudio /\ Holds(x, s, i, c)' => x # "queue" /\ Holds(x, s, i, c)
  BY <1>1, Fewer DEF Holds, Threads
<1>3. Silence.recording = NoId /\ Silence.last = TRUE /\ NoId \notin SessionIds
  BY IdFacts DEF Silence
<1>4. Alone' /\ OneRecording'
  BY <1>2 DEF AudioInv, Alone, OneRecording
<1>5. Recorded'
  <2> SUFFICES ASSUME NEW x, NEW s, NEW i, NEW c, c # NoAudio, Holds(x, s, i, c)'
               PROVE  /\ c.of \in SessionIds /\ fate'[c.of] # "unused"
                      /\ c.of # spoken'.recording
                      /\ x # "queue"
                      /\ s \in SessionIds => fate'[s] # "unused" /\ fate'[s] # "active"
    BY DEF Recorded
  <2>1. x # "queue" /\ Holds(x, s, i, c)
    BY <1>2
  <2>2. /\ c.of \in SessionIds /\ fate[c.of] # "unused"
        /\ s \in SessionIds => fate[s] # "unused"
    BY <2>1 DEF AudioInv, Recorded
  <2>3. c.of # spoken'.recording
    BY <1>3, <2>2
  <2> QED
    BY <2>1, <2>2, <2>3, FatesOn DEF AInv
<1>6. SpokenOK'
  BY <1>3 DEF SpokenOK
<1>7. \A t \in Threads : Ordered(calls'[t])
  BY DEF Less
<1>8. \A s, i : ~Holds("service", s, i, NoAudio)'
  BY DEF AudioInv, Holds, Threads
<1> QED
  BY <1>4, <1>5, <1>6, <1>7, <1>8 DEF AudioInv

LEMMA StartTurns ==
  ASSUME AInv, AudioInv, Step, Start
  PROVE  AudioInv'
<1>1. NextId \in SessionIds /\ fate[NextId] = "unused"
  BY NextIdFacts DEF Start
<1>2. \A s \in SessionIds : fate[s] # "active"
  BY UiIdle, IdFacts DEF Start, AInv, StateOK
<1>3. /\ fate' = [fate EXCEPT ![NextId] = "active"] /\ spoken'.recording = NextId
      /\ UNCHANGED <<toServer, received>> /\ queue' = <<>>
  BY DEF Start, netVars, QueueAtStart
<1>4. fate'[NextId] = "active" /\ \A s \in SessionIds : s # NextId => fate'[s] = fate[s]
  BY <1>1, <1>3 DEF AInv, FateInv
<1> DEFINE send == Send(Frame("start", NextId))
           shut == Call("shutdown")
           again == Call("restart")
<1>5. /\ send \in Calls /\ shut \in Calls /\ again \in Calls
      /\ Silent(send) /\ Silent(shut) /\ Silent(again) /\ again.call = "restart"
  BY <1>1, SilentOnes, CallTypes
<1>6. PICK rest \in {<<send>>, <<>>, <<shut, again>>} : Go("ui", rest)
  BY DEF Start
<1> HIDE DEF send, shut, again
<1>7. rest \in Seq(Calls) /\ Less(rest, calls["ui"])
  <2>1. CASE rest \in {<<send>>, <<>>}
    BY <1>5, <2>1, LessOne, LessNone, QueueOne, QueueNone
  <2>2. CASE rest = <<shut, again>>
    <3>1. <<shut>> \o <<again>> = <<shut, again>> /\ <<shut, again>> \in Seq(Calls)
      BY <1>5, CallPairs
    <3>2. <<again>> \in Seq(Calls) /\ \A i \in 1..Len(<<again>>) : <<again>>[i].call # "send"
      BY <1>5, QueueOne
    <3>3. Less(<<again>>, calls["ui"])
      BY <1>5, LessOne
    <3> DEFINE one == <<again>>
    <3> HIDE DEF one
    <3>4. Less(<<shut>> \o one, calls["ui"])
      BY <1>5, <3>2, <3>3, LessThen DEF one
    <3> QED
      BY <2>2, <3>1, <3>4 DEF one
  <2> QED
    BY <2>1, <2>2
<1>8. \A t \in Threads : Less(calls'[t], calls[t])
  BY <1>6, <1>7, UiFacts, GoLess DEF AInv, AudioInv
<1>9. \A s, i, c : OnWay(toServer', s, i, c) => OnWay(toServer, s, i, c)
  BY <1>3
<1>10. \A s \in SessionIds : fate[s] # "unused" => fate'[s] # "active"
  BY <1>1, <1>2, <1>4
<1> QED
  BY <1>1, <1>3, <1>4, <1>8, <1>9, <1>10, TurnKeeps

LEMMA CancelTurns ==
  ASSUME AInv, AudioInv, Step, CancelReusableSession
  PROVE  AudioInv'
<1>1. /\ spoken' = Silence /\ queue' = <<>> /\ UNCHANGED <<calls, received>>
      /\ calls["ui"] = <<>> /\ fate' = Ended("cancelled")
  BY DEF CancelReusableSession, ClearSession
<1>2. \A t \in Threads : Less(calls'[t], calls[t])
  BY <1>1, LessSame DEF AudioInv
<1>3. \A s, i, c : OnWay(toServer', s, i, c) => OnWay(toServer, s, i, c)
  <2>1. CASE toServer' = toServer
    BY <2>1
  <2>2. CASE Active /\ toServer' = Append(toServer, Frame("cancel", currentId))
    <3>1. Frame("cancel", currentId) \in Frames /\ Frame("cancel", currentId).name # "task"
      BY <2>2, CurrentId, FrameTypes, SilentCalls
    <3> QED
      BY <2>2, <3>1, QuietFacts
  <2> QED
    BY <2>1, <2>2 DEF CancelReusableSession, Sent
<1>4. \A s \in SessionIds : fate'[s] # "active"
  <2>1. \A s \in SessionIds : fate[s] = "active" => s = currentId
    <3>1. calls["ui"] # <<Call("restart")>>
      BY <1>1
    <3> QED
      BY <3>1 DEF AInv, FateInv
  <2>2. CASE Active
    BY <1>1, <2>1, <2>2, CurrentId DEF Ended, AInv, FateInv
  <2>3. CASE ~Active
    <3>1. currentId \notin SessionIds
      BY <2>3, IdFacts DEF Active, AInv, StateOK
    <3> QED
      BY <1>1, <2>1, <2>3, <3>1 DEF Ended
  <2> QED
    BY <2>2, <2>3
<1> QED
  BY <1>1, <1>2, <1>3, <1>4, TurnKeeps

LEMMA InitAudio == Init => AudioInv
<1> SUFFICES ASSUME Init PROVE AudioInv
  OBVIOUS
<1>1. /\ queue = <<>> /\ toServer = <<>> /\ \A t \in Threads : calls[t] = <<>>
      /\ \A s \in SessionIds : received[s] = <<>>
      /\ spoken = Silence /\ "worker" \in Threads
  BY UiFacts DEF Init
<1>2. Len(<<>>) = 0 /\ 1..0 = {}
  OBVIOUS
<1>3. \A x, s, i, c : ~Holds(x, s, i, c)
  BY <1>1, <1>2 DEF Holds, Waiting, Flushed, Sending, OnWay, Arrived
<1>4. SpokenOK
  BY <1>1, IdFacts DEF SpokenOK, Silence
<1>5. \A t \in Threads : Ordered(calls[t])
  BY <1>1, <1>2 DEF Ordered
<1> QED
  BY <1>3, <1>4, <1>5 DEF AudioInv, Alone, OneRecording, Recorded

LEMMA AudioStep ==
  ASSUME AInv, AudioInv, [Next]_vars
  PROVE  AudioInv'
<1>1. Step
  BY NextAInv
<1>2. CASE UiStep
  BY <1>1, <1>2, UiFacts, FrameMoves, EndQuiet, ReturnQuiet, FinishQuiet, ShutdownQuiet
     DEF UiStep, EitherThread
<1>3. CASE Caller
  BY <1>1, <1>3, StartTurns, SendAudioMoves, CancelTurns DEF Caller
<1>4. CASE WorkerStep
  BY <1>1, <1>4, UiFacts, FrameMoves, EndQuiet, ReturnQuiet, FinishQuiet, WorkerQuiet, FlushMoves,
     FlushChunkMoves DEF WorkerStep, EitherThread
<1>5. CASE Service
  BY <1>1, <1>5, ServiceMoves
<1>6. CASE Fault
  BY <1>1, <1>6, FaultQuiet
<1>7. CASE UNCHANGED vars
  <2>1. UNCHANGED <<spoken, received, queue, toServer, calls>>
    BY <1>7 DEF vars, stateVars, sessionVars, netVars
  <2>2. \A t \in Threads : Less(calls'[t], calls[t])
    BY <2>1, LessSame DEF AudioInv
  <2> QED
    BY <1>1, <2>1, <2>2, FewerKeeps
<1> QED
  BY <1>2, <1>3, <1>4, <1>5, <1>6, <1>7 DEF Next

(* The service gets the audio of one recording in a session, and no chunk  *)
(* twice, in one session or in two, although an ended session leaves the   *)
(* queue to whatever chunks still come and the worker takes queue and      *)
(* session id after the mutex was released (asr_client_win.cc:298).        *)
THEOREM AudioStaysItsOwn == Spec => []AudioOfItsOwn
<1>1. Spec => []AudioInv
  BY InitAudio, AudioStep, ClientInvariance, PTL DEF Spec
<1>2. AInv /\ AudioInv => AudioOfItsOwn
  <2> SUFFICES ASSUME AInv, AudioInv,
                      NEW s \in SessionIds, NEW t \in SessionIds,
                      NEW i \in DOMAIN received[s], NEW j \in DOMAIN received[t]
               PROVE  IF s = t THEN /\ received[s][i].of = received[s][j].of
                                    /\ received[s][i] = received[s][j] => i = j
                               ELSE received[s][i] # received[t][j]
    BY DEF AudioOfItsOwn
  <2>1. i \in 1..Len(received[s]) /\ j \in 1..Len(received[t])
    BY DEF AInv, NetOK
  <2>2. Holds("service", s, i, received[s][i]) /\ Holds("service", t, j, received[t][j])
    BY <2>1 DEF Holds, Arrived
  <2>3. received[s][i] # NoAudio /\ received[t][j] # NoAudio
    BY <2>2 DEF AudioInv
  <2> QED
    BY <2>2, <2>3 DEF AudioInv, Alone, OneRecording
<1> QED
  BY <1>1, <1>2, ClientInvariance, PTL
=============================================================================
