---------------------------- MODULE AsrClientWin ----------------------------
(***************************************************************************)
(* The Windows ASR client: recognition sessions over one reusable          *)
(* WebSocket.  The UI thread starts, feeds and cancels sessions; a worker  *)
(* thread owns the connection and runs the callbacks; a mutex guards the   *)
(* state but is released before every callback and between most sends.     *)
(* An action is one stretch of a thread under the mutex, or one call made  *)
(* without it.                                                             *)
(***************************************************************************)
EXTENDS Integers, Sequences

CONSTANTS MaxSessions,  \* session ids generated
          MaxChunks,    \* Ogg chunks of a recording up to its last; one more may follow
          MaxFaults     \* times the connection or the service fails

ASSUME BoundsAssumption ==
  MaxSessions \in Nat \ {0} /\ MaxChunks \in Nat \ {0} /\ MaxFaults \in Nat

SessionIds == 1..MaxSessions
NoId == 0                        \* the empty session id, and the empty text
Threads == {"ui", "worker"}
NoAudio == [of |-> NoId, n |-> 0]

VARIABLES
  connectionState, sessionState, websocket, cancelled,
  currentId,   \* current_session_id_
  transcript,  \* latest_session_transcript_, as the session it is of
  queue,       \* queued_audio_chunks_
  worker,      \* where the worker thread is; joinable unless "none"
  calls,       \* calls[t]: what thread t has yet to do of the call it is in
  spoken,      \* what the caller gave since its last Start: that recording,
               \* the number of its chunks so far, and whether the last is among them
  link,        \* the WebSocket's connection
  toServer, toClient,
  faults,
  received,    \* received[s]: the chunks the service got for session s
  fate, told   \* history: see AsrOutcomes

sessionVars == <<sessionState, currentId, transcript, queue>>
stateVars == <<connectionState, websocket, cancelled, sessionVars>>
netVars   == <<link, toServer, toClient, faults, received>>
vars == <<stateVars, worker, calls, spoken, netVars, fate, told>>

Silence == [recording |-> NoId, count |-> 0, last |-> TRUE]

Init ==
  /\ connectionState = "disconnected" /\ sessionState = "idle"
  /\ websocket = FALSE /\ cancelled = FALSE
  /\ currentId = NoId /\ transcript = NoId /\ queue = <<>>
  /\ worker = "none" /\ calls = [t \in Threads |-> <<>>] /\ spoken = Silence
  /\ link = "closed" /\ toServer = <<>> /\ toClient = <<>> /\ faults = 0
  /\ received = [s \in SessionIds |-> <<>>]
  /\ fate = [s \in SessionIds |-> "unused"] /\ told = {}

-----------------------------------------------------------------------------
\* The calls a thread has left, and the frames it sends.
Call(name)        == [call |-> name]
Send(frame)       == [call |-> "send", frame |-> frame]
FailUnless(was)   == [call |-> "failed", was |-> was]
Tell(s, text)     == [call |-> "tell", session |-> s, text |-> text]
Flushing(s, chunks) ==
  IF chunks = <<>> THEN <<>>
  ELSE <<[call |-> "flushing", session |-> s, chunks |-> chunks]>>
Frame(name, s)    == [name |-> name, session |-> s]
Task(s, chunk)    == [name |-> "task", session |-> s, chunk |-> chunk]

InCall(t, name) == calls[t] # <<>> /\ Head(calls[t]).call = name
Go(t, rest)     == calls' = [calls EXCEPT ![t] = rest]
Return(t)       == Go(t, Tail(calls[t]))

Active == sessionState # "idle"

\* What follows the chunk just sent.
FinishForgotten(last) == <<>>
FinishAfter(last) == IF last THEN <<Call("finish")>> ELSE <<>>

ClearSession ==
  /\ sessionState' = "idle"
  /\ currentId' = NoId /\ transcript' = NoId
  /\ queue' = <<>>

Disconnect == connectionState' = "disconnected" /\ websocket' = FALSE

\* The current session, if there is one, ends so.
Ended(end) == IF Active THEN [fate EXCEPT ![currentId] = end] ELSE fate

\* WinHttpWebSocketSend: after a break it fails, or the frame is lost.
Sent(frame) == toServer' = IF link = "open" THEN Append(toServer, frame) ELSE toServer

-----------------------------------------------------------------------------
\* SendReusableFrameOrFail, on either thread.  A failure ends every caller.
FrameSent(t) ==
  /\ InCall(t, "send")
  /\ websocket
  /\ Sent(Head(calls[t]).frame)
  /\ Return(t)
  /\ UNCHANGED <<stateVars, worker, spoken, link, toClient, faults, received, fate, told>>

FrameFailed(t) ==
  /\ InCall(t, "send")
  /\ ~websocket \/ link # "open"
  /\ LET notify  == ~cancelled /\ Active
         refused == t = "ui" /\ Head(calls[t]).frame.name = "start"
     IN  /\ Go(t, IF notify THEN <<Tell(currentId, NoId)>> ELSE <<>>)
         /\ fate' = Ended(IF notify THEN "error" ELSE IF refused THEN "refused" ELSE "silent")
  /\ cancelled' = TRUE
  /\ ClearSession
  /\ Disconnect
  /\ UNCHANGED <<worker, spoken, netVars, told>>

\* FailReusableSession marks the client cancelled before it takes the mutex.
FailReusableSession ==
  /\ InCall("worker", "fail")
  /\ Go("worker", <<FailUnless(cancelled)>>)
  /\ cancelled' = TRUE
  /\ UNCHANGED <<connectionState, websocket, sessionVars, worker, spoken, netVars, fate, told>>

FailLocked ==
  /\ InCall("worker", "failed")
  /\ LET notify == ~Head(calls["worker"]).was /\ Active
     IN  /\ Go("worker", IF notify THEN <<Tell(currentId, NoId)>> ELSE <<>>)
         /\ fate' = Ended(IF notify THEN "error" ELSE "silent")
  /\ ClearSession
  /\ Disconnect
  /\ UNCHANGED <<cancelled, worker, spoken, netVars, told>>

\* on_final or on_error runs, on the thread that met the end.
Callback(t) ==
  /\ InCall(t, "tell")
  /\ told' = told \cup {Head(calls[t]).session}
  /\ Return(t)
  /\ UNCHANGED <<stateVars, worker, spoken, netVars, fate>>

FinishReusableSessionIfNeeded(t) ==
  /\ InCall(t, "finish")
  /\ \/ /\ sessionState = "starting"
        /\ queue' = IF \E i \in DOMAIN queue : queue[i].last THEN queue
                    ELSE Append(queue, [chunk |-> NoAudio, last |-> TRUE])
        /\ Return(t)
        /\ UNCHANGED sessionState
     \/ /\ sessionState = "streaming"
        /\ sessionState' = "finishing"
        /\ Go(t, <<Send(Frame("finish", currentId))>> \o Tail(calls[t]))
        /\ UNCHANGED queue
     \/ /\ sessionState \in {"idle", "finishing"}
        /\ Return(t)
        /\ UNCHANGED <<sessionState, queue>>
  /\ UNCHANGED <<connectionState, websocket, cancelled, currentId, transcript, worker, spoken,
                 netVars, fate, told>>

EitherThread(t) ==
  FrameSent(t) \/ FrameFailed(t) \/ Callback(t) \/ FinishReusableSessionIfNeeded(t)

-----------------------------------------------------------------------------
\* The UI thread

Unused == {s \in SessionIds : fate[s] = "unused"}
NextId == CHOOSE s \in Unused : TRUE   \* random in the code

\* What Start leaves of the chunks that came after the last session's end.
QueueKept == queue
QueueAtStart == <<>>

\* Start, up to the end of its first stretch under the mutex.  The second
\* unused id is for StartWorker.
Start ==
  /\ calls["ui"] = <<>>
  /\ sessionState = "idle"
  /\ \E s, t \in Unused : s # t
  /\ currentId' = NextId /\ transcript' = NoId /\ queue' = QueueAtStart
  /\ sessionState' = "starting"
  /\ fate' = [fate EXCEPT ![NextId] = "active"]
  /\ spoken' = [recording |-> NextId, count |-> 0, last |-> FALSE]
  /\ Go("ui", CASE connectionState = "ready" /\ websocket -> <<Send(Frame("start", NextId))>>
                [] connectionState = "connecting" /\ worker # "none" -> <<>>
                [] OTHER -> <<Call("shutdown"), Call("restart")>>)
  /\ UNCHANGED <<connectionState, websocket, cancelled, worker, netVars, told>>

ShutdownReusableConnection ==
  /\ InCall("ui", "shutdown")
  /\ cancelled' = TRUE
  /\ Go("ui", <<Call("close")>> \o Tail(calls["ui"]))
  /\ UNCHANGED <<connectionState, websocket, sessionVars, worker, spoken, netVars, fate, told>>

CloseConnection ==
  /\ InCall("ui", "close")
  /\ IF websocket /\ connectionState = "ready" THEN Sent(Frame("disconnect", NoId))
                                               ELSE UNCHANGED toServer
  /\ link' = IF websocket /\ link = "open" THEN "closing" ELSE link
  /\ websocket' = (websocket /\ worker # "none")
  /\ ClearSession
  /\ connectionState' = "disconnected"
  /\ Return("ui")
  /\ UNCHANGED <<cancelled, worker, spoken, toClient, faults, received, fate, told>>

\* The worker is joined and another started; a session id generated before
\* the shutdown is generated again, unless an error has been reported for it.
StartWorker ==
  /\ InCall("ui", "restart")
  /\ worker \in {"none", "exited"}
  /\ LET open == {s \in SessionIds : fate[s] = "active"}
         id   == IF open # {} THEN CHOOSE s \in open : TRUE ELSE NextId
     IN  /\ currentId' = id
         /\ fate' = [fate EXCEPT ![id] = "active"]
  /\ sessionState' = "starting"
  /\ connectionState' = "connecting"
  /\ cancelled' = FALSE
  /\ worker' = "opening"
  /\ link' = "closed" /\ toServer' = <<>> /\ toClient' = <<>>
  /\ Return("ui")
  /\ UNCHANGED <<websocket, transcript, queue, spoken, faults, received, told>>

\* SendOggOpusChunk, up to the end of its stretch under the mutex.  One chunk
\* is the last, but the subtitles' coordinator hands over what comes after it.
SendReusableAudio(last) ==
  /\ calls["ui"] = <<>>
  /\ spoken.recording # NoId
  /\ IF spoken.last THEN ~last /\ spoken.count <= MaxChunks
                    ELSE spoken.count + 1 = MaxChunks => last
  /\ LET n     == spoken.count + 1
         chunk == [of |-> spoken.recording, n |-> n]
     IN  /\ spoken' = [spoken EXCEPT !.count = n, !.last = @ \/ last]
         /\ queue' = IF sessionState \in {"starting", "idle"}
                     THEN Append(queue, [chunk |-> chunk, last |-> last]) ELSE queue
         /\ Go("ui", IF sessionState # "streaming" THEN <<>>
                     ELSE <<Send(Task(currentId, chunk))>> \o FinishAfter(last))
  /\ UNCHANGED <<connectionState, websocket, cancelled, sessionState, currentId, transcript,
                 worker, netVars, fate, told>>

CancelReusableSession ==
  /\ calls["ui"] = <<>>
  /\ spoken' = Silence
  /\ IF Active /\ websocket THEN Sent(Frame("cancel", currentId)) ELSE UNCHANGED toServer
  /\ fate' = Ended("cancelled")
  /\ ClearSession
  /\ UNCHANGED <<connectionState, websocket, cancelled, worker, calls, link, toClient, faults,
                 received, told>>

UiStep ==
  \/ EitherThread("ui")
  \/ ShutdownReusableConnection \/ CloseConnection \/ StartWorker

Caller == Start \/ CancelReusableSession \/ \E last \in BOOLEAN : SendReusableAudio(last)
-----------------------------------------------------------------------------
\* The worker thread: RunReusableWebSocket

WorkerIn(place) == worker = place /\ calls["worker"] = <<>>

\* The handshake, which ends with the first frame or with FailReusableSession.
OpenConnection ==
  /\ WorkerIn("opening")
  /\ \/ /\ link' = "open" /\ websocket' = TRUE /\ connectionState' = "connecting"
        /\ worker' = "loop"
        /\ Go("worker", <<Send(Frame("connect", NoId))>>)
        /\ UNCHANGED faults
     \/ /\ faults < MaxFaults
        /\ faults' = faults + 1
        /\ worker' = "loop"
        /\ Go("worker", <<Call("fail")>>)
        /\ UNCHANGED <<link, websocket, connectionState>>
  /\ UNCHANGED <<cancelled, sessionVars, spoken, toServer, toClient, received, fate, told>>

\* while (!cancelled_): once more, or the end of the thread.
CheckCancelled ==
  /\ WorkerIn("loop")
  /\ IF cancelled
     THEN /\ Disconnect
          /\ worker' = "exited"
          /\ link' = IF link = "ended" THEN "ended" ELSE "closed"
          /\ toServer' = <<>> /\ toClient' = <<>>
     ELSE /\ worker' = "receive"
          /\ UNCHANGED <<connectionState, websocket, link, toServer, toClient>>
  /\ UNCHANGED <<cancelled, sessionVars, calls, spoken, faults, received, fate, told>>

\* ReceiveOneReusable meets the end of the connection.
ConnectionLost ==
  /\ WorkerIn("receive")
  /\ link \in {"broken", "closing"}
  /\ worker' = "loop"
  /\ Go("worker", IF cancelled THEN <<>> ELSE <<Call("fail")>>)
  /\ UNCHANGED <<stateVars, spoken, netVars, fate, told>>

Receives(name) ==
  /\ WorkerIn("receive")
  /\ toClient # <<>> /\ Head(toClient).name = name
  /\ toClient' = Tail(toClient)
  /\ worker' = "loop"
  /\ UNCHANGED <<spoken, link, toServer, faults, received, told>>

\* The event is about the session the client is in.
AnySession == TRUE
Current == Head(toClient).session = currentId

ConnectionStarted ==
  /\ Receives("connected")
  /\ connectionState' = "ready"
  /\ Go("worker", IF sessionState = "starting" THEN <<Send(Frame("start", currentId))>> ELSE <<>>)
  /\ UNCHANGED <<websocket, cancelled, sessionVars, fate>>

\* ConnectionFailed, and a message of type error.
ServiceError ==
  /\ Receives("error")
  /\ Go("worker", <<Call("fail")>>)
  /\ UNCHANGED <<stateVars, fate>>

ConnectionFinished ==
  /\ Receives("disconnected")
  /\ Disconnect
  /\ Go("worker", <<Call("stop")>>)
  /\ UNCHANGED <<cancelled, sessionVars, fate>>

StopReceiving ==
  /\ InCall("worker", "stop")
  /\ cancelled' = TRUE
  /\ Return("worker")
  /\ UNCHANGED <<connectionState, websocket, sessionVars, worker, spoken, netVars, fate, told>>

SessionStarted ==
  /\ Receives("started")
  /\ IF Current
     THEN sessionState' = "streaming" /\ Go("worker", <<Call("flush")>>)
     ELSE UNCHANGED <<sessionState, calls>>
  /\ UNCHANGED <<connectionState, websocket, cancelled, currentId, transcript, queue, fate>>

\* The queue and the session id are taken in a second stretch under the mutex,
\* then the chunks are sent one by one.
FlushQueuedAudioChunks ==
  /\ InCall("worker", "flush")
  /\ Go("worker", Flushing(currentId, queue))
  /\ queue' = <<>>
  /\ UNCHANGED <<connectionState, websocket, cancelled, sessionState, currentId, transcript,
                 worker, spoken, netVars, fate, told>>

FlushChunk ==
  /\ InCall("worker", "flushing")
  /\ LET s     == Head(calls["worker"]).session
         first == Head(Head(calls["worker"]).chunks)
     IN  Go("worker", <<Send(Task(s, first.chunk))>> \o FinishAfter(first.last)
                        \o Flushing(s, Tail(Head(calls["worker"]).chunks)))
  /\ UNCHANGED <<stateVars, worker, spoken, netVars, fate, told>>

AsrResponse ==
  /\ Receives("response")
  /\ transcript' = IF Current THEN Head(toClient).session ELSE transcript
  /\ UNCHANGED <<connectionState, websocket, cancelled, sessionState, currentId, queue, calls,
                 fate>>

\* The end of a session that was finished.
SessionLeftActive == UNCHANGED sessionVars
SessionOver == ClearSession

\* An empty result falls back to the latest transcript.
SessionFinished ==
  /\ Receives("finished")
  /\ IF Current
     THEN /\ Go("worker", <<Tell(currentId, IF Head(toClient).empty THEN transcript
                                            ELSE currentId)>>)
          /\ fate' = Ended("final")
          /\ SessionOver
     ELSE UNCHANGED <<calls, fate, sessionVars>>
  /\ UNCHANGED <<connectionState, websocket, cancelled>>

SessionCanceled ==
  /\ Receives("canceled")
  /\ IF Current THEN ClearSession /\ fate' = Ended("silent")
                ELSE UNCHANGED <<sessionVars, fate>>
  /\ UNCHANGED <<connectionState, websocket, cancelled, calls>>

WorkerStep ==
  \/ EitherThread("worker")
  \/ FailReusableSession \/ FailLocked \/ StopReceiving
  \/ FlushQueuedAudioChunks \/ FlushChunk
  \/ OpenConnection \/ CheckCancelled \/ ConnectionLost
  \/ ConnectionStarted \/ ServiceError \/ ConnectionFinished
  \/ SessionStarted \/ AsrResponse \/ SessionFinished \/ SessionCanceled

-----------------------------------------------------------------------------
\* The service and the network, from what the client expects of them.

Reply(event) == toClient' = Append(toClient, event)

Replies(f) ==
  CASE f.name = "connect"    -> {<<Frame("connected", NoId)>>}
    [] f.name = "start"      -> {<<Frame("started", f.session)>>}
    [] f.name = "task"       -> {<<>>, <<Frame("response", f.session)>>}
    [] f.name = "finish"     -> {<<[name |-> "finished", session |-> f.session, empty |-> e]>> :
                                   e \in BOOLEAN}
    [] f.name = "cancel"     -> {<<Frame("canceled", f.session)>>}
    [] f.name = "disconnect" -> {<<Frame("disconnected", NoId)>>}

Service ==
  /\ link \in {"open", "closing"}
  /\ toServer # <<>>
  /\ LET f == Head(toServer)
     IN  /\ \E reply \in Replies(f) : toClient' = toClient \o reply
         /\ received' = IF f.name = "task" /\ f.session # NoId /\ f.chunk # NoAudio
                        THEN [received EXCEPT ![f.session] = Append(@, f.chunk)] ELSE received
  /\ toServer' = Tail(toServer)
  /\ UNCHANGED <<stateVars, worker, calls, spoken, link, faults, fate, told>>

\* An error message, a session the service gives up, a connection it finishes,
\* or one that breaks.
Fault ==
  /\ link = "open"
  /\ faults < MaxFaults
  /\ faults' = faults + 1
  /\ \/ Reply(Frame("error", NoId)) /\ UNCHANGED <<link, toServer>>
     \/ \E s \in SessionIds : /\ received[s] # <<>>
                              /\ Reply(Frame("canceled", s))
                              /\ UNCHANGED <<link, toServer>>
     \/ Reply(Frame("disconnected", NoId)) /\ link' = "ended" /\ toServer' = <<>>
     \/ link' = "broken" /\ toServer' = <<>> /\ toClient' = <<>>
  /\ UNCHANGED <<stateVars, worker, calls, spoken, received, fate, told>>

Next == UiStep \/ Caller \/ WorkerStep \/ Service \/ Fault

Spec == Init /\ [][Next]_vars

\* Both threads are scheduled, and the service answers while the link holds.
\* The caller need not do anything.
Fairness == WF_vars(UiStep) /\ WF_vars(WorkerStep) /\ WF_vars(Service)

FairSpec == Spec /\ Fairness

-----------------------------------------------------------------------------
Promise == INSTANCE AsrOutcomes
Fates == Promise!Fates

Ids == SessionIds \cup {NoId}
Chunks == [of : Ids, n : Nat]
Queued == [chunk : Chunks, last : BOOLEAN]
Frames ==
  [name : {"connect", "disconnect"}, session : {NoId}]
    \cup [name : {"start", "finish", "cancel"}, session : SessionIds]
    \cup [name : {"task"}, session : Ids, chunk : Chunks]
Events ==
  [name : {"connected", "disconnected", "error", "response"}, session : Ids]
    \cup [name : {"started", "canceled"}, session : SessionIds]
    \cup [name : {"finished"}, session : SessionIds, empty : BOOLEAN]
Calls ==
  [call : {"finish", "shutdown", "close", "restart", "fail", "flush", "stop"}]
    \cup [call : {"send"}, frame : Frames]
    \cup [call : {"failed"}, was : BOOLEAN]
    \cup [call : {"tell"}, session : SessionIds, text : Ids]
    \cup [call : {"flushing"}, session : Ids, chunks : Seq(Queued) \ {<<>>}]

StateOK ==
  /\ connectionState \in {"disconnected", "connecting", "ready"}
  /\ websocket \in BOOLEAN /\ cancelled \in BOOLEAN
  /\ sessionState \in {"idle", "starting", "streaming", "finishing"}
  /\ currentId \in Ids /\ (sessionState = "idle") = (currentId = NoId)
  /\ transcript \in {currentId, NoId}
  /\ queue \in Seq(Queued)

ThreadsOK ==
  /\ worker \in {"none", "opening", "loop", "receive", "exited"}
  /\ calls \in [Threads -> Seq(Calls)]
  /\ spoken \in [recording : Ids, count : Nat, last : BOOLEAN]

NetOK ==
  /\ link \in {"closed", "open", "closing", "broken", "ended"}
  /\ toServer \in Seq(Frames) /\ toClient \in Seq(Events)
  /\ faults \in 0..MaxFaults
  /\ received \in [SessionIds -> Seq(Chunks)]

\* Every variable keeps to its range; the latest transcript is of the session
\* that is active, or empty.
TypeOK == StateOK /\ ThreadsOK /\ NetOK /\ fate \in [SessionIds -> Fates] /\ told \subseteq SessionIds

(* Audio queued for one recording is never sent in another's session,      *)
(* although an ended session leaves the queue to whatever chunks still     *)
(* come, and the flush takes queue and session id after the mutex was      *)
(* released (asr_client_win.cc:298); and no chunk is sent twice.           *)
AudioOfItsOwn ==
  \A s, t \in SessionIds : \A i \in DOMAIN received[s], j \in DOMAIN received[t] :
    IF s = t THEN /\ received[s][i].of = received[s][j].of
                  /\ received[s][i] = received[s][j] => i = j
             ELSE received[s][i] # received[t][j]

(* The text handed to on_final was recognised in the session that ends:    *)
(* the fallback to the latest transcript never reaches back into a session *)
(* that was cancelled or failed, whose late responses may still come.      *)
FinalIsItsOwn ==
  \A t \in Threads : \A i \in DOMAIN calls[t] :
    calls[t][i].call = "tell" => calls[t][i].text \in {calls[t][i].session, NoId}

(* Each session meets one end and is reported at most once, whatever the   *)
(* UI thread, the worker and the network do to it: see AsrOutcomes.        *)
KeepsPromise == Promise!OutcomesSpec

(* A session whose last chunk was handed over does not stay active for     *)
(* ever: the service finishes it, or the failure that prevents that ends   *)
(* it, although the failure may be met by the other thread.  A connection  *)
(* that the service finishes ends without a word to the session            *)
(* (asr_client_win.cc:394), which is excepted.                             *)
SessionsEnd ==
  \A s \in SessionIds :
    fate[s] = "active" /\ spoken.last ~> fate[s] # "active" \/ link = "ended"

(* docs/protocol.md:339, "then starts ASR and flushes the buffered chunks. *)
(* On button release, it sends the final Ogg chunk": the service gets the  *)
(* chunks of a session in the order of the recording.  Does not hold: the  *)
(* state that lets the caller send is set (asr_client_win.cc:412) before   *)
(* the buffered chunks are flushed.                                        *)
AudioInOrder ==
  \A s \in SessionIds : \A i, j \in DOMAIN received[s] :
    i < j => received[s][i].n < received[s][j].n
=============================================================================
