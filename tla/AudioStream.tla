---------------------------- MODULE AudioStream ----------------------------
(***************************************************************************)
(* What the audio path promises to the desktop coordinator, whatever the   *)
(* radio does: of each recording it hears some of the captured frames, in  *)
(* the order of capture, none of them twice, then at most one end marker   *)
(* and nothing after it; and the recordings follow one another.            *)
(***************************************************************************)
EXTENDS Integers

CONSTANT MaxSessions

Sessions == 0..MaxSessions    \* 0: before the first recording

VARIABLES
  current,   \* the recording the device is in, or was last in
  captured,  \* captured[s]: frames recorded
  open,      \* frames may still be added to the current recording
  heard      \* heard[s]: the next frame may be this one or a later one; the
             \* end marker has been heard

streamVars == <<current, captured, open, heard>>

Unheard == [next |-> 0, ended |-> FALSE]

StreamInit ==
  /\ current = 0
  /\ captured = [s \in Sessions |-> 0]
  /\ open = FALSE
  /\ heard = [s \in Sessions |-> Unheard]

Open ==
  /\ ~open
  /\ current' \in {s \in Sessions : s > current}
  /\ open' = TRUE
  /\ UNCHANGED <<captured, heard>>

Capture ==
  /\ open
  /\ captured' = [captured EXCEPT ![current] = @ + 1]
  /\ UNCHANGED <<current, open, heard>>

Close ==
  /\ open
  /\ open' = FALSE
  /\ UNCHANGED <<current, captured, heard>>

\* A session is heard from only while no later one has been.
Newest(s) ==
  /\ s <= current
  /\ ~heard[s].ended
  /\ \A later \in Sessions : later > s => heard[later] = Unheard

\* Frames first..last arrive; the ones skipped over are lost for good.
HearFrames(s) ==
  /\ Newest(s)
  /\ \E next \in (heard[s].next + 1)..captured[s] :
       heard' = [heard EXCEPT ![s].next = next]
  /\ UNCHANGED <<current, captured, open>>

HearEnd(s) ==
  /\ Newest(s)
  /\ s = current => ~open
  /\ heard' = [heard EXCEPT ![s] = [next |-> captured[s], ended |-> TRUE]]
  /\ UNCHANGED <<current, captured, open>>

StreamNext ==
  \/ Open
  \/ Capture
  \/ Close
  \/ \E s \in Sessions : HearFrames(s) \/ HearEnd(s)

StreamSpec == StreamInit /\ [][StreamNext]_streamVars
=============================================================================
