---------------------------- MODULE AsrOutcomes ----------------------------
(***************************************************************************)
(* What an ASR client owes its coordinator: of each session it starts, one *)
(* fate, decided once; and of a session that ended by itself at most one   *)
(* callback, which may come after the next session has started, for the    *)
(* callbacks carry no session.                                             *)
(***************************************************************************)
EXTENDS Naturals

CONSTANT MaxSessions

SessionIds == 1..MaxSessions

VARIABLES
  fate,   \* fate[s]: what became of session s
  told    \* the sessions whose callback has run

outcomeVars == <<fate, told>>

\* "error": on_error is due.  "refused": Start returned false, and said no
\* more.  "silent": the session ended and no callback is due.
Fates == {"unused", "active", "final", "error", "refused", "silent", "cancelled"}

OutcomesInit ==
  /\ fate = [s \in SessionIds |-> "unused"]
  /\ told = {}

Begin(s) ==
  /\ fate[s] = "unused"
  /\ \A t \in SessionIds : fate[t] # "active"
  /\ fate' = [fate EXCEPT ![s] = "active"]
  /\ UNCHANGED told

\* The session ends: by itself, or because the coordinator cancels it.
End(s) ==
  /\ fate[s] = "active"
  /\ \E end \in Fates \ {"unused", "active"} : fate' = [fate EXCEPT ![s] = end]
  /\ UNCHANGED told

Tell(s) ==
  /\ fate[s] \in {"final", "error"}
  /\ s \notin told
  /\ told' = told \cup {s}
  /\ UNCHANGED fate

OutcomesNext == \E s \in SessionIds : Begin(s) \/ End(s) \/ Tell(s)

OutcomesSpec == OutcomesInit /\ [][OutcomesNext]_outcomeVars
=============================================================================
