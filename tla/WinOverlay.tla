----------------------------- MODULE WinOverlay -----------------------------
(***************************************************************************)
(* The Windows overlay window: what it shows, the timer that hides it, and *)
(* the one callback it runs when it is hidden.  A call that shows          *)
(* something else stops the timer but keeps the callback, unless it brings *)
(* its own.                                                                *)
(***************************************************************************)

NoCallback == [does |-> "nothing"]

Overlays(callbacks) ==
  [mode : {"hidden", "listening", "countdown", "paused", "error"},
   timed : BOOLEAN,
   callback : callbacks]

Hidden == [mode |-> "hidden", timed |-> FALSE, callback |-> NoCallback]

\* The calls of VoiceStickUi that reach the overlay.
Listening         == [call |-> "listening"]
Partial           == [call |-> "partial"]
Countdown(done)   == [call |-> "countdown", callback |-> done]
PausedFinal       == [call |-> "paused"]
ErrorText(done)   == [call |-> "error", callback |-> done]
Hide(done)        == [call |-> "hide", callback |-> done]

Show(overlay, mode) == [overlay EXCEPT !.mode = mode, !.timed = FALSE]

ShowTimed(mode, done) == [mode |-> mode, timed |-> TRUE, callback |-> done]

\* StartFadeOut hides the window at once and takes the callback away.
Faded(overlay) == Hidden

Applied(overlay, call) ==
  CASE call.call \in {"listening", "partial"} -> Show(overlay, "listening")
    [] call.call = "paused"                   -> Show(overlay, "paused")
    [] call.call \in {"countdown", "error"}   -> ShowTimed(call.call, call.callback)
    [] call.call = "hide"                     -> Faded(overlay)

DueOfCallOnly(overlay, call) ==
  IF call.call # "hide" THEN NoCallback ELSE call.callback
\* The callback the call runs, before it returns.
Due(overlay, call) ==
  IF call.call # "hide" THEN NoCallback
  ELSE IF call.callback # NoCallback THEN call.callback
  ELSE overlay.callback
=============================================================================
