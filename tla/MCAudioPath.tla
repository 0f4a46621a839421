---------------------------- MODULE MCAudioPath ----------------------------
(* Small values for AudioPath's constants. *)
EXTENDS AudioPath

MCMtus == {247}
=============================================================================
