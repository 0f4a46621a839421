------------------------- MODULE MCWinFirmwareInfo -------------------------
(* Small values for WinFirmwareInfo's constants. *)
EXTENDS WinFirmwareInfo

\* The device's version lies between the two that the manifest may name.
MCReported == {[numbers |-> <<0, 3>>, suffix |-> Plain]}
MCReleases == {[numbers |-> <<0, 3>>, suffix |-> 1], [numbers |-> <<0, 3, 1>>, suffix |-> Plain]}
=============================================================================
