---------------------------- MODULE MCProbePass ----------------------------
(***************************************************************************)
(* Small instances of ProbePass for TLC.                                   *)
(***************************************************************************)
EXTENDS ProbePassRefines, TLC

CONSTANTS p1, p2, p3

(* The batches the server may hand out. *)
TwoAndOne   == {<<p1, p2>>, <<p2>>}
JustTwo     == {<<p1, p2>>}
JustThree   == {<<p1, p2, p3>>}

All == Optional
=============================================================================
