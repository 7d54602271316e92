---------------------------- MODULE MCBandwidth ----------------------------
(***************************************************************************)
(* Small instances of Bandwidth for TLC.                                   *)
(***************************************************************************)
EXTENDS Bandwidth

CONSTANTS a, b

BothTargets == <<"operator", "cdn">>
OneTarget   == <<"cdn">>
=============================================================================
