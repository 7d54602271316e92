--------------------------- MODULE MCEgressProber ---------------------------
(***************************************************************************)
(* Small instances of EgressProber for TLC.                                *)
(***************************************************************************)
EXTENDS EgressProber

CONSTANTS p1, p2, l1, l2, ipinfo, apple, cloudflare

Base == [complete |-> TRUE, jwt |-> TRUE, skipCheck |-> FALSE, interval |-> 1,
         least |-> 1, confinement |-> 2, explicit |-> {}]

Daemon     == [Base EXCEPT !.skipCheck = TRUE]
SingleShot == [Daemon EXCEPT !.interval = 0]

(* Every gate of the startup, and what lies past it. *)
Gated == {Base, [Base EXCEPT !.interval = 0], [Base EXCEPT !.explicit = {ipinfo}],
          [Base EXCEPT !.complete = FALSE], [Base EXCEPT !.interval = -1],
          [Base EXCEPT !.least = 0], [Base EXCEPT !.confinement = 1],
          [Base EXCEPT !.jwt = FALSE], Daemon}
All   == Gated \cup {SingleShot}
One   == {SingleShot}

(* p1 is found at both locations, as a city's provider is at its country's. *)
Overlapping == [l \in Locations |-> IF l = l1 THEN {p1} ELSE {p1, p2}]
=============================================================================
