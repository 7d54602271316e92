---------------------------- MODULE MCDueQueue ----------------------------
(***************************************************************************)
(* A small instance of DueQueue for TLC: two batches have just room for    *)
(* all, with one provider that comes back in each.                         *)
(***************************************************************************)
EXTENDS DueQueue

CONSTANTS p1, p2, p3, l1, ipinfo

Daemons == {[complete |-> TRUE, jwt |-> TRUE, skipCheck |-> TRUE, interval |-> 1,
             least |-> 1, confinement |-> 2, explicit |-> {}]}
Nowhere == [l \in Locations |-> {}]
=============================================================================
