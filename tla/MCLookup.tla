------------------------------ MODULE MCLookup ------------------------------
(***************************************************************************)
(* A small instance of Lookup for TLC: two sources, certified alike at     *)
(* first or not, which is all that the names of the keys leave open.       *)
(***************************************************************************)
EXTENDS Lookup

CONSTANTS ipinfo, freeipapi, cdn, leaf1, leaf2, ca1, ca2

AtFirst == /\ origin[ipinfo] = [leaf |-> leaf1, issuer |-> ca1]
           /\ origin[freeipapi].leaf = leaf2

MCInit == Init /\ AtFirst
MCSpec == MCInit /\ [][Next]_vars /\ Fairness
=============================================================================
