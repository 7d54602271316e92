---------------------------- MODULE MCHealthRun ----------------------------
(***************************************************************************)
(* Small instances of HealthRun for TLC.                                   *)
(***************************************************************************)
EXTENDS HealthRun

CONSTANTS doh, gen204, cdn, shop

(* One destination of each contract; the last two are of one class. *)
ClassOf ==
  [d \in Table |-> CASE d = doh -> "dns" [] d = gen204 -> "connectivity"
                     [] d \in {cdn, shop} -> "site"]
ContractOf ==
  [d \in Table |->
     CASE d = doh    -> [expect |-> "body", status |-> 0, verify |-> TRUE]
       [] d = gen204 -> [expect |-> "status", status |-> 204, verify |-> FALSE]
       [] d = cdn    -> [expect |-> "body", status |-> 0, verify |-> FALSE]
       [] d = shop   -> [expect |-> "reachable", status |-> 0, verify |-> FALSE]]

(* A table of one class, of which one destination is sampled.               *)
OneClass == [d \in Table |-> "site"]

OneEach == [c \in Classes |-> 1]
=============================================================================
