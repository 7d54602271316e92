-------------------------- MODULE ProbePassRefines --------------------------
(***************************************************************************)
(* ProbePass implements PassSpec, and a Run of it is what EgressProber     *)
(* takes a Run to be.                                                      *)
(*                                                                         *)
(* For PassSpec: a job is probing from the moment its goroutine is started *)
(* until it gives its slot back; a provider of the batch that Run has      *)
(* passed without starting a goroutine was skipped; the Summary is the     *)
(* caller's once Run is idle again.                                        *)
(***************************************************************************)
EXTENDS ProbePass

statusOf(i) ==
  IF pc[i] = "none"
  THEN IF i < next /\ i \in DOMAIN batch THEN "skipped" ELSE "unseen"
  ELSE IF pc[i] \in {"wgdone", "done"}
  THEN IF failure[i] = Success THEN "succeeded" ELSE "failed"
  ELSE IF pc[i] = "release" /\ failure[i] = Success THEN "remembered"
  ELSE "probing"

Abs == INSTANCE PassSpec WITH
         running    <- main # "idle",
         status     <- [i \in Jobs |-> statusOf(i)],
         remembered <- lastMark,
         result     <- IF main = "idle" THEN sum ELSE NoSummary

(* Every step of the goroutines, the semaphore, the wait group and the      *)
(* pruned cache is a step of the promise, or invisible to it, provided no   *)
(* batch names a provider twice.                                            *)
ImplementsPassSpec == Abs!Spec
-----------------------------------------------------------------------------
(* What main's own model takes for granted of a Run: EgressProber in the    *)
(* phase "run", where a probe is one step.  A job is decided there once its *)
(* failure is tallied, or its success marked.                               *)

Decided == {i \in Jobs : pc[i] \in {"release", "wgdone", "done"}}
Passed  == {i \in DOMAIN batch : pc[i] = "none" /\ i < next}

(* Jobs that have stored a location and still hold their slot.              *)
Uncounted ==
  {i \in Jobs : /\ failure[i] = Success
                /\ pc[i] \in {"bandwidth", "close", "report", "tally", "mark", "release"}}

Phase == IF main = "idle" THEN "returned" ELSE "run"
Todo  == {batch[i] : i \in DOMAIN batch \ (Decided \cup Passed)}

(* The cache of the scheduler that runs, and the other one's.               *)
Ages ==
  [s \in {"due", "enum"} |-> [p \in Providers |->
     IF s = "enum" /\ Fresh(lastMark, p) THEN now - lastMark[p] ELSE CacheTTL]]

Outcomes ==
  [attempted |-> Cardinality(Decided),
   submitted |-> Cardinality({i \in Decided : failure[i] = Success}),
   skipped   |-> sum.skipped,
   failed    |-> Cardinality({i \in Decided : failure[i] # Success})]

(* What was stored before the signal is counted behind it: to main it looks *)
(* as if the signal came only then.                                         *)
Told == ctxDone /\ Uncounted = {}

(* A daemon in the middle of a pass, with whatever else it has at rest. *)
DaemonLine ==
  [complete |-> TRUE, jwt |-> TRUE, skipCheck |-> TRUE, interval |-> 1,
   least |-> 1, confinement |-> 0, explicit |-> {}]

Process == INSTANCE EgressProber WITH
  Locations <- {}, At <- [l \in {} |-> {}], Configs <- {DaemonLine},
  SourceHosts <- {"source"}, OtherHosts <- {}, ProbeHosts <- {"source"},
  MinTimeout <- 0, RefreshInterval <- 1,
  cfg <- DaemonLine, open <- {}, hasDue <- FALSE, secretOK <- TRUE,
  code <- 3, toDial <- {}, blocked <- {}, idle <- {}, pins <- {"source"},
  pinAge <- 1, toList <- {}, driven <- FALSE, fetched <- TRUE,
  phase <- Phase, ctxDone <- Told, todo <- Todo, age <- Ages, sum <- Outcomes

(* A Run is what EgressProber takes it for: it begins with its list and no  *)
(* counts, and from then on each step of its goroutines skips, locates or   *)
(* fails one provider of the list, or returns with nobody left, or does not *)
(* show; and nobody is located once the signal has come.                    *)
RunAsMainTakesIt ==
  [][IF main = "idle"
     THEN \/ /\ Process!StartRun({batch'[i] : i \in DOMAIN batch'})
             /\ UNCHANGED <<Ages, Told>>
          \/ [Process!Tick \/ Process!Signal]_(Process!vars)
     ELSE [Process!Pass \/ Process!Tick \/ Process!Signal]_(Process!vars)]_vars
=============================================================================
