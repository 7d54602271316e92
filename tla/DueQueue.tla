------------------------------ MODULE DueQueue ------------------------------
(***************************************************************************)
(* The egress prober against the server that schedules it: the due list    *)
(* that Client.Due polls (ingest/schedule.go), what the prober writes back *)
(* to it after every probe, and a prober that dies and is started again.   *)
(*                                                                         *)
(* The server orders the providers that are due by observed_at, never      *)
(* located first, then oldest, and leaves out those whose attempt was      *)
(* reported within its backoff.  Its clock is counted in polls.            *)
(***************************************************************************)
EXTENDS EgressProber, Sequences, SequencesExt

CONSTANTS
  Limit,       (* -due-limit, or the server's maximum if that is less       *)
  Backoff,     (* polls that a reported attempt defers                      *)
  Stale,       (* polls after which a stored location has gone stale        *)
  Lost,        (* providers whose reports never arrive                      *)
  MaxLosses,   (* reports of others that may be lost                        *)
  MaxCrashes   (* times the prober may die                                  *)

ASSUME ScheduleAssumption ==
  /\ Limit \in Nat \ {0} /\ Backoff \in Nat /\ Stale \in Nat
  /\ MaxLosses \in Nat /\ MaxCrashes \in Nat
  /\ Lost \subseteq Providers /\ IsFiniteSet(Providers)

(* There is room in Backoff + 1 batches for everyone who may be due in      *)
(* them, those who come back in each of them included.                      *)
ASSUME CapacityAssumption ==
  /\ Cardinality(Lost) < Limit
  /\ Cardinality(Providers \ Lost) <= (Limit - Cardinality(Lost)) * (Backoff + 1)

VARIABLES
  located,   (* those with a stored location, oldest observed_at first      *)
  observed,  (* its age in polls, up to Stale                               *)
  deferred,  (* polls for which the last reported attempt still defers      *)
  losses,    (* reports lost so far                                         *)
  crashes    (* crashes so far                                              *)

queueVars == <<located, observed, deferred>>
faultVars == <<losses, crashes>>
dueVars   == <<vars, queueVars, faultVars>>

-----------------------------------------------------------------------------
DueInit ==
  /\ Init /\ hasDue
  /\ located = <<>>
  /\ observed = [p \in Providers |-> Stale]
  /\ deferred = [p \in Providers |-> 0]
  /\ losses = 0 /\ crashes = 0

Located(p)  == p \in Range(located)
Due(p)      == deferred[p] = 0 /\ (Located(p) => observed[p] = Stale)
Before(p, q) ==
  \/ ~Located(p) /\ Located(q)
  \/ \E i, j \in DOMAIN located : i < j /\ located[i] = p /\ located[j] = q

(* As many as are asked for, none passed over for one that comes later.     *)
Batches ==
  LET due == {p \in Providers : Due(p)}
  IN  {ids \in SUBSET due :
         /\ Cardinality(ids) = IF Cardinality(due) < Limit THEN Cardinality(due)
                                                           ELSE Limit
         /\ \A p \in due \ ids, q \in ids : ~Before(p, q)}

Poll ==
  /\ DueAnswers /\ todo' \in Batches
  /\ observed' = [p \in Providers |-> Older(observed[p], Stale)]
  /\ deferred' = [p \in Providers |-> IF deferred[p] = 0 THEN 0 ELSE deferred[p] - 1]
  /\ UNCHANGED <<located, faultVars>>

(* ProbeOne reports each attempt once, and only logs it when that fails.    *)
Report(p) ==
  \/ /\ Answers /\ secretOK /\ p \notin Lost
     /\ deferred' = [deferred EXCEPT ![p] = Backoff] /\ UNCHANGED losses
  \/ /\ Answers /\ secretOK /\ p \notin Lost /\ losses < MaxLosses
     /\ losses' = losses + 1 /\ UNCHANGED deferred
  \/ /\ ~(Answers /\ secretOK /\ p \notin Lost)
     /\ UNCHANGED <<deferred, losses>>

ProbeLocates(p) ==
  /\ LocateProvider(p) /\ Report(p)
  /\ located' = Append(SelectSeq(located, LAMBDA q : q # p), p)
  /\ observed' = [observed EXCEPT ![p] = 0]
  /\ UNCHANGED crashes

ProbeFailsUnreported(p) == FailProvider(p) /\ UNCHANGED <<queueVars, faultVars>>
ProbeFails(p) == FailProvider(p) /\ Report(p) /\ UNCHANGED <<located, observed, crashes>>

(* Everything in the process's memory is gone, the signal that it had been  *)
(* sent included; the queue is in the server's database.                    *)
Crash ==
  /\ phase # "exited" /\ crashes < MaxCrashes /\ crashes' = crashes + 1
  /\ phase' = "flags" /\ ctxDone' = FALSE
  /\ toDial' = {} /\ blocked' = {} /\ idle' = {}
  /\ pins' = {} /\ pinAge' = RefreshInterval
  /\ toList' = {} /\ todo' = {} /\ driven' = FALSE /\ fetched' = FALSE
  /\ age' = [s \in Schedulers |-> [p \in Providers |-> CacheTTL]]
  /\ sum' = NoSummary
  /\ UNCHANGED <<cfg, open, serverVars, code, queueVars, losses>>

Elsewhere ==
  \/ Startup \/ Sleep \/ RefreshPins \/ DueFails \/ RunReturns \/ EndPass
  \/ (\E p \in Providers : Skip(p))
  \/ Tick \/ Signal \/ RotateSecret \/ Exited

DueNext ==
  \/ Poll \/ Crash
  \/ \E p \in Providers : ProbeLocates(p) \/ ProbeFails(p)
  \/ Elsewhere /\ UNCHANGED <<queueVars, faultVars>>

(* As EgressProber's fairness; and the server does answer a poll if it is   *)
(* polled for ever.                                                         *)
DueSpec ==
  /\ DueInit /\ [][DueNext]_dueVars
  /\ WF_dueVars(DueNext /\ Main) /\ SF_dueVars(Poll)

-----------------------------------------------------------------------------
(* "starving every healthy provider" (ReportAttempt): a provider that is    *)
(* due is attempted and leaves the list, whoever else can never be located, *)
(* whosever reports are lost, and however often the prober dies, as long as *)
(* it runs and the server takes its secret.                                 *)
NobodyIsStarved ==
  \A p \in Providers \ Lost :
    Due(p) ~> ~Due(p) \/ ctxDone \/ ~secretOK \/ phase = "exited"
=============================================================================
