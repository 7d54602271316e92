------------------------------ MODULE ProbePass ------------------------------
(***************************************************************************)
(* One Scheduler (prober/schedule.go) driving ProbeOne (prober/prober.go)  *)
(* over batch after batch of providers.                                    *)
(*                                                                         *)
(* Run is the main goroutine: it prunes the success cache, walks the       *)
(* batch, skips a provider whose last success is younger than CacheTTL,    *)
(* takes a semaphore slot and starts a goroutine for every other one, and  *)
(* waits for them all.  Each goroutine (a job, the index of its provider   *)
(* in the batch) opens a tunnel, locates, runs the egress-health check,    *)
(* submits, samples bandwidth, closes the tunnel, reports the attempt,     *)
(* counts itself, marks the cache, and gives its slot back.                *)
(*                                                                         *)
(* The operator's server is external: it is the set of records it holds,   *)
(* and any call to it may be lost, or answered by a reply that is lost.    *)
(***************************************************************************)
EXTENDS Integers, Sequences, FiniteSets

CONSTANTS
  Providers,    (* provider client ids                                      *)
  Batches,      (* the lists Run may be given                               *)
  MaxBatch,     (* bound on the length of a batch                           *)
  Concurrency,  (* the -concurrency flag, any integer                       *)
  CacheTTL,     (* Scheduler.CacheTTL; 0 for the server-driven scheduler    *)
  Wired,        (* the optional Prober fields that are set                  *)
  Lossy,        (* whether the server may lose or refuse calls              *)
  MaxTime       (* bound on the clock                                       *)

Optional == {"Health", "HealthResults", "Bandwidth", "Attempts"}

ASSUME BatchesAssumption ==
  /\ MaxBatch \in Nat
  /\ Batches \subseteq Seq(Providers)
  /\ \A b \in Batches : Len(b) <= MaxBatch
ASSUME ConcurrencyAssumption == Concurrency \in Int
ASSUME TTLAssumption == CacheTTL \in Nat
ASSUME WiringAssumption == Wired \subseteq Optional /\ Lossy \in BOOLEAN
ASSUME MaxTimeAssumption == MaxTime \in Nat

VARIABLES
  now,        (* the clock                                                  *)
  ctxDone,    (* SIGTERM arrived: the context every call is given is done   *)
  probed,     (* Scheduler.probed, Absent where the map has no entry        *)
  main,       (* where Run stands; "idle" when no Run is in progress        *)
  batch,      (* the batch being walked                                     *)
  next,       (* index of the provider Run looks at                         *)
  sem,        (* slots taken from the semaphore channel                     *)
  wg,         (* the WaitGroup counter                                      *)
  sum,        (* the Summary                                                *)
  pc,         (* where each job stands                                      *)
  loc,        (* what Locate returned to each job                           *)
  failure,    (* the failure class probeOne returns, "" on success          *)
  tunnels,    (* jobs whose tunnel is open                                  *)
  stored,     (* jobs whose location reached the server in this Run         *)
  healthRows, (* jobs whose health result reached the server in this Run    *)
  attempts,   (* <<job, class>> attempt rows that reached the server        *)
  measured,   (* jobs that sampled bandwidth                                *)
  calls,      (* history: ReportAttempt calls made by each job              *)
  cut,        (* history: jobs one of whose steps met a done context        *)
  lastMark,   (* history: when each provider was last marked, never pruned  *)
  owed        (* history: providers whose latest probe has not had a store  *)
              (* acknowledged                                               *)

envVars    == <<now, ctxDone>>
mainVars   == <<main, batch, next>>
poolVars   == <<sem, wg, sum>>
workVars   == <<loc, failure, tunnels, measured, calls, cut>>
serverVars == <<stored, healthRows, attempts, owed>>
cacheVars  == <<probed, lastMark>>
vars == <<envVars, mainVars, poolVars, pc, workVars, serverVars, cacheVars>>

-----------------------------------------------------------------------------
Jobs  == 1 .. MaxBatch
Limit == IF Concurrency < 1 THEN 1 ELSE Concurrency

Absent == -1
Time   == 0 .. MaxTime

Failures == {"tunnel_failed", "no_consensus", "locate_failed", "not_confident",
             "submit_failed"}
Success  == ""

Stages == {"none", "start", "open", "locate", "health", "healthRun",
           "healthSubmit", "submit", "bandwidth", "close", "report", "tally",
           "mark", "release", "wgdone", "done"}

(* "error" is ErrNilClient, the only error of geolocate.locate that is not  *)
(* ErrNoConsensus.                                                          *)
LocateResults == {"confident", "unconfident", "no_consensus", "error"}

Summary == [attempted : Nat, submitted : Nat, skipped : Nat, failed : Nat]
NoSummary == [attempted |-> 0, submitted |-> 0, skipped |-> 0, failed |-> 0]

(* recentlyProbed over a cache c: an entry younger than CacheTTL. *)
Fresh(c, p) == c[p] # Absent /\ now - c[p] < CacheTTL

(* A call to the server returns an error if the request or the reply is     *)
(* lost or the server refuses it: reached says the server recorded it,      *)
(* acked that the prober knows.                                             *)
Delivery == {d \in [reached : BOOLEAN, acked : BOOLEAN] : d.acked => d.reached}

(* Every call carries the pass's context, and only a live one sends. *)
DeliveriesDetached == {d \in Delivery : Lossy \/ d.acked}
Deliveries ==
  {d \in Delivery : IF ctxDone THEN ~d.reached ELSE Lossy \/ d.acked}

-----------------------------------------------------------------------------
Init ==
  /\ now = 0 /\ ctxDone = FALSE
  /\ probed = [p \in Providers |-> Absent]
  /\ main = "idle" /\ batch = <<>> /\ next = 1
  /\ sem = 0 /\ wg = 0 /\ sum = NoSummary
  /\ pc = [i \in Jobs |-> "none"]
  /\ loc = [i \in Jobs |-> "no_consensus"]
  /\ failure = [i \in Jobs |-> Success]
  /\ tunnels = {} /\ measured = {} /\ cut = {}
  /\ calls = [i \in Jobs |-> 0]
  /\ stored = {} /\ healthRows = {} /\ attempts = {} /\ owed = {}
  /\ lastMark = [p \in Providers |-> Absent]

-----------------------------------------------------------------------------
(* The main goroutine. *)

(* prune: drop every entry whose age has reached CacheTTL. *)
PrunedEarly ==
  [p \in Providers |->
     IF probed[p] # Absent /\ CacheTTL <= now - probed[p] + 1
     THEN Absent ELSE probed[p]]
Pruned ==
  [p \in Providers |->
     IF probed[p] # Absent /\ CacheTTL <= now - probed[p]
     THEN Absent ELSE probed[p]]

(* The pass loop leaves at its select once the context is done.  (A Run     *)
(* begun in the instant after the signal is one begun just before it.)      *)
MayBeginAnyway == main = "idle"
MayBegin == main = "idle" /\ ~ctxDone

(* Run starts: prune, then fresh per-run state. *)
BeginRun(b) ==
  /\ MayBegin
  /\ probed' = Pruned
  /\ main' = "check" /\ batch' = b /\ next' = 1
  /\ sem' = 0 /\ wg' = 0 /\ sum' = NoSummary
  /\ pc' = [i \in Jobs |-> "none"]
  /\ loc' = [i \in Jobs |-> "no_consensus"]
  /\ failure' = [i \in Jobs |-> Success]
  /\ tunnels' = {} /\ measured' = {} /\ cut' = {}
  /\ calls' = [i \in Jobs |-> 0]
  /\ stored' = {} /\ healthRows' = {} /\ attempts' = {}
  /\ UNCHANGED <<envVars, owed, lastMark>>

SkipCachedUncounted ==
  /\ main = "check" /\ next <= Len(batch)
  /\ Fresh(probed, batch[next])
  /\ next' = next + 1
  /\ UNCHANGED <<envVars, main, batch, poolVars, pc, workVars, serverVars,
                 cacheVars>>

SkipCached ==
  /\ main = "check" /\ next <= Len(batch)
  /\ Fresh(probed, batch[next])
  /\ sum' = [sum EXCEPT !.skipped = @ + 1]
  /\ next' = next + 1
  /\ UNCHANGED <<envVars, main, batch, sem, wg, pc, workVars, serverVars,
                 cacheVars>>

(* wg.Add(1), and from here on the cache is not consulted again. *)
Admit ==
  /\ main = "check" /\ next <= Len(batch)
  /\ ~Fresh(probed, batch[next])
  /\ wg' = wg + 1 /\ main' = "acquire"
  /\ UNCHANGED <<envVars, batch, next, sem, sum, pc, workVars, serverVars,
                 cacheVars>>

(* The channel send blocks while every slot is taken; then the goroutine. *)
SlotFreeOneMore == sem <= Limit
SlotFree == sem < Limit

Spawn ==
  /\ main = "acquire" /\ SlotFree
  /\ sem' = sem + 1
  /\ pc' = [pc EXCEPT ![next] = "start"]
  /\ main' = "check" /\ next' = next + 1
  /\ UNCHANGED <<envVars, batch, wg, sum, workVars, serverVars, cacheVars>>

EndOfBatch ==
  /\ main = "check" /\ next > Len(batch)
  /\ main' = "wait"
  /\ UNCHANGED <<envVars, batch, next, poolVars, pc, workVars, serverVars,
                 cacheVars>>

(* wg.Wait returns, and Run returns the Summary. *)
WaitedForSlots == sem = 0
Waited == wg = 0

Return ==
  /\ main = "wait" /\ Waited
  /\ main' = "idle"
  /\ UNCHANGED <<envVars, batch, next, poolVars, pc, workVars, serverVars,
                 cacheVars>>

-----------------------------------------------------------------------------
(* The probe goroutine. *)

Goto(i, from, to) == pc[i] = from /\ pc' = [pc EXCEPT ![i] = to]

(* A step cut short by the done context. *)
CutIf(i, stopped) == cut' = IF stopped THEN cut \cup {i} ELSE cut

CountAttempt(i) ==
  /\ Goto(i, "start", "open")
  /\ sum' = [sum EXCEPT !.attempted = @ + 1]
  /\ owed' = owed \cup {batch[i]}
  /\ UNCHANGED <<envVars, mainVars, sem, wg, workVars, stored, healthRows,
                 attempts, cacheVars>>

(* Where ProbeOne goes once probeOne has its result: the deferred           *)
(* closeTunnel on every path that opened one, then reportAttempt.           *)
AfterProbeForgetful(i) == IF i \in tunnels THEN "close" ELSE "tally"
AfterProbe(i) == IF i \in tunnels THEN "close" ELSE "report"

(* Open may fail at any time, and may succeed under a done context. *)
OpenFails(i) ==
  /\ Goto(i, "open", AfterProbe(i))
  /\ failure' = [failure EXCEPT ![i] = "tunnel_failed"]
  /\ CutIf(i, ctxDone)
  /\ UNCHANGED <<envVars, mainVars, poolVars, loc, tunnels, measured, calls,
                 serverVars, cacheVars>>

OpenTunnel(i) ==
  /\ Goto(i, "open", "locate")
  /\ tunnels' = tunnels \cup {i}
  /\ UNCHANGED <<envVars, mainVars, poolVars, loc, failure, measured, calls,
                 cut, serverVars, cacheVars>>

(* Under a done context no source answers: ErrNoConsensus. *)
Locate(i) ==
  /\ Goto(i, "locate", IF "Health" \in Wired THEN "health" ELSE "submit")
  /\ \E r \in LocateResults :
       /\ ctxDone => r = "no_consensus"
       /\ loc' = [loc EXCEPT ![i] = r]
  /\ CutIf(i, ctxDone)
  /\ UNCHANGED <<envVars, mainVars, poolVars, failure, tunnels, measured,
                 calls, serverVars, cacheVars>>

(* checkEgressHealth, ctx.Err(): skipped, whatever Locate returned. *)
SkipHealth(i) ==
  /\ ctxDone /\ Goto(i, "health", "submit")
  /\ CutIf(i, TRUE)
  /\ UNCHANGED <<envVars, mainVars, poolVars, loc, failure, tunnels, measured,
                 calls, serverVars, cacheVars>>

StartHealth(i) ==
  /\ ~ctxDone /\ Goto(i, "health", "healthRun")
  /\ UNCHANGED <<envVars, mainVars, poolVars, workVars, serverVars,
                 cacheVars>>

(* A structural error submits nothing; a result, however bad, is submitted. *)
(* If the context was done meanwhile the result blames the provider for it. *)
RunHealth(i) ==
  /\ \E to \in {"submit"} \cup
               (IF "HealthResults" \in Wired THEN {"healthSubmit"} ELSE {}) :
       Goto(i, "healthRun", to)
  /\ CutIf(i, ctxDone)
  /\ UNCHANGED <<envVars, mainVars, poolVars, loc, failure, tunnels, measured,
                 calls, serverVars, cacheVars>>

(* reportEgressHealth: fire and forget, whatever became of the call. *)
SubmitHealth(i) ==
  /\ Goto(i, "healthSubmit", "submit")
  /\ \E d \in Deliveries :
       healthRows' = IF d.reached THEN healthRows \cup {i} ELSE healthRows
  /\ CutIf(i, ctxDone)
  /\ UNCHANGED <<envVars, mainVars, poolVars, loc, failure, tunnels, measured,
                 calls, stored, attempts, owed, cacheVars>>

(* Locate failed, or Submit refuses an unconfident result without a call. *)
NothingToSubmit(i) ==
  /\ loc[i] # "confident" /\ Goto(i, "submit", AfterProbe(i))
  /\ failure' = [failure EXCEPT ![i] =
       CASE loc[i] = "no_consensus" -> "no_consensus"
         [] loc[i] = "error"        -> "locate_failed"
         [] loc[i] = "unconfident"  -> "not_confident"]
  /\ UNCHANGED <<envVars, mainVars, poolVars, loc, tunnels, measured, calls,
                 cut, serverVars, cacheVars>>

SubmitClassSwallowed(d) == Success
SubmitClass(d) == IF d.acked THEN Success ELSE "submit_failed"

AfterSubmitAlways(i, d) ==
  IF "Bandwidth" \in Wired THEN "bandwidth" ELSE AfterProbe(i)
AfterSubmit(i, d) ==
  IF d.acked /\ "Bandwidth" \in Wired THEN "bandwidth" ELSE AfterProbe(i)

Submit(i) ==
  /\ loc[i] = "confident"
  /\ \E d \in Deliveries :
       /\ stored'  = IF d.reached THEN stored \cup {i} ELSE stored
       /\ owed'    = IF d.acked THEN owed \ {batch[i]} ELSE owed
       /\ failure' = [failure EXCEPT ![i] = SubmitClass(d)]
       /\ Goto(i, "submit", AfterSubmit(i, d))
  /\ CutIf(i, ctxDone)
  /\ UNCHANGED <<envVars, mainVars, poolVars, loc, tunnels, measured, calls,
                 healthRows, attempts, cacheVars>>

(* The sampler returns nothing probeOne looks at. *)
SampleBandwidth(i) ==
  /\ Goto(i, "bandwidth", AfterProbe(i))
  /\ measured' = measured \cup {i}
  /\ CutIf(i, ctxDone)
  /\ UNCHANGED <<envVars, mainVars, poolVars, loc, failure, tunnels, calls,
                 serverVars, cacheVars>>

CloseTunnel(i) ==
  /\ Goto(i, "close", "report")
  /\ tunnels' = tunnels \ {i}
  /\ UNCHANGED <<envVars, mainVars, poolVars, loc, failure, measured, calls,
                 cut, serverVars, cacheVars>>

(* reportAttempt: the same context; an error changes nothing. *)
ReportAttempt(i) ==
  /\ Goto(i, "report", "tally")
  /\ IF "Attempts" \in Wired
     THEN /\ calls' = [calls EXCEPT ![i] = @ + 1]
          /\ \E d \in Deliveries :
               attempts' = IF d.reached THEN attempts \cup {<<i, failure[i]>>}
                                        ELSE attempts
          /\ CutIf(i, ctxDone)
     ELSE UNCHANGED <<calls, cut, attempts>>
  /\ UNCHANGED <<envVars, mainVars, poolVars, loc, failure, tunnels, measured,
                 stored, healthRows, owed, cacheVars>>

TallyFailureAndMark(i) ==
  /\ failure[i] # Success /\ Goto(i, "tally", "mark")
  /\ sum' = [sum EXCEPT !.failed = @ + 1]
  /\ UNCHANGED <<envVars, mainVars, sem, wg, workVars, serverVars, cacheVars>>

TallyFailureSparesServer(i) ==
  /\ failure[i] # Success
  /\ Goto(i, "tally", IF failure[i] = "submit_failed" THEN "mark" ELSE "release")
  /\ sum' = [sum EXCEPT !.failed = @ + 1]
  /\ UNCHANGED <<envVars, mainVars, sem, wg, workVars, serverVars, cacheVars>>

TallyFailure(i) ==
  /\ failure[i] # Success /\ Goto(i, "tally", "release")
  /\ sum' = [sum EXCEPT !.failed = @ + 1]
  /\ UNCHANGED <<envVars, mainVars, sem, wg, workVars, serverVars, cacheVars>>

TallySuccess(i) ==
  /\ failure[i] = Success /\ Goto(i, "tally", "mark")
  /\ sum' = [sum EXCEPT !.submitted = @ + 1]
  /\ UNCHANGED <<envVars, mainVars, sem, wg, workVars, serverVars, cacheVars>>

MarkProbed(i) ==
  /\ Goto(i, "mark", "release")
  /\ probed'   = [probed EXCEPT ![batch[i]] = now]
  /\ lastMark' = [lastMark EXCEPT ![batch[i]] = now]
  /\ UNCHANGED <<envVars, mainVars, poolVars, workVars, serverVars>>

(* The deferred calls run last in, first out: the slot, then wg.Done. *)
ReleaseOnSuccess(i) ==
  /\ Goto(i, "release", "wgdone")
  /\ sem' = IF failure[i] = Success THEN sem - 1 ELSE sem
  /\ UNCHANGED <<envVars, mainVars, wg, sum, workVars, serverVars, cacheVars>>

Release(i) ==
  /\ Goto(i, "release", "wgdone")
  /\ sem' = sem - 1
  /\ UNCHANGED <<envVars, mainVars, wg, sum, workVars, serverVars, cacheVars>>

WgDone(i) ==
  /\ Goto(i, "wgdone", "done")
  /\ wg' = wg - 1
  /\ UNCHANGED <<envVars, mainVars, sem, sum, workVars, serverVars,
                 cacheVars>>

-----------------------------------------------------------------------------
(* The environment. *)

Tick ==
  /\ now < MaxTime
  /\ now' = now + 1
  /\ UNCHANGED <<ctxDone, mainVars, poolVars, pc, workVars, serverVars,
                 cacheVars>>

Signal ==
  /\ ~ctxDone /\ ctxDone' = TRUE
  /\ UNCHANGED <<now, mainVars, poolVars, pc, workVars, serverVars,
                 cacheVars>>

(* After the signal the process leaves the pass loop: nothing more to do. *)
Stopped == main = "idle" /\ ctxDone /\ UNCHANGED vars

Main == SkipCached \/ Admit \/ Spawn \/ EndOfBatch \/ Return

Job(i) ==
  \/ CountAttempt(i) \/ OpenFails(i)  \/ OpenTunnel(i)   \/ Locate(i)
  \/ SkipHealth(i)   \/ StartHealth(i) \/ RunHealth(i)   \/ SubmitHealth(i)
  \/ NothingToSubmit(i) \/ Submit(i)  \/ SampleBandwidth(i)
  \/ CloseTunnel(i)  \/ ReportAttempt(i)
  \/ TallyFailure(i) \/ TallySuccess(i) \/ MarkProbed(i)
  \/ Release(i)      \/ WgDone(i)

Next ==
  \/ \E b \in Batches : BeginRun(b)
  \/ Main
  \/ \E i \in Jobs : Job(i)
  \/ Tick \/ Signal \/ Stopped

Spec == Init /\ [][Next]_vars

(* Every blocking call of a job ends: the tunnel's client, each source, the *)
(* health run and each bandwidth measurement have a timeout, and so has the *)
(* client of the server; Go schedules a runnable goroutine eventually.      *)
Fairness == WF_vars(Main) /\ \A i \in Jobs : WF_vars(Job(i))

FairSpec == Spec /\ Fairness

-----------------------------------------------------------------------------
TypeOK ==
  /\ now \in Time /\ ctxDone \in BOOLEAN
  /\ probed \in [Providers -> Time \cup {Absent}]
  /\ main \in {"idle", "check", "acquire", "wait"}
  /\ batch \in Batches \cup {<<>>}
  /\ next \in 1 .. Len(batch) + 1
  /\ sem \in 0 .. Limit /\ wg \in Nat
  /\ sum \in Summary
  /\ pc \in [Jobs -> Stages]
  /\ loc \in [Jobs -> LocateResults]
  /\ failure \in [Jobs -> Failures \cup {Success}]
  /\ tunnels \subseteq Jobs /\ stored \subseteq Jobs
  /\ healthRows \subseteq Jobs /\ measured \subseteq Jobs /\ cut \subseteq Jobs
  /\ attempts \subseteq Jobs \X (Failures \cup {Success})
  /\ calls \in [Jobs -> Nat]
  /\ lastMark \in [Providers -> Time \cup {Absent}]
  /\ owed \subseteq Providers

(* Jobs that own a semaphore slot. *)
Holders == {i \in Jobs : pc[i] \notin {"none", "wgdone", "done"}}

(* "At most Concurrency tunnels open at once" (Run): the slot is given back *)
(* only after the tunnel is closed, on every path through ProbeOne.         *)
TunnelsWithinLimit == Cardinality(tunnels) <= Limit

(* wg.Wait means what Run needs it to mean: once Run has returned no        *)
(* goroutine of it is still running, holds a slot or has a tunnel open.     *)
NothingOutlivesRun ==
  main = "idle" => /\ tunnels = {} /\ sem = 0
                   /\ \A i \in Jobs : pc[i] \in {"none", "done"}

(* The Summary Run returns is exact: every provider of the batch is counted *)
(* once, as skipped or attempted, and every attempt once, as its outcome.   *)
SummaryIsExact ==
  main = "idle" =>
    LET ran == {i \in Jobs : pc[i] = "done"}
        won == {i \in ran : failure[i] = Success}
    IN  /\ sum.attempted = Cardinality(ran)
        /\ sum.submitted = Cardinality(won)
        /\ sum.failed    = Cardinality(ran \ won)
        /\ sum.skipped   = Len(batch) - Cardinality(ran)

(* prune's comment: evicting an entry "changes no behavior".  The pruned    *)
(* cache and one that never forgets answer recentlyProbed alike, at every   *)
(* instant and not only when prune has just run.                            *)
PruneChangesNoDecision ==
  \A p \in Providers : Fresh(probed, p) <=> Fresh(lastMark, p)

(* A provider is not probed again within CacheTTL of its last success, even *)
(* though the cache is read before the wait for a slot and never re-read.   *)
(* The list must not name a provider twice.                                 *)
NoProbeWithinTTL ==
  (\A i, j \in DOMAIN batch : i # j => batch[i] # batch[j]) =>
    \A i \in Holders : pc[i] # "release" => ~Fresh(lastMark, batch[i])

(* Both lists Run is given are so: the server's is keyed by client id, and  *)
(* listProviders drops a provider it has seen.                              *)
OneJobEach ==
  \A b \in Batches : \A i, j \in DOMAIN b : i # j => b[i] # b[j]

(* "Only successful probes are cached, so a failure is retried on the next  *)
(* run" (Scheduler): from the moment a probe begins, and until some probe   *)
(* of the same provider has its submission acknowledged, recentlyProbed     *)
(* does not put the provider off.  In whatever way the probe failed, and    *)
(* whatever an earlier one achieved: also when the server did store the     *)
(* location and only the reply was lost.                                    *)
FailedIsRetried ==
  OneJobEach => \A p \in owed : ~Fresh(probed, p)

(* What an attempt row says is what happened: it is written after the       *)
(* tunnel closed, a success row is backed by a stored location, a row that  *)
(* names any class but submit_failed by none, and only a country-confident  *)
(* result is ever stored.  Bandwidth is spent behind a stored location      *)
(* only, and does not change the class.                                     *)
AttemptRowsAreTrue ==
  /\ \A a \in attempts :
       /\ a[2] = failure[a[1]] /\ a[1] \notin tunnels
       /\ a[2] = Success => a[1] \in stored
       /\ a[1] \in stored => a[2] \in {Success, "submit_failed"}
  /\ \A i \in stored : loc[i] = "confident"
  /\ \A i \in measured : i \in stored /\ failure[i] = Success

(* "No path through this function can forget" (ProbeOne): every probe makes *)
(* its report, once, whatever failed and whether or not a tunnel opened.    *)
ReportedOnce ==
  "Attempts" \in Wired =>
    \A i \in Jobs :
      calls[i] = IF pc[i] \in {"tally", "mark", "release", "wgdone", "done"}
                 THEN 1 ELSE 0

(* A probe cut short by shutdown accuses nobody: once one of its steps met  *)
(* the done context (sources that could not answer, a health run that       *)
(* failed every destination), the server records nothing more from it.      *)
RowsOf(i) == <<i \in stored, i \in healthRows, {a \in attempts : a[1] = i}>>
NothingRecordedOnceCut == [][\A i \in cut : RowsOf(i)' = RowsOf(i)]_vars

(* Every Run returns, also one that is signalled while it waits for a slot. *)
RunReturns == main # "idle" ~> main = "idle"

(* Shutdown ends: after the signal the pass drains and nothing restarts it. *)
SignalEndsThePass == ctxDone ~> [](main = "idle")

(* ProbeOne's comment and the README: every attempt is reported, success or *)
(* failure, "whatever happened".                                            *)
EveryAttemptRecorded ==
  \A i \in Jobs : pc[i] = "done" => \E a \in attempts : a[1] = i
=============================================================================
