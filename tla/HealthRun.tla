------------------------------ MODULE HealthRun ------------------------------
(***************************************************************************)
(* One egress-health run (egresshealth.Check) with the options that        *)
(* egress-prober gives it: a sample of the destination table, or all of    *)
(* it, fetched by one goroutine per destination over a bounded number of   *)
(* slots, each request under its own deadline and all of them under the    *)
(* run's budget and the pass's context.                                    *)
(*                                                                         *)
(* Time is counted from the start of the run, and passes only when nothing *)
(* is due: a deadline that is reached ends its request, and a goroutine    *)
(* that waits takes a free slot, at once.                                  *)
(***************************************************************************)
EXTENDS Integers, FiniteSets, FiniteSetsExt

CONSTANTS
  Table,               (* the destinations                                  *)
  Class,               (* the class of each                                 *)
  Contract,            (* what each expects of its reply                    *)
  SampleSize,          (* sampleSizes, 0 for a class that declares none     *)
  ProbeTimeout,        (* -probe-timeout                                    *)
  Modes,               (* the values -egress-health-all may have            *)
  DefaultConcurrency,  (* slots of a sampled run                            *)
  AllConcurrency       (* slots of a run over the whole table               *)

Classes  == {Class[d] : d \in Table}
Expects  == {"body", "status", "reachable"}
Statuses == {200, 204, 301, 403}
Bodies   == {"empty", "other", "verified"}

ASSUME TableAssumption ==
  /\ IsFiniteSet(Table) /\ Table # {}
  /\ Contract \in [Table -> [expect : Expects, status : Nat, verify : BOOLEAN]]
  /\ SampleSize \in [Classes -> Nat]
ASSUME OptionsAssumption ==
  /\ ProbeTimeout \in Nat \ {0} /\ Modes \subseteq BOOLEAN
  /\ DefaultConcurrency \in Nat \ {0} /\ AllConcurrency \in Nat \ {0}

VARIABLES
  now,       (* time since the run started                                  *)
  ctxDone,   (* the pass's context is done                                  *)
  provider,  (* what the provider does with traffic, fixed                  *)
  all,       (* -egress-health-all, fixed                                   *)
  phase,     (* "idle", "running", "returned" or "refused"                  *)
  dests,     (* the destinations of this run                                *)
  state,     (* where the goroutine of each one stands                      *)
  begun,     (* when its request was sent                                   *)
  sem,       (* slots taken                                                 *)
  ok,        (* destinations that passed                                    *)
  why        (* history: what ended the request of each                     *)

vars == <<now, ctxDone, provider, all, phase, dests, state, begun, sem, ok, why>>

-----------------------------------------------------------------------------
(* The arithmetic of the options. *)

CeilDiv(a, b) == (a + b - 1) \div b

OfClass(c) == {d \in Table : Class[d] = c}

SampleCount(c) ==
  LET total == Cardinality(OfClass(c))
  IN  IF SampleSize[c] = 0 \/ total < SampleSize[c] THEN total ELSE SampleSize[c]

SamplePerRun == MapThenSumSet(SampleCount, Classes)

Rounds == IF SamplePerRun = 0 THEN 1 ELSE CeilDiv(SamplePerRun, DefaultConcurrency)

(* One -probe-timeout for the whole run, divided across the rounds. *)
PerRequestUndivided == ProbeTimeout
PerRequest ==
  LET share == ProbeTimeout \div Rounds
  IN  IF share <= 0 THEN ProbeTimeout ELSE share

BudgetTruncated ==
  IF all THEN (Cardinality(Table) \div AllConcurrency) * PerRequest
                     ELSE ProbeTimeout
Budget ==
  IF all THEN CeilDiv(Cardinality(Table), AllConcurrency) * PerRequest
                     ELSE ProbeTimeout

(* Bound on the clock: past every deadline, so that a run which would never *)
(* return shows as one that stops here.                                     *)
Horizon == Budget + 1

Concurrency == IF all THEN AllConcurrency ELSE DefaultConcurrency

(* sampleDestinations draws every such subset with the same probability. *)
Samples ==
  {s \in SUBSET Table :
     \A c \in Classes : Cardinality(s \cap OfClass(c)) = SampleCount(c)}

-----------------------------------------------------------------------------
(* judge: a status line is not evidence of anything unless the destination  *)
(* says so.                                                                 *)
Judge(d, r) ==
  LET want == Contract[d]
  IN  /\ CASE want.expect = "status"    -> 0 < want.status /\ r.status = want.status
           [] want.expect = "reachable" -> 200 <= r.status /\ r.status < 400
           [] want.expect = "body"      -> /\ 200 <= r.status /\ r.status < 300
                                           /\ r.body # "empty"
      /\ want.verify => r.body = "verified"

Providers == {"carries", "swallows", "stubs"}

(* What may come back through each kind of provider: anything, nothing, or  *)
(* a bare 200 of its own making.                                            *)
Replies ==
  CASE provider = "carries"  -> [status : Statuses, body : Bodies]
    [] provider = "swallows" -> {}
    [] provider = "stubs"    -> {[status |-> 200, body |-> "empty"]}

-----------------------------------------------------------------------------
Init ==
  /\ now = 0 /\ ctxDone = FALSE /\ provider \in Providers /\ all \in Modes
  /\ phase = "idle" /\ dests = {} /\ sem = 0 /\ ok = {}
  /\ state = [d \in Table |-> "out"]
  /\ begun = [d \in Table |-> 0]
  /\ why = [d \in Table |-> "none"]

(* ErrNoBudget: a context that is done on entry is not a run. *)
Refuse ==
  /\ phase = "idle" /\ ctxDone
  /\ phase' = "refused"
  /\ UNCHANGED <<now, ctxDone, provider, all, dests, state, begun, sem, ok, why>>

Begin ==
  /\ phase = "idle" /\ ~ctxDone /\ phase' = "running"
  /\ dests' \in IF all THEN {Table} ELSE Samples
  /\ state' = [d \in Table |-> IF d \in dests' THEN "waiting" ELSE "out"]
  /\ UNCHANGED <<now, ctxDone, provider, all, begun, sem, ok, why>>

SlotFree == sem < Concurrency

(* The send on the semaphore does not look at the context. *)
Send(d) ==
  /\ phase = "running" /\ state[d] = "waiting" /\ SlotFree
  /\ sem' = sem + 1
  /\ state' = [state EXCEPT ![d] = "flight"]
  /\ begun' = [begun EXCEPT ![d] = now]
  /\ UNCHANGED <<now, ctxDone, provider, all, phase, dests, ok, why>>

(* The end of fetch, whatever it came to, gives the slot back. *)
SlotsAfterLeaking(reason) == IF reason = "answered" THEN sem - 1 ELSE sem
SlotsAfter(reason) == sem - 1

End(d, reason) ==
  /\ state[d] = "flight"
  /\ state' = [state EXCEPT ![d] = "ended"]
  /\ sem' = SlotsAfter(reason)
  /\ why' = [why EXCEPT ![d] = reason]
  /\ UNCHANGED <<now, ctxDone, provider, all, phase, dests, begun>>

(* Each request runs under the earlier of its own deadline and the run's. *)
DeadlineOwn(d) == begun[d] + ProbeTimeout
Deadline(d) ==
  IF begun[d] + PerRequest < Budget THEN begun[d] + PerRequest ELSE Budget

Answer(d) ==
  /\ ~ctxDone /\ now <= Deadline(d)
  /\ End(d, "answered")
  /\ \E r \in Replies : ok' = IF Judge(d, r) THEN ok \cup {d} ELSE ok

(* The provider drops the connection, or the body breaks off. *)
Break(d) ==
  /\ ~ctxDone /\ End(d, "broken") /\ UNCHANGED ok

(* The request times out, or is cut off while it still had time of its own. *)
Expire(d) ==
  /\ Deadline(d) <= now
  /\ End(d, IF begun[d] + PerRequest <= now THEN "timeout" ELSE "budget")
  /\ UNCHANGED ok

Cancel(d) == ctxDone /\ End(d, "cancelled") /\ UNCHANGED ok

(* wg.Wait, and the tallies over dests. *)
Return ==
  /\ phase = "running" /\ \A d \in dests : state[d] = "ended"
  /\ phase' = "returned"
  /\ UNCHANGED <<now, ctxDone, provider, all, dests, state, begun, sem, ok, why>>

Due ==
  \/ \E d \in dests : /\ state[d] = "flight"
                      /\ ctxDone \/ Deadline(d) <= now
  \/ SlotFree /\ \E d \in dests : state[d] = "waiting"
  \/ \A d \in dests : state[d] = "ended"

Tick ==
  /\ phase = "running" /\ ~Due /\ now < Horizon
  /\ now' = now + 1
  /\ UNCHANGED <<ctxDone, provider, all, phase, dests, state, begun, sem, ok, why>>

Signal ==
  /\ phase \in {"idle", "running"} /\ ~ctxDone /\ ctxDone' = TRUE
  /\ UNCHANGED <<now, provider, all, phase, dests, state, begun, sem, ok, why>>

Done == phase \in {"returned", "refused"} /\ UNCHANGED vars

Fetch(d) == Send(d) \/ Answer(d) \/ Break(d) \/ Expire(d) \/ Cancel(d)

Next ==
  \/ Refuse \/ Begin \/ Return \/ Tick \/ Signal \/ Done
  \/ \E d \in Table : Fetch(d)

Spec == Init /\ [][Next]_vars

(* Goroutines run, and time passes when nothing else is due. *)
Fairness == /\ WF_vars(Return) /\ WF_vars(Tick)
            /\ \A d \in Table : WF_vars(Send(d)) /\ WF_vars(Expire(d))
                                /\ WF_vars(Cancel(d))
FairSpec == Spec /\ Fairness

-----------------------------------------------------------------------------
States  == {"out", "waiting", "flight", "ended"}
Reasons == {"none", "answered", "broken", "timeout", "budget", "cancelled"}

TypeOK ==
  /\ now \in Nat /\ ctxDone \in BOOLEAN /\ provider \in Providers
  /\ all \in Modes /\ phase \in {"idle", "running", "returned", "refused"}
  /\ dests \subseteq Table /\ ok \subseteq dests
  /\ state \in [Table -> States] /\ begun \in [Table -> Nat]
  /\ sem \in 0 .. Concurrency /\ why \in [Table -> Reasons]

(* The three numbers are one piece of arithmetic: no destination is failed  *)
(* because the run's budget ran out while its request still had time of its *)
(* own, in whatever order the slots came free.                              *)
NobodyCutByBudget == \A d \in Table : why[d] # "budget"

(* "A FULL health run costs at most ONE additional -probe-timeout per       *)
(* provider, whatever the provider does" (egressHealthOptions, README).     *)
OneProbeTimeout == phase = "returned" => now <= ProbeTimeout

(* What of that holds: a run over a sample costs one -probe-timeout at      *)
(* most, though every one of its requests waits for a slot.                 *)
SampleCostsOneProbeTimeout ==
  phase = "returned" /\ ~all => now <= ProbeTimeout

(* Every run comes back, even through a provider that swallows everything.  *)
RunReturns == phase = "running" ~> phase = "returned"
=============================================================================
