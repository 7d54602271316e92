---------------------------- MODULE EgressProber ----------------------------
(***************************************************************************)
(* The egress-prober process (cmd/egress-prober/main.go): the gates it     *)
(* passes at startup, the loop of passes, the two schedulers with their    *)
(* separate caches, the certificate pins and their refresh, and the exit   *)
(* code.                                                                   *)
(*                                                                         *)
(* A Run is taken as PassSpec promises it, with the order and the          *)
(* concurrency of its probes left out: each provider of the list is        *)
(* skipped, located or failed, once.  Time is the age of what depends on   *)
(* it, capped where the code stops telling ages apart.                     *)
(***************************************************************************)
EXTENDS Integers, FiniteSets

CONSTANTS
  Providers,       (* provider client ids                                   *)
  Locations,       (* locations the server may list                         *)
  At,              (* the providers at each location                        *)
  SourceHosts,     (* geolocate.SourceHosts: the hosts that must be pinned  *)
  OtherHosts,      (* hosts the server may serve a pin for besides          *)
  ProbeHosts,      (* what the confinement check must find unreachable      *)
  Configs,         (* the command lines the process may be started with     *)
  MinTimeout,      (* confinement.MinTimeout                                *)
  CacheTTL,        (* -cache-ttl                                            *)
  RefreshInterval  (* -pin-refresh-interval                                 *)

ASSUME LocationsAssumption == At \in [Locations -> SUBSET Providers]
ASSUME HostsAssumption ==
  SourceHosts # {} /\ SourceHosts \subseteq ProbeHosts /\ IsFiniteSet(ProbeHosts)
ASSUME ConfigsAssumption ==
  Configs \subseteq [complete : BOOLEAN, jwt : BOOLEAN, skipCheck : BOOLEAN,
                     interval : Int, least : Int, confinement : Int,
                     explicit : SUBSET ProbeHosts]
ASSUME TimeAssumption ==
  MinTimeout \in Nat /\ CacheTTL \in Nat /\ RefreshInterval \in Nat \ {0}

VARIABLES
  cfg,       (* the command line, fixed                                     *)
  open,      (* the hosts a direct connection reaches, fixed                *)
  hasDue,    (* the server has deployed the due endpoint                    *)
  secretOK,  (* the server still accepts the operator secret                *)
  ctxDone,   (* SIGTERM or SIGINT arrived                                   *)
  phase,     (* where main stands                                           *)
  code,      (* the exit code, once phase is "exited"                       *)
  toDial,    (* addresses the confinement check has still to dial           *)
  blocked,   (* addresses it found unreachable                              *)
  pins,      (* the hosts of the pin set in force                           *)
  pinAge,    (* its age, up to RefreshInterval                              *)
  toList,    (* locations listProviders has still to ask for                *)
  todo,      (* providers of this pass not yet seen to                      *)
  driven,    (* the server chose this pass's providers                      *)
  age,       (* age[s][p]: age of p's entry in the cache of scheduler s,    *)
             (* CacheTTL for one that is expired or absent                  *)
  sum,       (* the Summary of the pass                                     *)
  idle,      (* history: addresses dialled under a done context             *)
  fetched    (* history: some call for this pass's providers was answered   *)

serverVars == <<hasDue, secretOK>>
gateVars   == <<toDial, blocked, idle>>
pinVars    == <<pins, pinAge>>
passVars   == <<toList, todo, driven, age, sum, fetched>>
vars == <<cfg, open, serverVars, ctxDone, phase, code, gateVars, pinVars, passVars>>

-----------------------------------------------------------------------------
Phases == {"flags", "confinement", "dial", "jwt", "pins", "refresh", "select",
           "locations", "enumerate", "run", "returned", "sleep", "exited"}
Running == 3   (* no exit code yet *)

Schedulers == {"due", "enum"}
Scheduler == IF driven THEN "due" ELSE "enum"

(* newSchedulers: the server's list is not filtered a second time. *)
TTLShared(s) == CacheTTL
TTL(s) == IF s = "due" THEN 0 ELSE CacheTTL

NoSummary == [attempted |-> 0, submitted |-> 0, skipped |-> 0, failed |-> 0]
Summary == [attempted : Nat, submitted : Nat, skipped : Nat, failed : Nat]

Single == cfg.interval = 0

(* The flag checks of main, each of them exit 2. *)
FlagsValid ==
  /\ cfg.complete /\ 0 <= cfg.interval
  /\ 0 < cfg.least                       (* the four that must be positive *)
  /\ MinTimeout <= cfg.confinement

(* A call through the context fails once it is done. *)
Answers == ~ctxDone

Exit(c)   == phase' = "exited" /\ code' = c
GoOn(to)  == phase' = to /\ UNCHANGED code

Init ==
  /\ cfg \in Configs /\ open \in SUBSET ProbeHosts
  /\ hasDue \in BOOLEAN /\ secretOK \in BOOLEAN
  /\ ctxDone = FALSE /\ phase = "flags" /\ code = Running
  /\ toDial = {} /\ blocked = {} /\ idle = {}
  /\ pins = {} /\ pinAge = RefreshInterval
  /\ toList = {} /\ todo = {} /\ driven = FALSE /\ fetched = FALSE
  /\ age = [s \in Schedulers |-> [p \in Providers |-> CacheTTL]]
  /\ sum = NoSummary

-----------------------------------------------------------------------------
(* Startup: four gates. *)

CheckFlags ==
  /\ phase = "flags"
  /\ IF ~FlagsValid THEN Exit(2)
     ELSE GoOn(IF cfg.skipCheck THEN "jwt" ELSE "confinement")
  /\ UNCHANGED <<cfg, open, serverVars, ctxDone, gateVars, pinVars, passVars>>

(* The addresses to dial: those given, else whichever hosts resolve.  None  *)
(* at all is no evidence, which is refused like its opposite.               *)
Resolved == IF cfg.explicit # {} THEN {cfg.explicit}
            ELSE IF Answers THEN SUBSET ProbeHosts ELSE {{}}

NoEvidenceIgnored(addrs) == FALSE
NoEvidence(addrs) == addrs = {}

ResolveProbeHosts ==
  /\ phase = "confinement"
  /\ \E addrs \in Resolved :
       /\ toDial' = addrs
       /\ IF NoEvidence(addrs) THEN Exit(1) ELSE GoOn("dial")
  /\ UNCHANGED <<cfg, open, serverVars, ctxDone, blocked, idle, pinVars, passVars>>

(* Verify: one connection that succeeds is enough to refuse. *)
Connects(h) == h \in open /\ Answers

DialDirect(h) ==
  /\ phase = "dial" /\ h \in toDial
  /\ toDial' = toDial \ {h}
  /\ IF Connects(h) THEN Exit(1) /\ UNCHANGED blocked
                    ELSE GoOn("dial") /\ blocked' = blocked \cup {h}
  /\ idle' = IF ctxDone THEN idle \cup {h} ELSE idle
  /\ UNCHANGED <<cfg, open, serverVars, ctxDone, pinVars, passVars>>

Verified ==
  /\ phase = "dial" /\ toDial = {} /\ GoOn("jwt")
  /\ UNCHANGED <<cfg, open, serverVars, ctxDone, gateVars, pinVars, passVars>>

ParseJwt ==
  /\ phase = "jwt"
  /\ IF cfg.jwt THEN GoOn("pins") ELSE Exit(1)
  /\ UNCHANGED <<cfg, open, serverVars, ctxDone, gateVars, pinVars, passVars>>

-----------------------------------------------------------------------------
(* The certificate pins. *)

(* What GeolocationPins may return: nothing (an error), or per host a whole *)
(* pin, half of one, or none.                                               *)
PinReplies ==
  IF Answers /\ secretOK
  THEN [SourceHosts \cup OtherHosts -> {"whole", "half", "none"}] ELSE {}

(* validateGeolocationPins: every source host whole, or no set at all; the  *)
(* hosts nobody asked for are dropped.                                      *)
UsableFiltered(r) == TRUE
Usable(r) == \A h \in SourceHosts : r[h] = "whole"
AcceptedAll(r) == {h \in DOMAIN r : r[h] = "whole"}
Accepted(r) == {h \in SourceHosts : r[h] = "whole"}

FetchSucceeds ==
  \E r \in PinReplies : Usable(r) /\ pins' = Accepted(r) /\ pinAge' = 0

(* The fetch can always fail: the server may be down or never have observed *)
(* a host.                                                                  *)
StartupPins ==
  /\ phase = "pins"
  /\ \/ FetchSucceeds /\ GoOn("refresh")
     \/ UNCHANGED pinVars /\ Exit(1)
  /\ UNCHANGED <<cfg, open, serverVars, ctxDone, gateVars, passVars>>

(* refreshGeolocationPins: a failure keeps the last good set. *)
RefreshFails == UNCHANGED pinVars

RefreshPins ==
  /\ phase = "refresh" /\ GoOn("select")
  /\ IF pinAge < RefreshInterval THEN UNCHANGED pinVars
     ELSE FetchSucceeds \/ RefreshFails
  /\ UNCHANGED <<cfg, open, serverVars, ctxDone, gateVars, passVars>>

-----------------------------------------------------------------------------
(* selectProviders. *)

(* The scheduler is given its list: fresh counters, expired entries pruned  *)
(* (which the capped ages have already forgotten).                          *)
StartRun(ids) ==
  /\ GoOn("run")
  /\ todo' = ids /\ sum' = NoSummary

DueAnswers ==
  /\ phase = "select" /\ Answers /\ hasDue /\ secretOK
  /\ \E ids \in SUBSET Providers : StartRun(ids)
  /\ driven' = TRUE /\ fetched' = TRUE
  /\ UNCHANGED <<cfg, open, serverVars, ctxDone, gateVars, pinVars, toList, age>>

(* 404 and only 404 falls back. *)
MayFallBackOnAnyError == phase = "select"
MayFallBack == phase = "select" /\ Answers /\ ~hasDue

DueUnsupported ==
  /\ MayFallBack /\ GoOn("locations")
  /\ driven' = FALSE /\ fetched' = FALSE
  /\ UNCHANGED <<cfg, open, serverVars, ctxDone, gateVars, pinVars, toList, todo,
                 age, sum>>

(* The select at the end of the loop, taken at once if the signal is there. *)
EndOfLoopDeaf == GoOn("sleep")
EndOfLoop == IF ctxDone THEN Exit(0) ELSE GoOn("sleep")

(* The list could not be had: a daemon sleeps, a single shot has failed. *)
GiveUpAlways == Exit(1)
GiveUp == IF Single THEN Exit(1) ELSE EndOfLoop

(* Anything else: a refused secret, a refusal, an unreachable server. *)
DueFails ==
  /\ phase = "select"
  /\ GiveUp /\ driven' = FALSE /\ fetched' = FALSE
  /\ UNCHANGED <<cfg, open, serverVars, ctxDone, gateVars, pinVars, toList, todo,
                 age, sum>>

ListLocations ==
  /\ phase = "locations" /\ Answers
  /\ \E ls \in SUBSET Locations : toList' = ls /\ fetched' = (ls = {})
  /\ todo' = {} /\ GoOn("enumerate")
  /\ UNCHANGED <<cfg, open, serverVars, ctxDone, gateVars, pinVars, driven, age,
                 sum>>

ListLocationsFails ==
  /\ phase = "locations" /\ GiveUp
  /\ UNCHANGED <<cfg, open, serverVars, ctxDone, gateVars, pinVars, passVars>>

(* A location whose providers cannot be had is passed over. *)
AfterMissRetried(l) == toList
AfterMiss(l) == toList \ {l}

FindProvidersAt(l) ==
  /\ phase = "enumerate" /\ l \in toList
  /\ \/ /\ Answers /\ toList' = toList \ {l}
        /\ todo' = todo \cup At[l] /\ fetched' = TRUE
     \/ toList' = AfterMiss(l) /\ UNCHANGED <<todo, fetched>>
  /\ UNCHANGED <<cfg, open, serverVars, ctxDone, phase, code, gateVars, pinVars,
                 driven, age, sum>>

Enumerated ==
  /\ phase = "enumerate" /\ toList = {} /\ StartRun(todo)
  /\ UNCHANGED <<cfg, open, serverVars, ctxDone, gateVars, pinVars, toList,
                 driven, age, fetched>>

-----------------------------------------------------------------------------
(* Scheduler.Run, as PassSpec promises it. *)

Fresh(p) == age[Scheduler][p] < TTL(Scheduler)

Skip(p) ==
  /\ phase = "run" /\ p \in todo /\ Fresh(p)
  /\ todo' = todo \ {p} /\ sum' = [sum EXCEPT !.skipped = @ + 1]
  /\ UNCHANGED <<cfg, open, serverVars, ctxDone, phase, code, gateVars, pinVars,
                 toList, driven, age, fetched>>

Attempted == [sum EXCEPT !.attempted = @ + 1]

(* Nothing is submitted under a done context or with a refused secret. *)
LocateProvider(p) ==
  /\ phase = "run" /\ p \in todo /\ ~Fresh(p) /\ Answers /\ secretOK
  /\ todo' = todo \ {p}
  /\ sum' = [Attempted EXCEPT !.submitted = @ + 1]
  /\ age' = [age EXCEPT ![Scheduler][p] = 0]
  /\ UNCHANGED <<cfg, open, serverVars, ctxDone, phase, code, gateVars, pinVars,
                 toList, driven, fetched>>

FailProvider(p) ==
  /\ phase = "run" /\ p \in todo /\ ~Fresh(p)
  /\ todo' = todo \ {p}
  /\ sum' = [Attempted EXCEPT !.failed = @ + 1]
  /\ UNCHANGED <<cfg, open, serverVars, ctxDone, phase, code, gateVars, pinVars,
                 toList, driven, age, fetched>>

RunReturns ==
  /\ phase = "run" /\ todo = {} /\ GoOn("returned")
  /\ UNCHANGED <<cfg, open, serverVars, ctxDone, gateVars, pinVars, passVars>>

(* A single shot reports a pass that only failed; a daemon sleeps, or       *)
(* leaves at once if it was told to stop.                                   *)
PassFailedOutright == sum.submitted = 0 /\ sum.attempted = 0
PassFailed == sum.submitted = 0 /\ 0 < sum.failed

EndPass ==
  /\ phase = "returned"
  /\ IF Single THEN Exit(IF PassFailed THEN 1 ELSE 0) ELSE EndOfLoop
  /\ UNCHANGED <<cfg, open, serverVars, ctxDone, gateVars, pinVars, passVars>>

-----------------------------------------------------------------------------
(* The sleep between passes; if the signal and the timer come together      *)
(* select takes either.                                                     *)
Wake ==
  /\ phase = "sleep" /\ GoOn("refresh")
  /\ UNCHANGED <<cfg, open, serverVars, ctxDone, gateVars, pinVars, passVars>>

StopWhileAsleep ==
  /\ phase = "sleep" /\ ctxDone /\ Exit(0)
  /\ UNCHANGED <<cfg, open, serverVars, ctxDone, gateVars, pinVars, passVars>>

-----------------------------------------------------------------------------
(* The environment. *)

Older(a, cap) == IF a < cap THEN a + 1 ELSE cap

Tick ==
  /\ phase # "exited"
  /\ pinAge' = Older(pinAge, RefreshInterval)
  /\ age' = [s \in Schedulers |-> [p \in Providers |-> Older(age[s][p], CacheTTL)]]
  /\ UNCHANGED <<cfg, open, serverVars, ctxDone, phase, code, gateVars, pins,
                 toList, todo, driven, sum, fetched>>

(* NotifyContext is set up after the flags are checked. *)
Signal ==
  /\ phase \notin {"flags", "exited"} /\ ~ctxDone
  /\ ctxDone' = TRUE
  /\ UNCHANGED <<cfg, open, serverVars, phase, code, gateVars, pinVars, passVars>>

(* The operator upgrades the server, or rotates the secret under a prober   *)
(* that keeps the old one.                                                  *)
DeployDue ==
  /\ phase # "exited" /\ ~hasDue /\ hasDue' = TRUE
  /\ UNCHANGED <<cfg, open, secretOK, ctxDone, phase, code, gateVars, pinVars,
                 passVars>>

RotateSecret ==
  /\ phase # "exited" /\ secretOK /\ secretOK' = FALSE
  /\ UNCHANGED <<cfg, open, hasDue, ctxDone, phase, code, gateVars, pinVars,
                 passVars>>

Startup == CheckFlags \/ ResolveProbeHosts \/ (\E h \in ProbeHosts : DialDirect(h))
           \/ Verified \/ ParseJwt \/ StartupPins
Select  == RefreshPins \/ DueAnswers \/ DueUnsupported \/ DueFails
           \/ ListLocations \/ ListLocationsFails
           \/ (\E l \in Locations : FindProvidersAt(l)) \/ Enumerated
Pass    == (\E p \in Providers : Skip(p) \/ LocateProvider(p) \/ FailProvider(p))
           \/ RunReturns \/ EndPass
Sleep   == Wake \/ StopWhileAsleep
Main    == Startup \/ Select \/ Pass \/ Sleep

Exited == phase = "exited" /\ UNCHANGED vars

Next == Main \/ Tick \/ Signal \/ DeployDue \/ RotateSecret \/ Exited

Spec == Init /\ [][Next]_vars

(* Every call main makes has a timeout and Run returns (ProbePass).         *)
Fairness == WF_vars(Main)
FairSpec == Spec /\ Fairness

-----------------------------------------------------------------------------
TypeOK ==
  /\ cfg \in Configs /\ open \subseteq ProbeHosts
  /\ hasDue \in BOOLEAN /\ secretOK \in BOOLEAN /\ ctxDone \in BOOLEAN
  /\ phase \in Phases /\ code \in 0 .. Running
  /\ toDial \subseteq ProbeHosts /\ blocked \subseteq ProbeHosts
  /\ idle \subseteq ProbeHosts
  /\ pins \subseteq SourceHosts /\ pinAge \in 0 .. RefreshInterval
  /\ toList \subseteq Locations /\ todo \subseteq Providers
  /\ driven \in BOOLEAN /\ fetched \in BOOLEAN
  /\ age \in [Schedulers -> [Providers -> 0 .. CacheTTL]]
  /\ sum \in Summary

Looping == phase \in {"refresh", "select", "locations", "enumerate", "run",
                      "returned", "sleep"}

(* No pass is begun on a host that has not been shown to be confined: at    *)
(* least one address was dialled, none of them connected, and none was      *)
(* found unreachable only because the signal had cancelled the dial.        *)
ProbesOnlyConfined ==
  Looping /\ ~cfg.skipCheck =>
    blocked # {} /\ blocked \cap open = {} /\ idle = {}

(* Never an unpinned probe: while the prober may open a tunnel, the pin set *)
(* covers every geolocation source, whatever the server answered to however *)
(* many refreshes, and the server has not widened it.                       *)
NeverUnpinned == Looping => pins = SourceHosts

(* The server's list is authoritative: a provider it names is attempted in  *)
(* that very pass, however recently any earlier pass located it.            *)
ServerDrivenSkipsNobody ==
  phase = "returned" /\ driven => sum.skipped = 0

(* A refused secret is not hidden behind a full-looking pass: with the due  *)
(* endpoint there, no pass is begun while the server refuses the secret.    *)
RefusedSecretStartsNothing ==
  [][phase = "select" /\ phase' # "select" /\ hasDue /\ ~secretOK
       => phase' \in {"sleep", "exited"}]_vars

(* A single shot that exits 0 located somebody or attempted nobody: what it *)
(* reports to cron agrees with what its probes did, on every path out.      *)
SingleShotIsHonest ==
  phase = "exited" /\ code = 0 /\ Single =>
    0 < sum.submitted \/ sum.attempted = 0

(* A daemon that has begun its loop leaves it only when told to, and then   *)
(* successfully: no outage of the server ends it.                           *)
DaemonOnlyStopsWhenTold ==
  [][Looping /\ phase' = "exited" /\ ~Single => ctxDone /\ code' = 0]_vars

(* SIGTERM ends the process from wherever it is.                            *)
SignalEndsTheProcess == ctxDone ~> phase = "exited"

(* A daemon that has begun its loop comes round to its list again and       *)
(* again, through every outage of the server, or leaves because it was told *)
(* to, and then successfully.                                               *)
DaemonKeepsPassing ==
  Looping /\ ~Single ~> \/ phase = "select"
                        \/ phase = "exited" /\ ctxDone /\ code = 0

(* README, exit codes: a single shot "exits non-zero if the provider list   *)
(* could not be fetched at all".                                            *)
ExitZeroMeansFetched ==
  phase = "exited" /\ code = 0 /\ Single => fetched
=============================================================================
