------------------------- MODULE EgressProberProofs -------------------------
(***************************************************************************)
(* Theorems about EgressProber, for every fleet, every set of hosts, every *)
(* command line and every behaviour of the server; and about DueQueue, the *)
(* same prober with the server's queue, reports that are lost and crashes. *)
(***************************************************************************)
EXTENDS DueQueue, FiniteSetTheorems, TLAPS

(* What each gate of the startup has established, once main is past it. *)
PastDial   == phase \in {"jwt", "pins"} \/ Looping
Established ==
  /\ cfg \in Configs
  /\ phase \in {"dial", "jwt", "pins"} \/ Looping
       => cfg.skipCheck \/ toDial \cup blocked # {}
  /\ PastDial => cfg.skipCheck \/ toDial = {}
  /\ blocked \cap open = {} \/ idle # {}
  /\ idle # {} => ctxDone /\ ~Looping
  /\ Looping => pins = SourceHosts

-----------------------------------------------------------------------------
LEMMA EstablishedInit == Init => Established
BY DEF Init, Established, PastDial, Looping

LEMMA EstablishedStartup == Established /\ Startup => Established'
<1> SUFFICES ASSUME Established, Startup PROVE Established'
  OBVIOUS
<1> USE DEF Established, PastDial, Looping, GoOn, Exit, gateVars, pinVars
<1>1. CASE CheckFlags
  BY <1>1 DEF CheckFlags
<1>2. CASE ResolveProbeHosts
  BY <1>2 DEF ResolveProbeHosts, NoEvidence
<1>3. ASSUME NEW h \in ProbeHosts, DialDirect(h) PROVE Established'
  BY <1>3 DEF DialDirect, Connects, Answers
<1>4. CASE Verified
  BY <1>4 DEF Verified
<1>5. CASE ParseJwt
  BY <1>5 DEF ParseJwt
<1>6. CASE StartupPins
  <2>1. CASE FetchSucceeds /\ GoOn("refresh")
    <3>1. pins' = SourceHosts /\ ~ctxDone
      BY <2>1 DEF FetchSucceeds, PinReplies, Usable, Accepted, Answers
    <3> QED BY <1>6, <2>1, <3>1 DEF StartupPins
  <2>2. CASE UNCHANGED pinVars /\ Exit(1)
    BY <1>6, <2>2 DEF StartupPins
  <2> QED BY <1>6, <2>1, <2>2 DEF StartupPins
<1> QED BY <1>1, <1>2, <1>3, <1>4, <1>5, <1>6 DEF Startup

(* The loop only ever replaces a pin set by a whole one, and never goes     *)
(* back to a gate.                                                          *)
LEMMA LoopKeeps ==
  ASSUME Established, Select \/ Pass \/ Sleep
  PROVE  /\ Looping /\ (Looping' \/ phase' = "exited")
         /\ UNCHANGED <<cfg, open, ctxDone, toDial, blocked, idle>>
         /\ pins' = SourceHosts
<1> USE DEF Established, Looping, GoOn, Exit, GiveUp, EndOfLoop, gateVars, pinVars
<1>1. CASE RefreshPins
  <2>1. FetchSucceeds => pins' = SourceHosts
    BY DEF FetchSucceeds, PinReplies, Usable, Accepted
  <2> QED BY <1>1, <2>1 DEF RefreshPins, RefreshFails
<1>2. CASE DueAnswers \/ DueUnsupported \/ DueFails
  BY <1>2 DEF DueAnswers, DueUnsupported, DueFails, MayFallBack, StartRun
<1>3. CASE ListLocations \/ ListLocationsFails \/ Enumerated
  BY <1>3 DEF ListLocations, ListLocationsFails, Enumerated, StartRun
<1>4. ASSUME NEW l \in Locations, FindProvidersAt(l)
      PROVE  /\ Looping /\ Looping'
             /\ UNCHANGED <<cfg, open, ctxDone, toDial, blocked, idle, pins>>
  BY <1>4 DEF FindProvidersAt
<1>5. ASSUME NEW p \in Providers, Skip(p) \/ LocateProvider(p) \/ FailProvider(p)
      PROVE  /\ Looping /\ Looping'
             /\ UNCHANGED <<cfg, open, ctxDone, toDial, blocked, idle, pins>>
  BY <1>5 DEF Skip, LocateProvider, FailProvider
<1>6. CASE RunReturns \/ EndPass \/ Sleep
  BY <1>6 DEF RunReturns, EndPass, Sleep, Wake, StopWhileAsleep
<1> QED BY <1>1, <1>2, <1>3, <1>4, <1>5, <1>6 DEF Select, Pass

LEMMA EstablishedNext == Established /\ [Next]_vars => Established'
<1> SUFFICES ASSUME Established, [Next]_vars PROVE Established'
  OBVIOUS
<1>1. CASE Startup
  BY <1>1, EstablishedStartup
<1>2. CASE Select \/ Pass \/ Sleep
  BY <1>2, LoopKeeps DEF Established, PastDial, Looping
<1>3. CASE Tick \/ Signal \/ DeployDue \/ RotateSecret
  BY <1>3 DEF Tick, Signal, DeployDue, RotateSecret, Established, PastDial,
     Looping, gateVars, pinVars
<1>4. CASE Exited \/ UNCHANGED vars
  BY <1>4 DEF Exited, vars, Established, PastDial, Looping, gateVars, pinVars
<1> QED BY <1>1, <1>2, <1>3, <1>4 DEF Next, Main

LEMMA EstablishedInvariant == Spec => []Established
BY EstablishedInit, EstablishedNext, PTL DEF Spec

(* No pass begins on a host not shown to be confined: a check the signal    *)
(* made vacuous is caught by the pin fetch, which the same signal fails.    *)
THEOREM OnlyConfined == Spec => []ProbesOnlyConfined
<1>1. Established => ProbesOnlyConfined
  BY DEF Established, PastDial, ProbesOnlyConfined, Looping
<1> QED BY <1>1, EstablishedInvariant, PTL

(* No pass ever runs with a pin set that leaves a source out or adds a host, *)
(* whatever the server serves and however many refreshes fail.              *)
THEOREM Pinned == Spec => []NeverUnpinned
<1>1. Established => NeverUnpinned
  BY DEF Established, NeverUnpinned
<1> QED BY <1>1, EstablishedInvariant, PTL

-----------------------------------------------------------------------------
(* The Summary of a pass. *)

Tallied ==
  /\ age \in [Schedulers -> [Providers -> Nat]]
  /\ sum \in Summary /\ sum.attempted = sum.submitted + sum.failed
  /\ phase \in {"run", "returned"} /\ driven => sum.skipped = 0
  /\ phase = "sleep" => ~Single
  /\ phase = "exited" /\ code = 0 /\ Single => ~PassFailed

LEMMA TalliedInit == Init => Tallied
BY TimeAssumption DEF Init, Tallied, Summary, NoSummary, Running

(* A driven pass has no fresh provider, so it skips none. *)
LEMMA DrivenNeverFresh ==
  ASSUME Tallied, driven, NEW p \in Providers
  PROVE  ~Fresh(p)
BY DEF Tallied, Fresh, Scheduler, Schedulers, TTL

(* Either outcome of a probe keeps the sum of the outcomes. *)
LEMMA OutcomesAddUp ==
  ASSUME Tallied,
         NEW t \in {[Attempted EXCEPT !.submitted = @ + 1],
                    [Attempted EXCEPT !.failed = @ + 1]}
  PROVE  /\ t \in Summary /\ t.attempted = t.submitted + t.failed
         /\ t.skipped = sum.skipped
<1>1. /\ Attempted \in Summary /\ Attempted.attempted = sum.attempted + 1
      /\ Attempted.submitted = sum.submitted /\ Attempted.failed = sum.failed
      /\ Attempted.skipped = sum.skipped
  BY DEF Tallied, Attempted, Summary
<1>2. sum.submitted \in Nat /\ sum.failed \in Nat
  BY DEF Tallied, Summary
<1> QED BY <1>1, <1>2 DEF Tallied, Summary

LEMMA TalliedPass ==
  ASSUME Tallied, NEW p \in Providers,
         Skip(p) \/ LocateProvider(p) \/ FailProvider(p)
  PROVE  Tallied'
<1>0. /\ phase = "run" /\ phase' = "run" /\ driven' = driven
  BY DEF Skip, LocateProvider, FailProvider
<1>1. CASE Skip(p)
  <2>1. ~driven
    BY <1>1, DrivenNeverFresh DEF Skip
  <2> QED BY <1>0, <1>1, <2>1 DEF Skip, Tallied, Summary
<1>2. CASE LocateProvider(p)
  <2>1. Scheduler \in Schedulers
    BY DEF Scheduler, Schedulers
  <2>2. age' \in [Schedulers -> [Providers -> Nat]]
    BY <1>2, <2>1 DEF LocateProvider, Tallied
  <2>3. /\ sum' \in Summary /\ sum'.attempted = sum'.submitted + sum'.failed
        /\ sum'.skipped = sum.skipped
    BY <1>2, OutcomesAddUp DEF LocateProvider, Tallied
  <2> QED BY <1>0, <2>2, <2>3 DEF Tallied
<1>3. CASE FailProvider(p)
  <2>1. /\ sum' \in Summary /\ sum'.attempted = sum'.submitted + sum'.failed
        /\ sum'.skipped = sum.skipped
    BY <1>3, OutcomesAddUp DEF FailProvider, Tallied
  <2> QED BY <1>0, <1>3, <2>1 DEF FailProvider, Tallied
<1> QED BY <1>1, <1>2, <1>3

LEMMA TalliedNext == Tallied /\ [Next]_vars => Tallied'
<1> SUFFICES ASSUME Tallied, [Next]_vars PROVE Tallied'
  OBVIOUS
<1> USE DEF Tallied, GoOn, Exit, Single, passVars
<1>1. CASE Startup
  BY <1>1 DEF Startup, CheckFlags, ResolveProbeHosts, DialDirect, Verified,
     ParseJwt, StartupPins, PassFailed
<1>2. CASE RefreshPins \/ DueFails \/ DueUnsupported \/ ListLocations
           \/ ListLocationsFails \/ \E l \in Locations : FindProvidersAt(l)
  BY <1>2 DEF RefreshPins, DueFails, DueUnsupported, MayFallBack, ListLocations,
     ListLocationsFails, FindProvidersAt, GiveUp, EndOfLoop
<1>3. CASE DueAnswers \/ Enumerated
  <2>1. sum' = NoSummary /\ phase' = "run" /\ age' = age
    BY <1>3 DEF DueAnswers, Enumerated, StartRun
  <2> QED BY <2>1 DEF Summary, NoSummary
<1>4. ASSUME NEW p \in Providers, Skip(p) \/ LocateProvider(p) \/ FailProvider(p)
      PROVE  Tallied'
  BY <1>4, TalliedPass
<1>5. CASE RunReturns \/ EndPass
  <2>1. /\ UNCHANGED <<age, sum, driven, cfg>> /\ phase \in {"run", "returned"}
        /\ phase' \notin {"run", "sleep"} \/ ~Single
        /\ phase' = "exited" /\ code' = 0 /\ Single => ~PassFailed
    BY <1>5 DEF RunReturns, EndPass, EndOfLoop
  <2> QED BY <2>1 DEF PassFailed
<1>6. CASE Sleep
  BY <1>6 DEF Sleep, Wake, StopWhileAsleep, PassFailed
<1>7. CASE Tick
  <2>1. age' \in [Schedulers -> [Providers -> Nat]]
    BY <1>7, TimeAssumption DEF Tick, Older
  <2> QED BY <1>7, <2>1 DEF Tick, PassFailed
<1>8. CASE Signal \/ DeployDue \/ RotateSecret \/ Exited \/ UNCHANGED vars
  BY <1>8 DEF Signal, DeployDue, RotateSecret, Exited, vars, PassFailed
<1> QED
  BY <1>1, <1>2, <1>3, <1>4, <1>5, <1>6, <1>7, <1>8 DEF Next, Main, Select, Pass

LEMMA TalliedInvariant == Spec => []Tallied
BY TalliedInit, TalliedNext, PTL DEF Spec

(* A provider the server names is never skipped, whatever either cache has  *)
(* learnt in earlier passes.                                                *)
THEOREM DrivenSkipsNobody == Spec => []ServerDrivenSkipsNobody
<1>1. Tallied => ServerDrivenSkipsNobody
  BY DEF Tallied, ServerDrivenSkipsNobody
<1> QED BY <1>1, TalliedInvariant, PTL

(* Exit code 0 of a single shot means that somebody was located or nobody   *)
(* attempted.                                                               *)
THEOREM HonestExit == Spec => []SingleShotIsHonest
<1>1. Tallied => SingleShotIsHonest
  BY DEF Tallied, SingleShotIsHonest, PassFailed, Summary
<1> QED BY <1>1, TalliedInvariant, PTL

-----------------------------------------------------------------------------
(* What a step may never do. *)

(* No error of the server takes a daemon out of its loop. *)
THEOREM DaemonEndures == Spec => DaemonOnlyStopsWhenTold
<1>1. Next => [Looping /\ phase' = "exited" /\ ~Single => ctxDone /\ code' = 0]_vars
  <2> SUFFICES ASSUME Next, Looping, phase' = "exited", ~Single
               PROVE  ctxDone /\ code' = 0
    OBVIOUS
  <2> USE DEF Looping, GoOn, Exit
  <2>1. CASE Startup
    BY <2>1 DEF Startup, CheckFlags, ResolveProbeHosts, DialDirect, Verified,
       ParseJwt, StartupPins
  <2>2. CASE Select
    BY <2>2 DEF Select, RefreshPins, DueAnswers, DueUnsupported, DueFails,
       MayFallBack, ListLocations, ListLocationsFails, FindProvidersAt,
       Enumerated, StartRun, GiveUp, EndOfLoop
  <2>3. CASE Pass
    BY <2>3 DEF Pass, Skip, LocateProvider, FailProvider, RunReturns, EndPass,
       EndOfLoop
  <2>4. CASE Sleep
    BY <2>4 DEF Sleep, Wake, StopWhileAsleep
  <2>5. CASE Tick \/ Signal \/ DeployDue \/ RotateSecret \/ Exited
    BY <2>5 DEF Tick, Signal, DeployDue, RotateSecret, Exited
  <2> QED BY <2>1, <2>2, <2>3, <2>4, <2>5 DEF Next, Main
<1> QED BY <1>1, PTL DEF Spec, DaemonOnlyStopsWhenTold

(* A secret the server refuses never leads to a pass, nor to an enumeration *)
(* that would end in one.                                                   *)
THEOREM RefusalIsVisible == Spec => RefusedSecretStartsNothing
<1>1. Next => [phase = "select" /\ phase' # "select" /\ hasDue /\ ~secretOK
                 => phase' \in {"sleep", "exited"}]_vars
  <2> SUFFICES ASSUME Next, phase = "select", phase' # "select", hasDue, ~secretOK
               PROVE  phase' \in {"sleep", "exited"}
    OBVIOUS
  <2>1. CASE Startup
    BY <2>1 DEF Startup, CheckFlags, ResolveProbeHosts, DialDirect, Verified,
       ParseJwt, StartupPins
  <2>2. CASE Select
    BY <2>2 DEF Select, RefreshPins, DueAnswers, DueUnsupported, DueFails,
       MayFallBack, ListLocations, ListLocationsFails, FindProvidersAt,
       Enumerated, GiveUp, EndOfLoop, GoOn, Exit
  <2>3. CASE Pass \/ Sleep
    BY <2>3 DEF Pass, Skip, LocateProvider, FailProvider, RunReturns, EndPass,
       Sleep, Wake, StopWhileAsleep
  <2>4. CASE Tick \/ Signal \/ DeployDue \/ RotateSecret \/ Exited
    BY <2>4 DEF Tick, Signal, DeployDue, RotateSecret, Exited, vars
  <2> QED BY <2>1, <2>2, <2>3, <2>4 DEF Next, Main
<1> QED BY <1>1, PTL DEF Spec, RefusedSecretStartsNothing

-----------------------------------------------------------------------------
(* Types. *)

LEMMA TypedStartup ==
  ASSUME TypeOK, Startup
  PROVE  TypeOK'
<1> USE DEF TypeOK, GoOn, Exit, serverVars, gateVars, pinVars, passVars, Phases,
        Running
<1>1. CASE CheckFlags
  BY <1>1 DEF CheckFlags
<1>2. CASE ResolveProbeHosts
  <2>1. Resolved \subseteq SUBSET ProbeHosts
    BY ConfigsAssumption DEF Resolved
  <2> QED BY <1>2, <2>1 DEF ResolveProbeHosts
<1>3. ASSUME NEW h \in ProbeHosts, DialDirect(h) PROVE TypeOK'
  BY <1>3 DEF DialDirect
<1>4. CASE Verified \/ ParseJwt
  BY <1>4 DEF Verified, ParseJwt
<1>5. CASE StartupPins
  <2>1. FetchSucceeds => pins' \subseteq SourceHosts /\ pinAge' = 0
    BY DEF FetchSucceeds, Accepted
  <2> QED BY <1>5, <2>1, TimeAssumption DEF StartupPins
<1> QED BY <1>1, <1>2, <1>3, <1>4, <1>5 DEF Startup

LEMMA TypedSelect ==
  ASSUME TypeOK, Select
  PROVE  TypeOK'
<1> USE DEF TypeOK, GoOn, Exit, serverVars, gateVars, pinVars, passVars, Phases,
        Running
<1>1. CASE RefreshPins
  <2>1. FetchSucceeds => pins' \subseteq SourceHosts /\ pinAge' = 0
    BY DEF FetchSucceeds, Accepted
  <2> QED BY <1>1, <2>1, TimeAssumption DEF RefreshPins, RefreshFails
<1>2. NoSummary \in Summary
  BY DEF NoSummary, Summary
<1>3. CASE DueAnswers \/ Enumerated
  BY <1>2, <1>3 DEF DueAnswers, Enumerated, StartRun
<1>4. CASE DueUnsupported \/ DueFails \/ ListLocationsFails
  <2>1. phase' \in Phases /\ code' \in 0 .. Running
    BY <1>4 DEF DueUnsupported, DueFails, ListLocationsFails, GiveUp, EndOfLoop
  <2> QED BY <1>4, <2>1 DEF DueUnsupported, DueFails, ListLocationsFails
<1>5. CASE ListLocations
  BY <1>5 DEF ListLocations
<1>6. ASSUME NEW l \in Locations, FindProvidersAt(l) PROVE TypeOK'
  BY <1>6, LocationsAssumption DEF FindProvidersAt, AfterMiss
<1> QED BY <1>1, <1>3, <1>4, <1>5, <1>6 DEF Select

LEMMA TypedPass ==
  ASSUME TypeOK, Pass
  PROVE  TypeOK'
<1> USE DEF TypeOK, GoOn, Exit, serverVars, gateVars, pinVars, passVars, Phases,
        Running
<1>1. ASSUME NEW p \in Providers, Skip(p) \/ LocateProvider(p) \/ FailProvider(p)
      PROVE  TypeOK'
  <2>1. Attempted \in Summary
    BY DEF Attempted, Summary
  <2>2. sum' \in Summary
    BY <1>1, <2>1 DEF Skip, LocateProvider, FailProvider, Summary
  <2>3. Scheduler \in Schedulers
    BY DEF Scheduler, Schedulers
  <2>4. 0 \in 0 .. CacheTTL
    BY TimeAssumption
  <2>5. age' \in [Schedulers -> [Providers -> 0 .. CacheTTL]]
    BY <1>1, <2>3, <2>4 DEF Skip, LocateProvider, FailProvider
  <2> QED BY <1>1, <2>2, <2>5 DEF Skip, LocateProvider, FailProvider
<1>2. CASE RunReturns \/ EndPass
  BY <1>2 DEF RunReturns, EndPass, EndOfLoop
<1> QED BY <1>1, <1>2 DEF Pass

(* Age never passes its cap. *)
LEMMA OlderIsAnAge ==
  ASSUME NEW cap \in Nat, NEW a \in 0 .. cap
  PROVE  Older(a, cap) \in 0 .. cap
BY DEF Older

LEMMA TypedNext == TypeOK /\ [Next]_vars => TypeOK'
<1> SUFFICES ASSUME TypeOK, [Next]_vars PROVE TypeOK'
  OBVIOUS
<1> USE DEF TypeOK, serverVars, gateVars, pinVars, passVars
<1>1. CASE Sleep
  BY <1>1 DEF Sleep, Wake, StopWhileAsleep, GoOn, Exit, Phases, Running
<1>2. CASE Tick
  <2>1. pinAge' \in 0 .. RefreshInterval
    BY <1>2, TimeAssumption, OlderIsAnAge DEF Tick
  <2>2. age' \in [Schedulers -> [Providers -> 0 .. CacheTTL]]
    BY <1>2, TimeAssumption, OlderIsAnAge DEF Tick
  <2> QED BY <1>2, <2>1, <2>2 DEF Tick
<1>3. CASE Signal \/ DeployDue \/ RotateSecret
  BY <1>3 DEF Signal, DeployDue, RotateSecret
<1>4. CASE Exited \/ UNCHANGED vars
  BY <1>4 DEF Exited, vars
<1> QED BY <1>1, <1>2, <1>3, <1>4, TypedStartup, TypedSelect, TypedPass DEF Next, Main

LEMMA TypedInit == Init => TypeOK
<1>1. NoSummary \in Summary
  BY DEF NoSummary, Summary
<1>2. CacheTTL \in 0 .. CacheTTL /\ RefreshInterval \in 0 .. RefreshInterval
  BY TimeAssumption
<1> SUFFICES ASSUME Init PROVE TypeOK
  OBVIOUS
<1>3. age \in [Schedulers -> [Providers -> 0 .. CacheTTL]]
  BY <1>2 DEF Init
<1>4. /\ cfg \in Configs /\ open \subseteq ProbeHosts
      /\ hasDue \in BOOLEAN /\ secretOK \in BOOLEAN /\ ctxDone \in BOOLEAN
  BY DEF Init
<1>6. phase \in Phases /\ code \in 0 .. Running
  BY DEF Init, Phases, Running
<1>5. /\ toDial = {} /\ blocked = {} /\ idle = {} /\ pins = {}
      /\ toList = {} /\ todo = {} /\ driven \in BOOLEAN /\ fetched \in BOOLEAN
      /\ pinAge \in 0 .. RefreshInterval /\ sum \in Summary
  BY <1>1, <1>2 DEF Init
<1> QED BY <1>3, <1>4, <1>5, <1>6 DEF TypeOK

(* The age of every cache entry and of the pins stays under its cap, the    *)
(* exit code is one of those main passes to os.Exit, and the list is one of *)
(* known providers, whatever the server and the signals do.                 *)
THEOREM EgressTyped == Spec => []TypeOK
BY TypedInit, TypedNext, PTL DEF Spec

-----------------------------------------------------------------------------
(* Between two passes main never turns back.                                *)

Order == <<"flags", "confinement", "dial", "jwt", "pins", "refresh", "select",
           "locations", "enumerate", "run", "returned", "sleep", "exited">>
Later(a, b) == \E i, j \in 1 .. 13 : i < j /\ Order[i] = a /\ Order[j] = b

(* What a loop of main has still to see to. *)
Pending == CASE phase = "dial"      -> toDial
             [] phase = "enumerate" -> toList
             [] phase = "run"       -> todo
             [] OTHER               -> {}

Onward ==
  \/ Later(phase, phase')
  \/ phase' = phase /\ \E x \in Pending : Pending' = Pending \ {x}

(* Nothing but a step of main moves main, and every such step but waking up *)
(* takes it to a later stage or sees to one more of what a loop has left:   *)
(* between two sleeps there are no more steps than stages, addresses,       *)
(* locations and providers, whatever the server answers.                    *)
RoundGoesForward ==
  [][IF Main THEN Wake \/ Onward ELSE phase' = phase /\ Pending' = Pending]_vars

LEMMA LaterStages ==
  \A i, j \in 1 .. 13 : i < j => Later(Order[i], Order[j])
BY DEF Later

LEMMA StagesOfMain ==
  /\ \A s \in {"jwt", "confinement", "exited"} : Later("flags", s)
  /\ Later("confinement", "dial") /\ Later("confinement", "exited")
  /\ Later("dial", "jwt") /\ Later("dial", "exited")
  /\ Later("jwt", "pins") /\ Later("jwt", "exited")
  /\ Later("pins", "refresh") /\ Later("pins", "exited")
  /\ Later("refresh", "select")
  /\ \A s \in {"run", "locations", "sleep", "exited"} : Later("select", s)
  /\ \A s \in {"enumerate", "sleep", "exited"} : Later("locations", s)
  /\ Later("enumerate", "run")
  /\ Later("run", "returned")
  /\ Later("returned", "sleep") /\ Later("returned", "exited")
  /\ Later("sleep", "exited")
<1>1. /\ Order[1] = "flags" /\ Order[2] = "confinement" /\ Order[3] = "dial"
      /\ Order[4] = "jwt" /\ Order[5] = "pins" /\ Order[6] = "refresh"
      /\ Order[7] = "select" /\ Order[8] = "locations" /\ Order[9] = "enumerate"
      /\ Order[10] = "run" /\ Order[11] = "returned" /\ Order[12] = "sleep"
      /\ Order[13] = "exited"
  BY DEF Order
<1>2. \A i, j \in 1 .. 13 : i < j => Later(Order[i], Order[j])
  BY LaterStages
<1> HIDE DEF Order
<1>3. /\ \A j \in {2, 4, 13} : Later("flags", Order[j])
      /\ \A j \in {3, 13} : Later("confinement", Order[j])
      /\ \A j \in {4, 13} : Later("dial", Order[j])
      /\ \A j \in {5, 13} : Later("jwt", Order[j])
      /\ \A j \in {6, 13} : Later("pins", Order[j])
      /\ Later("refresh", Order[7])
  BY <1>1, <1>2
<1>4. /\ \A j \in {8, 10, 12, 13} : Later("select", Order[j])
      /\ \A j \in {9, 12, 13} : Later("locations", Order[j])
      /\ Later("enumerate", Order[10])
      /\ Later("run", Order[11])
      /\ \A j \in {12, 13} : Later("returned", Order[j])
      /\ Later("sleep", Order[13])
  BY <1>1, <1>2
<1> QED BY <1>1, <1>3, <1>4

LEMMA StartupGoesOn == Startup => Onward
<1> SUFFICES ASSUME Startup PROVE Onward
  OBVIOUS
<1> USE DEF GoOn, Exit
<1>1. CASE CheckFlags
  <2>1. phase = "flags" /\ phase' \in {"exited", "jwt", "confinement"}
    BY <1>1 DEF CheckFlags
  <2> QED BY <2>1, StagesOfMain DEF Onward
<1>2. CASE ResolveProbeHosts
  <2>1. phase = "confinement" /\ phase' \in {"exited", "dial"}
    BY <1>2 DEF ResolveProbeHosts
  <2> QED BY <2>1, StagesOfMain DEF Onward
<1>3. ASSUME NEW h \in ProbeHosts, DialDirect(h) PROVE Onward
  <2>1. /\ phase = "dial" /\ phase' \in {"exited", "dial"}
        /\ h \in toDial /\ toDial' = toDial \ {h}
    BY <1>3 DEF DialDirect
  <2> QED BY <2>1, StagesOfMain DEF Onward, Pending
<1>4. CASE Verified \/ ParseJwt \/ StartupPins
  <2>1. \/ phase = "dial" /\ phase' = "jwt"
        \/ phase = "jwt" /\ phase' \in {"pins", "exited"}
        \/ phase = "pins" /\ phase' \in {"refresh", "exited"}
    BY <1>4 DEF Verified, ParseJwt, StartupPins
  <2> QED BY <2>1, StagesOfMain DEF Onward
<1> QED BY <1>1, <1>2, <1>3, <1>4 DEF Startup

LEMMA LoopGoesOn == Select \/ Pass \/ StopWhileAsleep => Onward
<1> SUFFICES ASSUME Select \/ Pass \/ StopWhileAsleep PROVE Onward
  OBVIOUS
<1> USE DEF GoOn, Exit
<1>1. CASE RefreshPins
  BY <1>1, StagesOfMain DEF RefreshPins, Onward
<1>2. CASE DueAnswers \/ DueUnsupported \/ DueFails
  <2>1. phase = "select" /\ phase' \in {"run", "locations", "sleep", "exited"}
    BY <1>2 DEF DueAnswers, DueUnsupported, MayFallBack, DueFails, StartRun, GiveUp,
       EndOfLoop
  <2> QED BY <2>1, StagesOfMain DEF Onward
<1>3. CASE ListLocations \/ ListLocationsFails
  <2>1. phase = "locations" /\ phase' \in {"enumerate", "sleep", "exited"}
    BY <1>3 DEF ListLocations, ListLocationsFails, GiveUp, EndOfLoop
  <2> QED BY <2>1, StagesOfMain DEF Onward
<1>4. ASSUME NEW l \in Locations, FindProvidersAt(l) PROVE Onward
  <2>1. /\ phase = "enumerate" /\ phase' = phase
        /\ l \in toList /\ toList' = toList \ {l}
    BY <1>4 DEF FindProvidersAt, AfterMiss
  <2> QED BY <2>1 DEF Onward, Pending
<1>5. CASE Enumerated
  BY <1>5, StagesOfMain DEF Enumerated, StartRun, Onward
<1>6. ASSUME NEW p \in Providers, Skip(p) \/ LocateProvider(p) \/ FailProvider(p)
      PROVE  Onward
  <2>1. phase = "run" /\ phase' = phase /\ p \in todo /\ todo' = todo \ {p}
    BY <1>6 DEF Skip, LocateProvider, FailProvider
  <2> QED BY <2>1 DEF Onward, Pending
<1>7. CASE RunReturns \/ EndPass \/ StopWhileAsleep
  <2>1. \/ phase = "run" /\ phase' = "returned"
        \/ phase = "returned" /\ phase' \in {"sleep", "exited"}
        \/ phase = "sleep" /\ phase' = "exited"
    BY <1>7 DEF RunReturns, EndPass, StopWhileAsleep, EndOfLoop
  <2> QED BY <2>1, StagesOfMain DEF Onward
<1> QED BY <1>1, <1>2, <1>3, <1>4, <1>5, <1>6, <1>7 DEF Select, Pass

(* Main finishes every round it begins: it never goes back, and its three   *)
(* loops, over addresses, locations and providers, only ever get shorter.   *)
THEOREM RoundsAreFinite == Spec => RoundGoesForward
<1>1. Main => Wake \/ Onward
  BY StartupGoesOn, LoopGoesOn DEF Main, Sleep
<1>2. Tick \/ Signal \/ DeployDue \/ RotateSecret \/ Exited
        => phase' = phase /\ Pending' = Pending
  BY DEF Tick, Signal, DeployDue, RotateSecret, Exited, vars, gateVars, passVars,
     Pending
<1>3. [Next]_vars =>
        [IF Main THEN Wake \/ Onward ELSE phase' = phase /\ Pending' = Pending]_vars
  BY <1>1, <1>2 DEF Next
<1> QED BY <1>3, PTL DEF Spec, RoundGoesForward

-----------------------------------------------------------------------------
(* The server's queue and a prober that dies: what DueQueue adds.           *)

DueSafety == DueInit /\ [][DueNext]_dueVars

LEMMA SafetyOfDueSpec == DueSpec => DueSafety
BY PTL DEF DueSpec, DueSafety

(* Every step of the two together is one of the prober's, or its death. *)
LEMMA DueStep == [DueNext]_dueVars => [Next]_vars \/ Crash
<1> SUFFICES ASSUME [DueNext]_dueVars, ~Crash PROVE [Next]_vars
  OBVIOUS
<1>1. CASE Poll
  BY <1>1 DEF Poll, Next, Main, Select
<1>2. ASSUME NEW p \in Providers, ProbeLocates(p) \/ ProbeFails(p)
      PROVE  Next
  BY <1>2 DEF ProbeLocates, ProbeFails, Next, Main, Pass
<1>3. CASE Elsewhere
  BY <1>3 DEF Elsewhere, Next, Main, Select, Pass
<1>4. CASE UNCHANGED dueVars
  BY <1>4 DEF dueVars
<1> QED BY <1>1, <1>2, <1>3, <1>4 DEF DueNext

(* Nothing the prober relies on outlives it. *)
LEMMA CrashEstablishes == Established /\ Crash => Established'
BY DEF Crash, Established, PastDial, Looping

LEMMA CrashTallies == Tallied /\ Crash => Tallied'
<1> SUFFICES ASSUME Tallied, Crash PROVE Tallied'
  OBVIOUS
<1>1. age' \in [Schedulers -> [Providers -> Nat]]
  BY TimeAssumption DEF Crash
<1>2. sum' \in Summary /\ sum'.attempted = sum'.submitted + sum'.failed
  BY DEF Crash, NoSummary, Summary
<1>3. phase' = "flags"
  BY DEF Crash
<1> QED BY <1>1, <1>2, <1>3 DEF Tallied

LEMMA DueEstablished == DueSafety => []Established
<1>1. Established /\ [DueNext]_dueVars => Established'
  BY DueStep, EstablishedNext, CrashEstablishes
<1>2. DueInit => Established
  BY EstablishedInit DEF DueInit
<1> QED BY <1>1, <1>2, PTL DEF DueSafety

LEMMA DueTallied == DueSafety => []Tallied
<1>1. Tallied /\ [DueNext]_dueVars => Tallied'
  BY DueStep, TalliedNext, CrashTallies
<1>2. DueInit => Tallied
  BY TalliedInit DEF DueInit
<1> QED BY <1>1, <1>2, PTL DEF DueSafety

(* A restarted prober is as safe as a new one: whenever it dies, and        *)
(* however often, no pass begins on a host not shown to be confined, none   *)
(* runs with a pin set that is not the whole of the sources, and no         *)
(* provider the server names is skipped.                                    *)
THEOREM RestartsAreSafe ==
  DueSpec => [](ProbesOnlyConfined /\ NeverUnpinned /\ ServerDrivenSkipsNobody)
<1>1. Established => ProbesOnlyConfined /\ NeverUnpinned
  BY DEF Established, PastDial, ProbesOnlyConfined, NeverUnpinned, Looping
<1>2. Tallied => ServerDrivenSkipsNobody
  BY DEF Tallied, ServerDrivenSkipsNobody
<1> QED BY <1>1, <1>2, SafetyOfDueSpec, DueEstablished, DueTallied, PTL

-----------------------------------------------------------------------------
(* How long a provider that is due can be passed over.                      *)

VARIABLE
  missed   (* history: the polls in a row that left a provider out though   *)
           (* it was due, since a report was last lost or the prober died   *)

Counted ==
  missed' = [p \in Providers |->
               IF losses' # losses \/ crashes' # crashes THEN 0
               ELSE IF ~Poll THEN missed[p]
               ELSE IF Due(p) /\ p \notin todo' THEN missed[p] + 1 ELSE 0]

WaitInit == DueInit /\ missed = [p \in Providers |-> 0]
WaitNext == DueNext /\ Counted
waitVars == <<dueVars, missed>>
WaitSpec == WaitInit /\ [][WaitNext]_waitVars

(* A provider whose reports arrive is left out of no more than Backoff      *)
(* batches in a row while it is due (Client.Due, and what the server does   *)
(* with what ReportAttempt tells it).                                       *)
WaitsAtMostBackoff == \A p \in Providers \ Lost : missed[p] <= Backoff

(* What a batch has room for besides those whose reports never arrive.      *)
Room == Limit - Cardinality(Lost)

(* Those a provider passed over k times has been passed over for, and that  *)
(* the server defers or the prober has still to see to.                     *)
Ahead(k) == {q \in Providers \ Lost : q \in todo \/ Backoff - k < deferred[q]}

Driven ==
  /\ todo \subseteq Providers
  /\ todo # {} => phase = "run"
  /\ phase = "run" => driven
  /\ deferred \in [Providers -> 0 .. Backoff]
  /\ losses \in Nat /\ crashes \in Nat

Waited ==
  /\ missed \in [Providers -> Nat]
  /\ \A p \in Providers \ Lost :
       /\ missed[p] <= Backoff
       /\ ~ctxDone /\ secretOK
            => missed[p] * Room <= Cardinality(Ahead(missed[p]))

LEMMA DrivenInit == DueInit => Driven
BY ScheduleAssumption DEF DueInit, Init, Driven

LEMMA ReportDefers ==
  ASSUME Driven, NEW p \in Providers, Report(p)
  PROVE  /\ deferred' \in [Providers -> 0 .. Backoff]
         /\ losses' \in Nat
BY ScheduleAssumption DEF Report, Driven

LEMMA DrivenNext == Driven /\ [DueNext]_dueVars => Driven'
<1> SUFFICES ASSUME Driven, [DueNext]_dueVars PROVE Driven'
  OBVIOUS
<1> USE DEF Driven, GoOn, Exit, passVars, queueVars, faultVars
<1>1. CASE Poll
  <2>1. todo' \subseteq Providers /\ phase' = "run" /\ driven'
    BY <1>1 DEF Poll, Batches, DueAnswers, StartRun
  <2>2. deferred' \in [Providers -> 0 .. Backoff]
    BY <1>1, ScheduleAssumption DEF Poll
  <2> QED BY <1>1, <2>1, <2>2 DEF Poll
<1>2. CASE Crash
  BY <1>2 DEF Crash
<1>3. ASSUME NEW p \in Providers, ProbeLocates(p) \/ ProbeFails(p) PROVE Driven'
  <2>1. /\ deferred' \in [Providers -> 0 .. Backoff]
        /\ losses' \in Nat /\ crashes' = crashes
    BY <1>3, ReportDefers DEF ProbeLocates, ProbeFails
  <2>2. phase' = "run" /\ driven' = driven /\ todo' \subseteq todo
    BY <1>3 DEF ProbeLocates, ProbeFails, LocateProvider, FailProvider
  <2>3. phase = "run"
    BY <1>3 DEF ProbeLocates, ProbeFails, LocateProvider, FailProvider
  <2> QED BY <2>1, <2>2, <2>3
<1>4. CASE Elsewhere /\ UNCHANGED <<queueVars, faultVars>>
  <2>1. CASE Startup
    BY <1>4, <2>1 DEF Startup, CheckFlags, ResolveProbeHosts, DialDirect, Verified,
       ParseJwt, StartupPins
  <2>2. CASE Sleep \/ RefreshPins \/ DueFails
    BY <1>4, <2>2 DEF Sleep, Wake, StopWhileAsleep, RefreshPins, DueFails, GiveUp,
       EndOfLoop
  <2>3. CASE RunReturns \/ EndPass \/ \E p \in Providers : Skip(p)
    BY <1>4, <2>3 DEF RunReturns, EndPass, EndOfLoop, Skip
  <2>4. CASE Tick \/ Signal \/ RotateSecret \/ Exited
    BY <1>4, <2>4 DEF Tick, Signal, RotateSecret, Exited, vars
  <2> QED BY <1>4, <2>1, <2>2, <2>3, <2>4 DEF Elsewhere
<1>5. CASE UNCHANGED dueVars
  BY <1>5 DEF dueVars, vars
<1> QED BY <1>1, <1>2, <1>3, <1>4, <1>5 DEF DueNext

LEMMA DrivenInvariant == DueSafety => []Driven
BY DrivenInit, DrivenNext, PTL DEF DueSafety

(* Counting. *)

LEMMA FewerOf ==
  ASSUME NEW S, IsFiniteSet(S), NEW T \in SUBSET S
  PROVE  /\ IsFiniteSet(T) /\ Cardinality(T) \in Nat /\ Cardinality(S) \in Nat
         /\ Cardinality(T) <= Cardinality(S)
BY FS_Subset, FS_CardinalityType

LEMMA Apart ==
  ASSUME NEW S, IsFiniteSet(S), NEW A \in SUBSET S, NEW B \in SUBSET S, A \cap B = {}
  PROVE  Cardinality(A \cup B) = Cardinality(A) + Cardinality(B)
<1>1. IsFiniteSet(A) /\ IsFiniteSet(B) /\ Cardinality(A \cap B) = 0
  BY FewerOf, FS_EmptySet
<1>2. Cardinality(A) \in Nat /\ Cardinality(B) \in Nat
  BY FewerOf
<1>3. Cardinality(A \cup B) = Cardinality(A) + Cardinality(B) - Cardinality(A \cap B)
  BY <1>1, FS_Union
<1> QED BY <1>1, <1>2, <1>3

LEMMA RoomIsPositive ==
  /\ Room \in Nat \ {0}
  /\ Cardinality(Lost) \in Nat /\ Limit = Room + Cardinality(Lost)
  /\ Cardinality(Providers \ Lost) \in Nat
  /\ Cardinality(Providers \ Lost) <= Room * (Backoff + 1)
<1>1. Cardinality(Lost) \in Nat
  BY ScheduleAssumption, FewerOf
<1>2. Cardinality(Providers \ Lost) \in Nat
  BY ScheduleAssumption, FewerOf
<1> QED BY <1>1, <1>2, ScheduleAssumption, CapacityAssumption DEF Room

(* A batch that leaves out somebody who is due is full, and those in it     *)
(* whose reports do not arrive leave room for Room others.                  *)
LEMMA FullBatch ==
  ASSUME NEW ids \in Batches, NEW p \in Providers, Due(p), p \notin ids
  PROVE  Room <= Cardinality(ids \ Lost)
<1> DEFINE due == {q \in Providers : Due(q)}
<1>1. ids \in SUBSET due /\ due \in SUBSET Providers
  BY DEF Batches
<1>2. /\ IsFiniteSet(due) /\ IsFiniteSet(ids)
      /\ Cardinality(due) \in Nat /\ Cardinality(ids) \in Nat
  <2>1. IsFiniteSet(due) /\ Cardinality(due) \in Nat
    BY <1>1, ScheduleAssumption, FewerOf
  <2> HIDE DEF due
  <2> QED BY <1>1, <2>1, FewerOf
<1>3. Cardinality(ids) = Limit
  <2>1. Cardinality(ids) = IF Cardinality(due) < Limit THEN Cardinality(due) ELSE Limit
    BY DEF Batches
  <2>2. Cardinality(due) # Cardinality(ids)
    <3>1. due # ids
      OBVIOUS
    <3> HIDE DEF due
    <3> QED BY <1>1, <1>2, <3>1, FS_Subset
  <2> QED BY <2>1, <2>2
<1>4. Cardinality(ids) = Cardinality(ids \ Lost) + Cardinality(ids \cap Lost)
  <2>1. ids = (ids \ Lost) \cup (ids \cap Lost)
    OBVIOUS
  <2> QED BY <1>2, <2>1, Apart
<1>5. Cardinality(ids \ Lost) \in Nat
  BY <1>2, FewerOf
<1>6. Cardinality(ids \cap Lost) \in Nat /\ Cardinality(ids \cap Lost) <= Cardinality(Lost)
  <2>1. IsFiniteSet(Lost)
    BY ScheduleAssumption, FewerOf
  <2> QED BY <2>1, FewerOf
<1>7. \A x, y, l, r \in Nat : x + y = r + l /\ y <= l => r <= x
  OBVIOUS
<1> QED BY <1>3, <1>4, <1>5, <1>6, <1>7, RoomIsPositive

LEMMA OneMore ==
  ASSUME NEW k \in Nat, NEW r \in Nat \ {0}, NEW a \in Nat, NEW b \in Nat,
         NEW n \in Nat, NEW m \in Nat,
         k * r <= a, r <= b, a + b < n, n <= r * (m + 1)
  PROVE  (k + 1) * r <= a + b /\ k + 1 <= m
<1>1. (k + 1) * r = k * r + r
  OBVIOUS
<1>2. k * r \in Nat
  OBVIOUS
<1>3. (k + 1) * r <= a + b
  BY <1>1, <1>2
<1>4. (k + 1) * r < r * (m + 1)
  BY <1>1, <1>2, <1>3
<1>5. ASSUME m + 1 <= k + 1 PROVE FALSE
  <2>1. PICK d \in Nat : k = m + d
    BY <1>5
  <2>2. (k + 1) * r = r * (m + 1) + d * r
    BY <2>1
  <2>3. d * r \in Nat /\ r * (m + 1) \in Nat
    OBVIOUS
  <2> QED BY <1>4, <2>2, <2>3
<1> QED BY <1>3, <1>5

(* One more batch that leaves p out holds Room more of the others than      *)
(* those already ahead of it, and there are not that many others for ever.  *)
LEMMA PassedOverOnceMore ==
  ASSUME Driven, NEW k \in Nat, k <= Backoff, Poll,
         k * Room <= Cardinality(Ahead(k)),
         NEW p \in Providers \ Lost, Due(p), p \notin todo'
  PROVE  /\ k + 1 <= Backoff
         /\ (k + 1) * Room <= Cardinality(Ahead(k + 1)')
<1> DEFINE S == Providers \ Lost
           B == todo' \ Lost
           after == Ahead(k + 1)'
<1>1. IsFiniteSet(S)
  BY ScheduleAssumption, FewerOf
<1>2. todo' \in Batches /\ todo = {} /\ todo' \subseteq {q \in Providers : Due(q)}
  BY DEF Poll, DueAnswers, Driven, Batches
<1>3. Room <= Cardinality(B)
  BY <1>2, FullBatch
<1>4. Ahead(k) \in SUBSET S /\ B \in SUBSET S /\ after \in SUBSET S
  BY <1>2 DEF Ahead
<1>5. Ahead(k) \cap B = {} /\ p \notin Ahead(k) \cup B
  <2>1. ASSUME NEW q \in Providers, Due(q) PROVE q \notin Ahead(k)
    BY <1>2, <2>1, ScheduleAssumption DEF Ahead, Due
  <2> QED BY <1>2, <2>1
<1>6. Ahead(k) \cup B \in SUBSET after
  <2>1. ASSUME NEW q \in Ahead(k) PROVE q \in after
    <3>1. q \in S /\ Backoff - k < deferred[q] /\ deferred[q] \in 0 .. Backoff
      BY <1>2 DEF Ahead, Driven
    <3>2. deferred'[q] = deferred[q] - 1
      BY <3>1, ScheduleAssumption DEF Poll
    <3>3. Backoff - (k + 1) < deferred'[q]
      BY <3>1, <3>2, ScheduleAssumption
    <3> QED BY <3>1, <3>3 DEF Ahead
  <2>2. ASSUME NEW q \in B PROVE q \in after
    BY <1>4, <2>2 DEF Ahead
  <2> QED BY <2>1, <2>2
<1> HIDE DEF S, B, after
<1>7. /\ Cardinality(Ahead(k) \cup B) = Cardinality(Ahead(k)) + Cardinality(B)
      /\ Cardinality(Ahead(k)) \in Nat /\ Cardinality(B) \in Nat
  BY <1>1, <1>4, <1>5, Apart, FewerOf
<1>8. /\ Cardinality(Ahead(k) \cup B) <= Cardinality(after)
      /\ Cardinality(after) \in Nat /\ Cardinality(Ahead(k) \cup B) \in Nat
  <2>1. IsFiniteSet(after)
    BY <1>1, <1>4, FewerOf
  <2> QED BY <1>6, <2>1, FewerOf
<1>9. Cardinality(Ahead(k) \cup B) < Cardinality(S)
  <2>1. p \in S
    BY DEF S
  <2>2. Cardinality(S \ {p}) = Cardinality(S) - 1 /\ IsFiniteSet(S \ {p})
    BY <1>1, <2>1, FS_RemoveElement
  <2>3. Ahead(k) \cup B \in SUBSET (S \ {p})
    BY <1>4, <1>5
  <2>4. Cardinality(Ahead(k) \cup B) <= Cardinality(S \ {p})
    BY <2>2, <2>3, FewerOf
  <2>5. Cardinality(S) \in Nat
    BY <1>1, FS_CardinalityType
  <2> QED BY <1>8, <2>2, <2>4, <2>5
<1>10. Cardinality(S) \in Nat /\ Cardinality(S) <= Room * (Backoff + 1)
  BY RoomIsPositive DEF S
<1>11. /\ (k + 1) * Room <= Cardinality(Ahead(k)) + Cardinality(B)
       /\ k + 1 <= Backoff
  BY <1>3, <1>7, <1>9, <1>10, OneMore, RoomIsPositive, ScheduleAssumption
<1>12. (k + 1) * Room <= Cardinality(after)
  <2>1. (k + 1) * Room \in Nat
    BY RoomIsPositive
  <2> QED BY <1>7, <1>8, <1>11, <2>1
<1> QED BY <1>11, <1>12 DEF after

(* Nobody leaves that set but by a poll, a fault, the signal or the secret. *)
LEMMA AheadStays ==
  ASSUME Driven, Tallied, [DueNext]_dueVars, ~Poll, losses' = losses,
         crashes' = crashes, ~ctxDone', secretOK', NEW k \in Nat \ {0}
  PROVE  ~ctxDone /\ secretOK /\ Ahead(k) \subseteq Ahead(k)'
<1> USE DEF serverVars, passVars, queueVars, faultVars
<1>1. CASE Crash
  BY <1>1 DEF Crash, Driven
<1>2. ASSUME NEW q \in Providers, ProbeLocates(q) \/ ProbeFails(q)
      PROVE  ~ctxDone /\ secretOK /\ Ahead(k) \subseteq Ahead(k)'
  <2>0. /\ UNCHANGED <<ctxDone, secretOK>> /\ todo' = todo \ {q} /\ Report(q)
    BY <1>2 DEF ProbeLocates, ProbeFails, LocateProvider, FailProvider
  <2>1. ~ctxDone /\ secretOK /\ todo' = todo \ {q} /\ Report(q)
    BY <2>0, Zenon
  <2>2. \A r \in Providers \ {q} : deferred'[r] = deferred[r]
    BY <2>1 DEF Report, Driven
  <2>3. q \notin Lost => deferred'[q] = Backoff
    BY <2>1 DEF Report, Driven, Answers
  <2>4. q \notin Lost => Backoff - k < deferred'[q]
    BY <2>3, ScheduleAssumption
  <2> QED BY <2>1, <2>2, <2>4 DEF Ahead
<1>3. CASE Elsewhere /\ UNCHANGED <<queueVars, faultVars>>
  <2>1. /\ ctxDone' = ctxDone \/ ctxDone' = TRUE
        /\ secretOK' = secretOK \/ secretOK' = FALSE
        /\ todo' = todo
    <3>1. CASE Startup
      BY <3>1 DEF Startup, CheckFlags, ResolveProbeHosts, DialDirect, Verified,
         ParseJwt, StartupPins
    <3>2. CASE Sleep \/ RefreshPins \/ DueFails
      BY <3>2 DEF Sleep, Wake, StopWhileAsleep, RefreshPins, DueFails
    <3>3. CASE RunReturns \/ EndPass
      BY <3>3 DEF RunReturns, EndPass
    <3>4. ~ \E q \in Providers : Skip(q)
      BY DrivenNeverFresh DEF Skip, Driven
    <3>5. CASE Tick \/ Signal \/ RotateSecret \/ Exited
      BY <3>5 DEF Tick, Signal, RotateSecret, Exited, vars
    <3> QED BY <1>3, <3>1, <3>2, <3>3, <3>4, <3>5 DEF Elsewhere
  <2>2. ~ctxDone
    BY <2>1, Zenon
  <2>3. secretOK
    BY <2>1, Zenon
  <2> QED BY <1>3, <2>1, <2>2, <2>3 DEF Ahead
<1>4. CASE UNCHANGED dueVars
  BY <1>4 DEF dueVars, vars, Ahead
<1> QED BY <1>1, <1>2, <1>3, <1>4 DEF DueNext

LEMMA AheadIsFinite ==
  ASSUME NEW A \in SUBSET (Providers \ Lost)
  PROVE  IsFiniteSet(A) /\ Cardinality(A) \in Nat
<1>1. IsFiniteSet(Providers \ Lost)
  BY ScheduleAssumption, FewerOf
<1> QED BY <1>1, FewerOf

LEMMA WaitedInit == WaitInit => Waited
<1> SUFFICES ASSUME WaitInit PROVE Waited
  OBVIOUS
<1>1. Cardinality(Ahead(0)) \in Nat
  BY AheadIsFinite DEF Ahead
<1>2. \A p \in Providers : missed[p] = 0
  BY DEF WaitInit
<1>3. 0 * Room = 0
  BY RoomIsPositive
<1> QED BY <1>1, <1>2, <1>3, ScheduleAssumption DEF WaitInit, Waited

LEMMA WaitedNext == Waited /\ Driven /\ Tallied /\ [WaitNext]_waitVars => Waited'
<1> SUFFICES ASSUME Waited, Driven, Tallied, [WaitNext]_waitVars PROVE Waited'
  OBVIOUS
<1>1. CASE UNCHANGED waitVars
  BY <1>1 DEF waitVars, dueVars, queueVars, vars, serverVars, passVars, Waited, Ahead
<1>2. CASE WaitNext
  <2>1. missed' \in [Providers -> Nat]
    BY <1>2 DEF WaitNext, Counted, Waited
  <2>2. ASSUME NEW p \in Providers \ Lost
        PROVE  /\ missed'[p] <= Backoff
               /\ ~ctxDone' /\ secretOK'
                    => missed'[p] * Room <= Cardinality(Ahead(missed[p])')
    <3>0. PICK k \in Nat : k = missed[p]
      BY DEF Waited
    <3>1. /\ k = missed[p] /\ k \in Nat /\ k <= Backoff
          /\ ~ctxDone /\ secretOK => k * Room <= Cardinality(Ahead(k))
      BY <3>0 DEF Waited
    <3>2. Cardinality(Ahead(missed[p])') \in Nat
      BY AheadIsFinite DEF Ahead
    <3>3. CASE missed'[p] = 0
      BY <3>2, <3>3, RoomIsPositive, ScheduleAssumption
    <3>4. CASE missed'[p] = k + 1
      <4>1. Poll /\ Due(p) /\ p \notin todo'
        BY <1>2, <3>1, <3>4 DEF WaitNext, Counted
      <4>2. ~ctxDone /\ secretOK
        BY <4>1 DEF Poll, DueAnswers, Answers
      <4>3. k + 1 <= Backoff /\ (k + 1) * Room <= Cardinality(Ahead(k + 1)')
        BY <3>1, <4>1, <4>2, PassedOverOnceMore
      <4>4. Ahead(missed[p])' = Ahead(k + 1)'
        BY <3>4 DEF Ahead
      <4> QED BY <3>4, <4>3, <4>4
    <3>5. CASE missed'[p] = k /\ k # 0
      <4>1. CASE Poll
        BY <1>2, <3>1, <3>5, <4>1 DEF WaitNext, Counted
      <4>2. CASE losses' # losses \/ crashes' # crashes
        BY <1>2, <3>1, <3>5, <4>2 DEF WaitNext, Counted
      <4>3. CASE ~Poll /\ losses' = losses /\ crashes' = crashes
        <5>1. ASSUME ~ctxDone', secretOK'
              PROVE  k * Room <= Cardinality(Ahead(missed[p])')
          <6>1. ~ctxDone /\ secretOK /\ Ahead(k) \subseteq Ahead(missed[p])'
            <7>1. ~ctxDone /\ secretOK /\ Ahead(k) \subseteq Ahead(k)'
              BY <1>2, <3>1, <3>5, <4>3, <5>1, AheadStays DEF WaitNext
            <7> QED BY <3>5, <7>1 DEF Ahead
          <6>2. Ahead(missed[p])' \in SUBSET (Providers \ Lost)
            BY DEF Ahead
          <6>3. Cardinality(Ahead(k)) <= Cardinality(Ahead(missed[p])')
            BY <6>1, <6>2, AheadIsFinite, FewerOf
          <6>4. Cardinality(Ahead(k)) \in Nat /\ k * Room \in Nat
            <7>1. Ahead(k) \in SUBSET (Providers \ Lost)
              BY DEF Ahead
            <7> QED BY <3>1, <7>1, AheadIsFinite, RoomIsPositive
          <6> QED BY <3>1, <3>2, <6>1, <6>3, <6>4
        <5> QED BY <3>1, <3>5, <5>1
      <4> QED BY <4>1, <4>2, <4>3
    <3> QED BY <1>2, <3>1, <3>3, <3>4, <3>5 DEF WaitNext, Counted
  <2> QED BY <2>1, <2>2 DEF Waited
<1> QED BY <1>1, <1>2

(* The safety half of NobodyIsStarved, and its bound: a provider whose      *)
(* reports arrive is passed over at most Backoff times in a row while it is *)
(* due, whoever else can never be located and whosever reports are lost;    *)
(* only a report newly lost or a prober that dies starts the count again.   *)
THEOREM PassedOverAtMostBackoffTimes == WaitSpec => []WaitsAtMostBackoff
<1>1. WaitSpec => DueSafety
  <2>1. WaitInit => DueInit
    BY DEF WaitInit
  <2>2. [WaitNext]_waitVars => [DueNext]_dueVars
    BY DEF WaitNext, waitVars
  <2> QED BY <2>1, <2>2, PTL DEF WaitSpec, DueSafety
<1>2. WaitSpec => []Waited
  BY <1>1, WaitedInit, WaitedNext, DrivenInvariant, DueTallied, PTL DEF WaitSpec
<1>3. Waited => WaitsAtMostBackoff
  BY DEF Waited, WaitsAtMostBackoff
<1> QED BY <1>2, <1>3, PTL

=============================================================================
