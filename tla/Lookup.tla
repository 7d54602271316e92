------------------------------- MODULE Lookup -------------------------------
(***************************************************************************)
(* One provider's tunnel (providertunnel) and what is asked through it:    *)
(* the geolocation sources, all at once and each under its own deadline    *)
(* (geolocate.locate), then the hosts of the other measurements; and how   *)
(* the certificate pins that the tunnel carries came to be, from the chain *)
(* a source presented to the server to the set the prober holds.           *)
(*                                                                         *)
(* A certificate is told apart by its key.  Who answers at the far end of  *)
(* the tunnel is not known: the host itself, or whoever else the provider  *)
(* connects to.  The handshake and the client have the source's timeout    *)
(* (main.go passes -probe-timeout to all three), so that one deadline      *)
(* stands for them.                                                        *)
(***************************************************************************)
EXTENDS Integers, FiniteSets

CONSTANTS
  SourceHosts,  (* geolocate.SourceHosts                                    *)
  ExtraHosts,   (* egress-health destinations and bandwidth targets         *)
  Leaves,       (* keys the source hosts may hold                           *)
  Issuers,      (* keys of certification authorities                        *)
  Stranger,     (* the key of somebody else's certificate                   *)
  MinSources,   (* the quorum                                               *)
  PerSource,    (* -probe-timeout                                           *)
  MaxChanges    (* certificates that are replaced, for TLC                  *)

ASSUME KeysAssumption ==
  /\ Stranger \notin Leaves \cup Issuers /\ Leaves \cap Issuers = {}
  /\ Leaves # {} /\ Issuers # {}
(* No measurement goes to a host that is pinned (egresshealth.go:684 and    *)
(* TestEgressHealthDestinationsAreNotPinned).                               *)
ASSUME LookupAssumption ==
  /\ SourceHosts \cap ExtraHosts = {}
  /\ IsFiniteSet(SourceHosts) /\ MinSources \in Nat /\ PerSource \in Nat
  /\ MaxChanges \in Nat

Hosts == SourceHosts \cup ExtraHosts
Chain == [leaf : Leaves \cup {Stranger}, issuer : Issuers]
Keys(c) == {c.leaf, c.issuer}
OwnChains == [leaf : Leaves, issuer : Issuers]

VARIABLES
  origin,    (* the chain each source host presents                         *)
  observed,  (* the chain the server saw there last                         *)
  served,    (* history: what the pins in force were made from              *)
  pins,      (* Config.Pins: the keys accepted of each host                 *)
  changes,   (* certificates replaced so far                                *)
  ctxDone,   (* the process was told to stop                                *)
  phase,     (* where the probe stands                                      *)
  req,       (* the request to each host                                    *)
  elapsed,   (* since the requests of this phase were sent                  *)
  tun,       (* the tunnel takes packets                                    *)
  pumping    (* the goroutine that hands its packets to the provider runs   *)

certVars   == <<origin, observed, served, pins, changes>>
tunnelVars == <<tun, pumping>>
vars == <<certVars, ctxDone, phase, req, elapsed, tunnelVars>>

-----------------------------------------------------------------------------
Stages == {"idle", "dialling", "handshake", "sent", "ended"}
NoPath == [leaf |-> Stranger, issuer |-> Stranger]   (* no verified path *)
Request == [stage : Stages, path : Chain \cup {NoPath},
            why : {"none", "ok", "unknown_host", "mismatch", "failed", "timeout",
                   "cancelled"}]

Unsent  == [stage |-> "idle", path |-> NoPath, why |-> "none"]
Pending(h) == req[h].stage \in {"dialling", "handshake", "sent"}
Ended(h)   == req[h].stage = "ended"

(* validateGeolocationPins: of each source host the leaf and its issuer.    *)
PinnedLeaf(c) == {c.leaf}
Pinned(c) == {c.leaf, c.issuer}

Init ==
  /\ origin \in [SourceHosts -> OwnChains] /\ observed = origin /\ served = origin
  /\ pins = [h \in SourceHosts |-> Pinned(served[h])] /\ changes = 0
  /\ ctxDone = FALSE /\ phase = "idle" /\ elapsed = 0
  /\ req = [h \in Hosts |-> Unsent]
  /\ tun = FALSE /\ pumping = FALSE

-----------------------------------------------------------------------------
(* Certificates, as long as it matters to this probe; a renewal keeps the   *)
(* issuer.                                                                  *)

Replace(h, c) ==
  /\ phase \in {"idle", "locating"} /\ changes < MaxChanges /\ c # origin[h]
  /\ origin' = [origin EXCEPT ![h] = c] /\ changes' = changes + 1
  /\ UNCHANGED <<observed, served, pins, ctxDone, phase, req, elapsed, tunnelVars>>

Renew(h)        == \E l \in Leaves : Replace(h, [origin[h] EXCEPT !.leaf = l])
ChangeIssuer(h) == \E c \in OwnChains : c.issuer # origin[h].issuer /\ Replace(h, c)

(* The server's observation job, over a connection of its own.              *)
Observe(h) ==
  /\ phase = "idle"
  /\ observed' = [observed EXCEPT ![h] = origin[h]]
  /\ UNCHANGED <<origin, served, pins, changes, ctxDone, phase, req, elapsed, tunnelVars>>

(* refreshGeolocationPins, between passes only.                             *)
Refresh ==
  /\ phase = "idle"
  /\ served' = observed /\ pins' = [h \in SourceHosts |-> Pinned(observed[h])]
  /\ UNCHANGED <<origin, observed, changes, ctxDone, phase, req, elapsed, tunnelVars>>

-----------------------------------------------------------------------------
(* Open takes a copy of the pins, which do not change while it is in use,   *)
(* and returns before anything has come up.  A tunnel without pins or       *)
(* without a tun is not opened.                                             *)
OpenFails ==
  /\ phase = "idle" /\ phase' = "closed"
  /\ UNCHANGED <<certVars, ctxDone, req, elapsed, tunnelVars>>

Ask(hs) ==
  /\ req' = [h \in Hosts |-> IF h \in hs THEN [Unsent EXCEPT !.stage = "dialling"]
                             ELSE req[h]]
  /\ elapsed' = 0

Open ==
  /\ phase = "idle" /\ SourceHosts = DOMAIN pins
  /\ phase' = "locating" /\ Ask(SourceHosts)
  /\ tun' = TRUE /\ pumping' = TRUE
  /\ UNCHANGED <<certVars, ctxDone>>

(* How a request ends, in fetchSource and in the measurements alike.        *)
End(h, why) ==
  req' = [req EXCEPT ![h] = [stage |-> "ended", why |-> why,
                             path  |-> IF why = "ok" THEN @.path ELSE NoPath]]
OnlyRequests == UNCHANGED <<certVars, ctxDone, phase, elapsed, tunnelVars>>

(* DialTLSContext: the hosts of the pins and the extra hosts, no other.     *)
Allowed == DOMAIN pins \cup ExtraHosts

Dial(h) ==
  /\ req[h].stage = "dialling" /\ pumping
  /\ IF h \in Allowed THEN req' = [req EXCEPT ![h].stage = "handshake"]
                      ELSE End(h, "unknown_host")
  /\ OnlyRequests

(* What a peer may present: a path that verifies for the host's name, and   *)
(* any certificates with it that the path does not need; or none.           *)
Presented(h) ==
  [path : (IF h \in SourceHosts THEN {origin[h]} ELSE {})
            \cup [leaf : {Stranger}, issuer : Issuers],
   sent : SUBSET Issuers]

(* checkPin: some key of the verified path; a host without pins passes.     *)
PinSent(h, cert) ==
  h \in DOMAIN pins => (Keys(cert.path) \cup cert.sent) \cap pins[h] # {}
PinHolds(h, cert) ==
  h \in DOMAIN pins => Keys(cert.path) \cap pins[h] # {}

Handshake(h) ==
  /\ req[h].stage = "handshake" /\ pumping
  /\ \E cert \in Presented(h) :
       req' = [req EXCEPT ![h] =
                 [stage |-> IF PinHolds(h, cert) THEN "sent" ELSE "ended",
                  path  |-> cert.path,
                  why   |-> IF PinHolds(h, cert) THEN "none" ELSE "mismatch"]]
  /\ OnlyRequests

(* The only answer that counts: status 200, which a redirect is not, not    *)
(* too long, and parsed.                                                    *)
Answered(h) ==
  /\ req[h].stage = "sent" /\ pumping /\ End(h, "ok")
  /\ OnlyRequests

(* No address, no connection, a chain that does not verify, a connection    *)
(* that breaks off, any other answer.                                       *)
Fails(h) == Pending(h) /\ End(h, "failed") /\ OnlyRequests

PastDeadlineNever(h) == FALSE
PastDeadline(h) == PerSource <= elapsed

TimesOut(h) ==
  /\ Pending(h) /\ PastDeadline(h) /\ End(h, "timeout") /\ OnlyRequests

Cancelled(h) ==
  /\ Pending(h) /\ ctxDone /\ End(h, "cancelled") /\ OnlyRequests

-----------------------------------------------------------------------------
(* wg.Wait, and the quorum.                                                 *)
Answers == {h \in SourceHosts : req[h].why = "ok"}

Located(verdict) ==
  /\ phase = "locating" /\ \A h \in SourceHosts : Ended(h)
  /\ verdict = IF Cardinality(Answers) < MinSources THEN "no_consensus" ELSE "located"
  /\ phase' = verdict
  /\ UNCHANGED <<certVars, ctxDone, req, elapsed, tunnelVars>>

(* The other measurements use the same tunnel, unless the probe has been    *)
(* told to stop.                                                            *)
Measure ==
  /\ phase \in {"located", "no_consensus"} /\ ~ctxDone
  /\ phase' = "measuring" /\ Ask(ExtraHosts)
  /\ UNCHANGED <<certVars, ctxDone, tunnelVars>>

(* Close cancels the context that the tunnel was opened with and closes the *)
(* tun, at which the pump's next read fails.                                *)
CloseLeavesTun == UNCHANGED tun
CloseTun       == tun' = FALSE

Close ==
  /\ \/ phase \in {"located", "no_consensus"} /\ ctxDone
     \/ phase = "measuring" /\ \A h \in ExtraHosts : Ended(h)
  /\ phase' = "closed" /\ CloseTun
  /\ UNCHANGED <<certVars, ctxDone, req, elapsed, pumping>>

(* A read error ends the pump, and nobody hears of it but the log.          *)
PumpEnds == pumping /\ pumping' = FALSE
            /\ UNCHANGED <<certVars, ctxDone, phase, req, elapsed, tun>>

-----------------------------------------------------------------------------
Signal ==
  /\ ~ctxDone /\ ctxDone' = TRUE
  /\ UNCHANGED <<certVars, phase, req, elapsed, tunnelVars>>

(* Time passes while a request is out that is not overdue.                  *)
Overdue == \E h \in Hosts : Pending(h) /\ (PastDeadline(h) \/ ctxDone)

Tick ==
  /\ (\E h \in Hosts : Pending(h)) /\ ~Overdue /\ elapsed < PerSource
  /\ elapsed' = elapsed + 1
  /\ UNCHANGED <<certVars, ctxDone, phase, req, tunnelVars>>

Certificates ==
  \/ Refresh
  \/ \E h \in SourceHosts : Renew(h) \/ ChangeIssuer(h) \/ Observe(h)

Fetch(h) == Dial(h) \/ Handshake(h) \/ Answered(h) \/ Fails(h) \/ TimesOut(h)
            \/ Cancelled(h)

Closed == phase = "closed" /\ UNCHANGED vars

Next ==
  \/ Certificates \/ Signal \/ Tick \/ Closed
  \/ OpenFails \/ Open \/ Measure \/ Close \/ PumpEnds
  \/ \E h \in Hosts : Fetch(h)
  \/ \E verdict \in {"located", "no_consensus"} : Located(verdict)

Spec == Init /\ [][Next]_vars

(* Goroutines run, time passes when nothing is overdue, and a tun that has  *)
(* been closed fails the pump's read.  Nothing says that a host answers.    *)
Fairness ==
  /\ WF_vars(Tick) /\ WF_vars(Measure) /\ WF_vars(Close)
  /\ WF_vars(\E verdict \in {"located", "no_consensus"} : Located(verdict))
  /\ \A h \in Hosts : WF_vars(TimesOut(h)) /\ WF_vars(Cancelled(h))
  /\ WF_vars(~tun /\ PumpEnds)
FairSpec == Spec /\ Fairness

-----------------------------------------------------------------------------
TypeOK ==
  /\ origin \in [SourceHosts -> OwnChains] /\ observed \in [SourceHosts -> OwnChains]
  /\ served \in [SourceHosts -> OwnChains]
  /\ pins \in [SourceHosts -> SUBSET (Leaves \cup Issuers)]
  /\ changes \in Nat /\ ctxDone \in BOOLEAN
  /\ phase \in {"idle", "locating", "located", "no_consensus", "measuring", "closed"}
  /\ req \in [Hosts -> Request] /\ elapsed \in Nat
  /\ tun \in BOOLEAN /\ pumping \in BOOLEAN

(* An answer that is voted on came over a path that holds a key the server  *)
(* saw at that host itself, whatever else the peer sent with it and however *)
(* old the pins have become (checkPin).                                     *)
AnswersArePinned ==
  \A h \in SourceHosts :
    req[h].why = "ok" => Keys(req[h].path) \cap Keys(served[h]) # {}

(* "the pin survives routine leaf rotation without any redeploy" (checkPin):*)
(* the host itself is refused only if it has changed its issuer since the   *)
(* server saw it, and a host of the other measurements never is.            *)
RefusedForCause ==
  \A h \in Hosts : req[h].why = "mismatch" =>
    /\ h \in SourceHosts
    /\ req[h].path.leaf # Stranger => req[h].path.issuer # served[h].issuer

(* A probe comes to its end and leaves nothing behind, through a tunnel     *)
(* that nobody answers in or whose pump has died without a word.            *)
ProbeLeavesNothing ==
  phase = "locating" ~> phase = "closed" /\ ~tun /\ ~pumping
=============================================================================
