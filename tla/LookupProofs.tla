---------------------------- MODULE LookupProofs ----------------------------
(***************************************************************************)
(* Theorems about Lookup, for any hosts, any keys, any deadline and any    *)
(* number of certificates that are replaced.                               *)
(***************************************************************************)
EXTENDS Lookup, TLAPS

(* What the pins are, against what the server saw, and what has been        *)
(* settled of each connection under them.                                   *)
PinsAreServed == pins = [h \in SourceHosts |-> Pinned(served[h])]
FreshAtOpen   == phase = "idle" => \A h \in Hosts : req[h] = Unsent

Accepted(h) ==
  h \in SourceHosts /\ (req[h].stage = "sent" \/ req[h].why = "ok")
    => Keys(req[h].path) \cap Keys(served[h]) # {}
Refused(h) ==
  req[h].why = "mismatch" =>
    /\ h \in SourceHosts
    /\ req[h].path.leaf # Stranger => req[h].path.issuer # served[h].issuer

Settled == \A h \in Hosts : Accepted(h) /\ Refused(h)

IInv == TypeOK /\ PinsAreServed /\ FreshAtOpen /\ Settled

-----------------------------------------------------------------------------
LEMMA UnsentFields == Unsent.stage = "idle" /\ Unsent.why = "none"
BY DEF Unsent

LEMMA UnsentIsSettled ==
  ASSUME NEW h \in Hosts, req[h] = Unsent
  PROVE  Accepted(h) /\ Refused(h)
<1>1. req[h].stage = "idle" /\ req[h].why = "none"
  BY UnsentFields
<1> QED BY <1>1 DEF Accepted, Refused

LEMMA UnsentIsRequest ==
  /\ Unsent \in Request
  /\ [Unsent EXCEPT !.stage = "dialling"] \in Request
BY DEF Unsent, Request, Stages, NoPath

LEMMA InitEstablishes == Init => IInv
<1> SUFFICES ASSUME Init PROVE IInv
  OBVIOUS
<1>1. req \in [Hosts -> Request]
  BY UnsentIsRequest DEF Init
<1>2. pins \in [SourceHosts -> SUBSET (Leaves \cup Issuers)]
  BY DEF Init, OwnChains, Pinned
<1>3. TypeOK
  BY <1>1, <1>2 DEF Init, TypeOK
<1>4. \A h \in Hosts : req[h] = Unsent
  BY DEF Init
<1> QED BY <1>3, <1>4, UnsentIsSettled DEF Init, IInv, PinsAreServed, FreshAtOpen, Settled

(* A step that neither serves pins nor touches a request settles nothing.   *)
LEMMA OthersKeep ==
  ASSUME IInv, UNCHANGED <<served, pins, req>>, TypeOK', FreshAtOpen'
  PROVE  IInv'
BY DEF IInv, PinsAreServed, Settled, Accepted, Refused

(* A step of one request, for which it is enough to settle that one.        *)
LEMMA OneRequest ==
  ASSUME IInv, NEW g \in Hosts, OnlyRequests, req[g].stage # "idle",
         NEW r \in Request, req' = [req EXCEPT ![g] = r],
         Accepted(g)', Refused(g)'
  PROVE  IInv'
<1>1. req' \in [Hosts -> Request] /\ req'[g] = r
  BY DEF IInv, TypeOK
<1>2. TypeOK'
  BY <1>1 DEF IInv, TypeOK, OnlyRequests, certVars, tunnelVars
<1>3. phase # "idle" /\ phase' = phase
  BY UnsentFields DEF IInv, FreshAtOpen, OnlyRequests
<1>4. ASSUME NEW h \in Hosts, h # g PROVE Accepted(h)' /\ Refused(h)'
  <2>1. req'[h] = req[h] /\ served' = served
    BY <1>4 DEF IInv, TypeOK, OnlyRequests, certVars
  <2> QED BY <2>1 DEF IInv, Settled, Accepted, Refused
<1> QED
  BY <1>2, <1>3, <1>4 DEF IInv, PinsAreServed, FreshAtOpen, Settled, OnlyRequests, certVars

-----------------------------------------------------------------------------
LEMMA CertificatesKeep == IInv /\ Certificates => IInv'
<1> SUFFICES ASSUME IInv, Certificates PROVE IInv'
  OBVIOUS
<1> USE DEF IInv, TypeOK, tunnelVars
<1>1. CASE Refresh
  <2>1. /\ phase = "idle" /\ phase' = phase /\ req' = req
        /\ served' = observed /\ pins' = [h \in SourceHosts |-> Pinned(observed[h])]
    BY <1>1 DEF Refresh
  <2>2. pins' \in [SourceHosts -> SUBSET (Leaves \cup Issuers)]
    BY <2>1 DEF OwnChains, Pinned
  <2>3. TypeOK'
    BY <1>1, <2>1, <2>2 DEF Refresh
  <2>4. \A h \in Hosts : req'[h] = Unsent
    BY <2>1 DEF FreshAtOpen
  <2>5. Settled'
    BY <2>4, UnsentFields DEF Settled, Accepted, Refused
  <2> QED BY <2>1, <2>3, <2>4, <2>5 DEF PinsAreServed, FreshAtOpen
<1>2. ASSUME NEW h \in SourceHosts, NEW c \in OwnChains, Replace(h, c)
      PROVE  IInv'
  <2>1. TypeOK' /\ UNCHANGED <<served, pins, req, phase>>
    BY <1>2 DEF Replace
  <2> QED BY <2>1, OthersKeep DEF FreshAtOpen
<1>3. ASSUME NEW h \in SourceHosts, Renew(h) \/ ChangeIssuer(h) PROVE IInv'
  <2>1. origin[h] \in OwnChains
    OBVIOUS
  <2>2. \A l \in Leaves : [origin[h] EXCEPT !.leaf = l] \in OwnChains
    BY <2>1 DEF OwnChains
  <2> QED BY <1>2, <1>3, <2>2 DEF Renew, ChangeIssuer
<1>4. ASSUME NEW h \in SourceHosts, Observe(h) PROVE IInv'
  <2>1. TypeOK' /\ UNCHANGED <<served, pins, req, phase>>
    BY <1>4 DEF Observe
  <2> QED BY <2>1, OthersKeep DEF FreshAtOpen
<1> QED BY <1>1, <1>3, <1>4 DEF Certificates

(* Sending requests anew forgets how the ones before them ended.            *)
LEMMA AskKeeps ==
  ASSUME IInv, NEW hs \in SUBSET Hosts, Ask(hs), UNCHANGED <<certVars, ctxDone>>,
         phase' \in {"locating", "measuring"}, tun' \in BOOLEAN, pumping' \in BOOLEAN
  PROVE  IInv'
<1>1. req' \in [Hosts -> Request]
  BY UnsentIsRequest DEF IInv, TypeOK, Ask
<1>2. TypeOK'
  BY <1>1 DEF IInv, TypeOK, Ask, certVars
<1>3. ASSUME NEW h \in Hosts PROVE Accepted(h)' /\ Refused(h)'
  <2>1. CASE h \in hs
    <3>1. req'[h].stage = "dialling" /\ req'[h].why = "none"
      BY <2>1 DEF Ask, Unsent
    <3> QED BY <3>1 DEF Accepted, Refused
  <2>2. CASE h \notin hs
    <3>1. req'[h] = req[h] /\ served' = served
      BY <2>2 DEF Ask, certVars
    <3> QED BY <3>1 DEF IInv, Settled, Accepted, Refused
  <2> QED BY <2>1, <2>2
<1> QED
  BY <1>2, <1>3 DEF IInv, PinsAreServed, FreshAtOpen, Settled, certVars

LEMMA ProbeKeeps ==
  ASSUME IInv,
         \/ OpenFails \/ Open \/ Measure \/ Close \/ PumpEnds
         \/ \E verdict \in {"located", "no_consensus"} : Located(verdict)
  PROVE  IInv'
<1>1. CASE Open
  BY <1>1, AskKeeps DEF Open, Hosts
<1>2. CASE Measure
  BY <1>2, AskKeeps DEF Measure, Hosts, tunnelVars, IInv, TypeOK
<1>3. CASE OpenFails \/ Close \/ PumpEnds
           \/ \E verdict \in {"located", "no_consensus"} : Located(verdict)
  <2>1. UNCHANGED <<certVars, ctxDone, req, elapsed>> /\ phase' \in {phase, "closed", "located", "no_consensus"}
    BY <1>3 DEF OpenFails, Close, PumpEnds, Located
  <2>2. tun' \in BOOLEAN /\ pumping' \in BOOLEAN
    BY <1>3 DEF OpenFails, Close, CloseTun, PumpEnds, Located, IInv, TypeOK, tunnelVars
  <2>3. TypeOK' /\ FreshAtOpen'
    BY <2>1, <2>2 DEF IInv, TypeOK, FreshAtOpen, certVars
  <2> QED BY <2>1, <2>3, OthersKeep DEF certVars
<1> QED BY <1>1, <1>2, <1>3

-----------------------------------------------------------------------------
(* A request that ends, in whatever way but a mismatch.                     *)
LEMMA EndKeeps ==
  ASSUME IInv, NEW h \in Hosts, OnlyRequests, req[h].stage # "idle",
         NEW why \in {"ok", "unknown_host", "failed", "timeout", "cancelled"},
         End(h, why), why = "ok" => req[h].stage = "sent"
  PROVE  IInv'
<1> DEFINE r == [stage |-> "ended", why |-> why,
                 path |-> IF why = "ok" THEN req[h].path ELSE NoPath]
<1>1. req' = [req EXCEPT ![h] = r] /\ r \in Request
  BY DEF End, IInv, TypeOK, Request, Stages
<1>2. req'[h] = r /\ served' = served
  BY <1>1 DEF IInv, TypeOK, OnlyRequests, certVars
<1>3. Accepted(h)' /\ Refused(h)'
  BY <1>2 DEF Accepted, Refused, IInv, Settled
<1> QED BY <1>1, <1>3, OneRequest

(* Of two keys pinned and two presented, no common one means that neither   *)
(* the leaf nor the issuer is the one the server saw.                       *)
LEMMA HandshakeSettles ==
  ASSUME IInv, NEW h \in Hosts, NEW cert \in Presented(h)
  PROVE  /\ PinHolds(h, cert) /\ h \in SourceHosts
              => Keys(cert.path) \cap Keys(served[h]) # {}
         /\ ~PinHolds(h, cert) =>
              h \in SourceHosts /\ cert.path.issuer # served[h].issuer
<1>1. DOMAIN pins = SourceHosts
  BY DEF IInv, TypeOK
<1>2. h \in SourceHosts => pins[h] = Keys(served[h])
  BY DEF IInv, PinsAreServed, Pinned, Keys
<1> QED BY <1>1, <1>2 DEF PinHolds, Keys

LEMMA FetchKeeps ==
  ASSUME IInv, NEW h \in Hosts, Fetch(h)
  PROVE  IInv'
<1>1. CASE Dial(h)
  <2>1. CASE h \in Allowed
    <3> DEFINE r == [req[h] EXCEPT !.stage = "handshake"]
    <3>1. req' = [req EXCEPT ![h] = r] /\ r \in Request
      BY <1>1, <2>1 DEF Dial, IInv, TypeOK, Request, Stages
    <3>2. req'[h] = r /\ served' = served
      BY <1>1, <3>1 DEF Dial, IInv, TypeOK, OnlyRequests, certVars
    <3>3. r.stage = "handshake" /\ r.why = req[h].why /\ r.path = req[h].path
      BY DEF IInv, TypeOK, Request
    <3> HIDE DEF r
    <3>4. /\ req'[h].stage = "handshake" /\ req'[h].why = req[h].why
          /\ req'[h].path = req[h].path /\ served' = served
      BY <3>2, <3>3
    <3>5. Accepted(h) /\ Refused(h)
      BY DEF IInv, Settled
    <3>6. Accepted(h)'
      BY <3>4, <3>5 DEF Accepted
    <3>7. Refused(h)'
      BY <3>4, <3>5 DEF Refused
    <3> QED BY <1>1, <3>1, <3>6, <3>7, OneRequest DEF Dial
  <2>2. CASE h \notin Allowed
    BY <1>1, <2>2, EndKeeps DEF Dial
  <2> QED BY <2>1, <2>2
<1>2. CASE Handshake(h)
  <2>1. PICK cert \in Presented(h) :
          req' = [req EXCEPT ![h] =
                    [stage |-> IF PinHolds(h, cert) THEN "sent" ELSE "ended",
                     path  |-> cert.path,
                     why   |-> IF PinHolds(h, cert) THEN "none" ELSE "mismatch"]]
    BY <1>2 DEF Handshake
  <2> DEFINE r == [stage |-> IF PinHolds(h, cert) THEN "sent" ELSE "ended",
                   path  |-> cert.path,
                   why   |-> IF PinHolds(h, cert) THEN "none" ELSE "mismatch"]
  <2>2. cert.path \in Chain
    <3>1. h \in SourceHosts => origin[h] \in Chain
      BY DEF IInv, TypeOK, OwnChains, Chain
    <3> QED BY <3>1 DEF Presented, Chain
  <2>3. r \in Request
    BY <2>2 DEF Request, Stages
  <2>4. req'[h] = r /\ served' = served
    BY <1>2, <2>1 DEF Handshake, IInv, TypeOK, OnlyRequests, certVars
  <2>5. /\ req'[h].path = cert.path /\ served' = served
        /\ req'[h].stage = "sent" \/ req'[h].why = "ok" => PinHolds(h, cert)
        /\ req'[h].why = "mismatch" => ~PinHolds(h, cert)
    <3>1. CASE PinHolds(h, cert)
      <4>1. req'[h] = [stage |-> "sent", path |-> cert.path, why |-> "none"]
        BY <2>4, <3>1, Zenon
      <4>2. served' = served
        BY <2>4
      <4> HIDE DEF r
      <4>3. req'[h].path = cert.path /\ req'[h].why = "none"
        BY <4>1
      <4> QED BY <3>1, <4>2, <4>3
    <3>2. CASE ~PinHolds(h, cert)
      <4>1. req'[h] = [stage |-> "ended", path |-> cert.path, why |-> "mismatch"]
        BY <2>4, <3>2, Zenon
      <4> HIDE DEF r
      <4> QED BY <2>4, <3>2, <4>1
    <3> QED BY <3>1, <3>2
  <2>6. Accepted(h)' /\ Refused(h)'
    <3>1. /\ PinHolds(h, cert) /\ h \in SourceHosts
               => Keys(cert.path) \cap Keys(served[h]) # {}
          /\ ~PinHolds(h, cert) =>
               h \in SourceHosts /\ cert.path.issuer # served[h].issuer
      BY HandshakeSettles
    <3> QED BY <2>5, <3>1 DEF Accepted, Refused
  <2> QED BY <1>2, <2>1, <2>3, <2>6, OneRequest DEF Handshake
<1>3. CASE Answered(h)
  BY <1>3, EndKeeps DEF Answered
<1>4. CASE Fails(h) \/ TimesOut(h) \/ Cancelled(h)
  BY <1>4, EndKeeps DEF Fails, TimesOut, Cancelled, Pending
<1> QED BY <1>1, <1>2, <1>3, <1>4 DEF Fetch

LEMMA NextKeeps == IInv /\ [Next]_vars => IInv'
<1> SUFFICES ASSUME IInv, [Next]_vars PROVE IInv'
  OBVIOUS
<1>1. CASE Certificates
  BY <1>1, CertificatesKeep
<1>2. CASE Signal \/ Tick \/ Closed \/ UNCHANGED vars
  <2>1. UNCHANGED <<served, pins, req, phase>>
    BY <1>2 DEF Signal, Tick, Closed, vars, certVars
  <2>2. TypeOK'
    <3> USE DEF IInv, TypeOK, certVars, tunnelVars
    <3>1. CASE Signal
      BY <3>1 DEF Signal
    <3>2. CASE Tick
      BY <3>2 DEF Tick
    <3>3. CASE Closed \/ UNCHANGED vars
      BY <3>3 DEF Closed, vars
    <3> QED BY <1>2, <3>1, <3>2, <3>3
  <2> QED BY <2>1, <2>2, OthersKeep DEF IInv, FreshAtOpen
<1>3. ASSUME NEW h \in Hosts, Fetch(h) PROVE IInv'
  BY <1>3, FetchKeeps
<1>4. CASE \/ OpenFails \/ Open \/ Measure \/ Close \/ PumpEnds
           \/ \E verdict \in {"located", "no_consensus"} : Located(verdict)
  BY <1>4, ProbeKeeps
<1> QED BY <1>1, <1>2, <1>3, <1>4 DEF Next

LEMMA Invariant == Spec => []IInv
BY InitEstablishes, NextKeeps, PTL DEF Spec

-----------------------------------------------------------------------------
(* Every variable of the tunnel and its pins has its type.                  *)
THEOREM LookupTyped == Spec => []TypeOK
<1>1. IInv => TypeOK
  BY DEF IInv
<1> QED BY <1>1, Invariant, PTL

(* An answer is only voted on if it came over a path with a key that the    *)
(* server saw at the host, at whatever moment certificates are replaced.    *)
THEOREM PinnedAnswers == Spec => []AnswersArePinned
<1>1. IInv => AnswersArePinned
  BY DEF IInv, Settled, Accepted, AnswersArePinned, Hosts
<1> QED BY <1>1, Invariant, PTL

(* However many leaves are renewed, only a change of issuer behind the      *)
(* server's back makes the host itself be refused.                          *)
THEOREM RenewalIsHarmless == Spec => []RefusedForCause
<1>1. IInv => RefusedForCause
  BY DEF IInv, Settled, Refused, RefusedForCause
<1> QED BY <1>1, Invariant, PTL
-----------------------------------------------------------------------------
(* The safety half of ProbeLeavesNothing.                                   *)

Idle(h) == req[h].stage = "idle"

(* Which requests are out in each phase, and that the tun is there for them. *)
Asked ==
  /\ phase = "idle" => \A h \in Hosts : Idle(h)
  /\ phase = "locating" => /\ \A h \in SourceHosts : ~Idle(h)
                           /\ \A h \in ExtraHosts : Idle(h)
  /\ phase \in {"located", "no_consensus"} =>
       /\ \A h \in SourceHosts : Ended(h)
       /\ \A h \in ExtraHosts : Idle(h)
  /\ phase = "measuring" => /\ \A h \in SourceHosts : Ended(h)
                            /\ \A h \in ExtraHosts : ~Idle(h)
  /\ phase = "closed" => \A h \in Hosts : ~Pending(h)
  /\ phase \in {"idle", "closed"} <=> ~tun
  /\ elapsed <= PerSource

(* A request is out only in its own phase: none is left when the votes are  *)
(* counted, and none when the tunnel is closed, which takes the tun with it. *)
NothingInFlight ==
  /\ \A h \in Hosts : Pending(h) =>
       \/ phase = "locating" /\ h \in SourceHosts
       \/ phase = "measuring" /\ h \in ExtraHosts
  /\ phase \in {"idle", "closed"} <=> ~tun

(* Votes that have been counted do not change any more, whatever the        *)
(* measurements ask for through the same tunnel.                            *)
VotesStand == [][phase \notin {"idle", "locating"} => Answers' = Answers]_vars

PhaseRank == [idle |-> 0, locating |-> 1, located |-> 2, no_consensus |-> 2,
              measuring |-> 3, closed |-> 4]
StageRank == [idle |-> 0, dialling |-> 1, handshake |-> 2, sent |-> 3, ended |-> 4]

LaterPhase == PhaseRank[phase] < PhaseRank[phase']
Closer(h) ==
  /\ req' = [req EXCEPT ![h] = req'[h]]
  /\ StageRank[req[h].stage] < StageRank[req'[h].stage]

(* A probe is on its way to its end: a step changes nothing of it, or takes *)
(* it to a later phase, one of its requests to a later stage, or its clock  *)
(* to a time that is not past the deadline.                                 *)
ProbeGoesForward ==
  [][\/ UNCHANGED <<phase, req, elapsed>>
     \/ LaterPhase
     \/ phase' = phase /\ elapsed' = elapsed /\ \E h \in Hosts : Closer(h)
     \/ /\ UNCHANGED <<phase, req>>
        /\ elapsed' = elapsed + 1 /\ elapsed' <= PerSource]_vars

(* And it can always go on without an answer from anybody: a request that   *)
(* is out is overdue or the clock may advance, and once none is out the     *)
(* probe votes, measures or closes the tunnel.                              *)
NeedsNoAnswer ==
  \/ phase \in {"idle", "closed"}
  \/ \E h \in Hosts : Pending(h) /\ (PastDeadline(h) \/ ctxDone)
  \/ (\E h \in Hosts : Pending(h)) /\ ~Overdue /\ elapsed < PerSource
  \/ phase = "locating" /\ \A h \in SourceHosts : Ended(h)
  \/ phase \in {"located", "no_consensus"}
  \/ phase = "measuring" /\ \A h \in ExtraHosts : Ended(h)

LEMMA Ranks ==
  /\ PhaseRank["idle"] = 0 /\ PhaseRank["locating"] = 1 /\ PhaseRank["located"] = 2
  /\ PhaseRank["no_consensus"] = 2 /\ PhaseRank["measuring"] = 3
  /\ PhaseRank["closed"] = 4
  /\ StageRank["idle"] = 0 /\ StageRank["dialling"] = 1 /\ StageRank["handshake"] = 2
  /\ StageRank["sent"] = 3 /\ StageRank["ended"] = 4
BY DEF PhaseRank, StageRank

(* How a step of one request leaves it and the others.                      *)
LEMMA EndsWith ==
  ASSUME req \in [Hosts -> Request], NEW h \in Hosts, NEW why, End(h, why)
  PROVE  /\ req' = [req EXCEPT ![h] = req'[h]] /\ req'[h].stage = "ended"
         /\ \A g \in Hosts : g # h => req'[g] = req[g]
<1> DEFINE r == [stage |-> "ended", why |-> why,
                 path |-> IF why = "ok" THEN req[h].path ELSE NoPath]
<1>1. req' = [req EXCEPT ![h] = r]
  BY DEF End
<1>2. r.stage = "ended"
  OBVIOUS
<1> HIDE DEF r
<1> QED BY <1>1, <1>2

LEMMA FetchMoves ==
  ASSUME IInv, NEW h \in Hosts, Fetch(h)
  PROVE  /\ UNCHANGED <<phase, elapsed, ctxDone, tun>> /\ Pending(h) /\ Closer(h)
         /\ req'[h].stage # "idle"
         /\ \A g \in Hosts : g # h => req'[g] = req[g]
<1>0. req \in [Hosts -> Request]
  BY DEF IInv, TypeOK
<1>1. UNCHANGED <<phase, elapsed, ctxDone, tun>>
  BY DEF Fetch, Dial, Handshake, Answered, Fails, TimesOut, Cancelled, OnlyRequests,
     tunnelVars
<1> DEFINE moved ==
      /\ Pending(h) /\ req' = [req EXCEPT ![h] = req'[h]]
      /\ \A g \in Hosts : g # h => req'[g] = req[g]
      /\ \/ req'[h].stage = "ended"
         \/ req[h].stage = "dialling" /\ req'[h].stage = "handshake"
         \/ req[h].stage = "handshake" /\ req'[h].stage = "sent"
<1>2. moved
  <2>1. CASE Dial(h)
    <3>1. CASE h \in Allowed
      <4>1. /\ req[h].stage = "dialling"
            /\ req' = [req EXCEPT ![h].stage = "handshake"]
        BY <2>1, <3>1 DEF Dial
      <4>2. req[h] \in Request
        BY <1>0
      <4>3. req'[h].stage = "handshake"
        BY <1>0, <4>1, <4>2 DEF Request
      <4> QED BY <1>0, <4>1, <4>3 DEF Pending
    <3>2. CASE h \notin Allowed
      BY <1>0, <2>1, <3>2, EndsWith DEF Dial, Pending
    <3> QED BY <3>1, <3>2
  <2>2. CASE Handshake(h)
    <3>1. PICK cert \in Presented(h) :
            req' = [req EXCEPT ![h] =
                      [stage |-> IF PinHolds(h, cert) THEN "sent" ELSE "ended",
                       path  |-> cert.path,
                       why   |-> IF PinHolds(h, cert) THEN "none" ELSE "mismatch"]]
      BY <2>2 DEF Handshake
    <3> DEFINE st == IF PinHolds(h, cert) THEN "sent" ELSE "ended"
               r == [stage |-> st, path |-> cert.path,
                     why |-> IF PinHolds(h, cert) THEN "none" ELSE "mismatch"]
    <3>2. r.stage = st /\ st \in {"sent", "ended"} /\ req' = [req EXCEPT ![h] = r]
      BY <3>1
    <3> HIDE DEF r, st
    <3>3. req[h].stage = "handshake"
      BY <2>2 DEF Handshake
    <3> QED BY <1>0, <3>2, <3>3 DEF Pending
  <2>3. CASE Answered(h)
    BY <1>0, <2>3, EndsWith DEF Answered, Pending
  <2>4. CASE Fails(h) \/ TimesOut(h) \/ Cancelled(h)
    BY <1>0, <2>4, EndsWith DEF Fails, TimesOut, Cancelled
  <2> QED BY <2>1, <2>2, <2>3, <2>4 DEF Fetch
<1>3. Closer(h)
  BY <1>2, Ranks DEF Closer, Pending
<1> QED BY <1>1, <1>2, <1>3

(* How a step of the probe itself leaves the requests.                      *)
LEMMA AskMoves ==
  ASSUME NEW hs \in SUBSET Hosts, Ask(hs)
  PROVE  /\ elapsed' = 0
         /\ \A h \in hs : req'[h].stage = "dialling"
         /\ \A h \in Hosts \ hs : req'[h] = req[h]
<1>1. [Unsent EXCEPT !.stage = "dialling"].stage = "dialling"
  BY DEF Unsent
<1> QED BY <1>1 DEF Ask

LEMMA AskedInit == Init => Asked
BY UnsentFields, LookupAssumption DEF Init, Asked, Idle

LEMMA AskedNext == IInv /\ Asked /\ [Next]_vars => Asked'
<1> SUFFICES ASSUME IInv, Asked, [Next]_vars PROVE Asked'
  OBVIOUS
<1> USE DEF Asked, Idle, Ended, Pending
<1>1. CASE Certificates \/ Signal \/ PumpEnds \/ Closed \/ UNCHANGED vars
  <2>1. UNCHANGED <<phase, req, elapsed, tun>>
    BY <1>1 DEF Certificates, Refresh, Renew, ChangeIssuer, Replace, Observe, Signal,
       PumpEnds, Closed, vars, tunnelVars
  <2> QED BY <2>1
<1>2. CASE Tick
  <2>1. UNCHANGED <<phase, req, tun>> /\ elapsed' <= PerSource
    BY <1>2, LookupAssumption DEF Tick, tunnelVars, IInv, TypeOK
  <2> QED BY <2>1
<1>3. ASSUME NEW h \in Hosts, Fetch(h) PROVE Asked'
  <2>1. /\ UNCHANGED <<phase, elapsed, tun>>
        /\ req[h].stage \in {"dialling", "handshake", "sent"}
        /\ req'[h].stage # "idle"
        /\ \A g \in Hosts : g # h => req'[g] = req[g]
    BY <1>3, FetchMoves
  <2>2. SourceHosts \subseteq Hosts /\ ExtraHosts \subseteq Hosts
    BY DEF Hosts
  <2> QED BY <2>1, <2>2
<1>4. CASE Open
  <2>1. /\ phase = "idle" /\ phase' = "locating" /\ elapsed' = 0 /\ tun'
        /\ \A h \in SourceHosts : req'[h].stage = "dialling"
        /\ \A h \in Hosts \ SourceHosts : req'[h] = req[h]
    BY <1>4, AskMoves DEF Open, Hosts
  <2>2. ExtraHosts \subseteq Hosts \ SourceHosts
    BY LookupAssumption DEF Hosts
  <2> QED BY <2>1, <2>2, LookupAssumption
<1>5. CASE Measure
  <2>1. /\ phase \in {"located", "no_consensus"} /\ phase' = "measuring"
        /\ elapsed' = 0 /\ tun' = tun
        /\ \A h \in ExtraHosts : req'[h].stage = "dialling"
        /\ \A h \in Hosts \ ExtraHosts : req'[h] = req[h]
    BY <1>5, AskMoves DEF Measure, Hosts, tunnelVars
  <2>2. SourceHosts \subseteq Hosts \ ExtraHosts
    BY LookupAssumption DEF Hosts
  <2> QED BY <2>1, <2>2, LookupAssumption
<1>6. CASE OpenFails \/ Close
  <2>1. /\ phase' = "closed" /\ UNCHANGED <<req, elapsed>>
        /\ tun' = FALSE
        /\ \A h \in Hosts : req[h].stage \in {"idle", "ended"}
    BY <1>6 DEF OpenFails, Close, CloseTun, tunnelVars, Hosts
  <2> QED BY <2>1
<1>7. ASSUME NEW verdict \in {"located", "no_consensus"}, Located(verdict)
      PROVE  Asked'
  <2>1. /\ phase = "locating" /\ \A h \in SourceHosts : Ended(h)
        /\ phase' \in {"located", "no_consensus"} /\ UNCHANGED <<req, elapsed, tun>>
    BY <1>7 DEF Located, tunnelVars
  <2> QED BY <2>1
<1> QED BY <1>1, <1>2, <1>3, <1>4, <1>5, <1>6, <1>7 DEF Next

LEMMA AskedInvariant == Spec => [](IInv /\ Asked)
BY InitEstablishes, NextKeeps, AskedInit, AskedNext, PTL DEF Spec

(* No answer comes in after the vote it belongs to, and none through a      *)
(* tunnel that has been closed: Locate waits for all of its requests.       *)
THEOREM NoRequestIsLeft == Spec => []NothingInFlight
<1>1. IInv /\ Asked => NothingInFlight
  BY DEF Asked, NothingInFlight, IInv, TypeOK, Pending, Ended, Idle, Hosts
<1> QED BY <1>1, AskedInvariant, PTL

(* A consensus is of the answers that were counted, to the end of the probe. *)
THEOREM CountedVotesStand == Spec => VotesStand
<1>1. ASSUME IInv, Asked, [Next]_vars, phase \notin {"idle", "locating"}
      PROVE  Answers' = Answers
  <2> SUFFICES ASSUME NEW h \in SourceHosts PROVE req'[h] = req[h]
    BY DEF Answers
  <2>1. h \in Hosts /\ h \notin ExtraHosts /\ ~Pending(h)
    BY <1>1, LookupAssumption
       DEF Hosts, Asked, IInv, TypeOK, Pending, Ended, Idle
  <2>2. CASE Certificates \/ Signal \/ PumpEnds \/ Closed \/ UNCHANGED vars
    BY <2>2 DEF Certificates, Refresh, Renew, ChangeIssuer, Replace, Observe, Signal,
       PumpEnds, Closed, vars
  <2>3. CASE \/ Tick \/ OpenFails \/ Close
             \/ \E verdict \in {"located", "no_consensus"} : Located(verdict)
    BY <2>3 DEF Tick, OpenFails, Close, Located
  <2>4. ASSUME NEW g \in Hosts, Fetch(g) PROVE req'[h] = req[h]
    BY <1>1, <2>1, <2>4, FetchMoves
  <2>5. CASE Open
    BY <1>1, <2>5 DEF Open
  <2>6. CASE Measure
    BY <2>1, <2>6, AskMoves DEF Measure, Hosts
  <2> QED BY <1>1, <2>2, <2>3, <2>4, <2>5, <2>6 DEF Next
<1>2. IInv /\ Asked /\ [Next]_vars
        => [phase \notin {"idle", "locating"} => Answers' = Answers]_vars
  BY <1>1
<1> QED BY <1>2, AskedInvariant, PTL DEF Spec, VotesStand

(* A probe takes finitely many steps, whoever answers and whoever does not. *)
THEOREM ProbeIsBounded == Spec => ProbeGoesForward
<1> DEFINE forward ==
      \/ UNCHANGED <<phase, req, elapsed>>
      \/ LaterPhase
      \/ phase' = phase /\ elapsed' = elapsed /\ \E h \in Hosts : Closer(h)
      \/ /\ UNCHANGED <<phase, req>>
         /\ elapsed' = elapsed + 1 /\ elapsed' <= PerSource
<1>1. ASSUME IInv, Asked, [Next]_vars
      PROVE  forward
  <2>1. CASE Certificates \/ Signal \/ PumpEnds \/ Closed \/ UNCHANGED vars
    BY <2>1 DEF Certificates, Refresh, Renew, ChangeIssuer, Replace, Observe, Signal,
       PumpEnds, Closed, vars
  <2>2. CASE Tick
    <3>1. elapsed \in Nat /\ elapsed < PerSource /\ elapsed' = elapsed + 1
          /\ UNCHANGED <<phase, req>>
      BY <1>1, <2>2 DEF Tick, IInv, TypeOK
    <3>2. elapsed' <= PerSource
      BY <3>1, LookupAssumption
    <3> QED BY <3>1, <3>2
  <2>3. ASSUME NEW h \in Hosts, Fetch(h) PROVE forward
    BY <1>1, <2>3, FetchMoves
  <2>4. CASE Open \/ Measure
    BY <2>4, Ranks DEF Open, Measure, LaterPhase
  <2>5. CASE \/ OpenFails \/ Close
             \/ \E verdict \in {"located", "no_consensus"} : Located(verdict)
    BY <2>5, Ranks DEF OpenFails, Close, Located, LaterPhase
  <2> QED BY <1>1, <2>1, <2>2, <2>3, <2>4, <2>5 DEF Next
<1>2. IInv /\ Asked /\ [Next]_vars => [forward]_vars
  BY <1>1
<1> QED BY <1>2, AskedInvariant, PTL DEF Spec, ProbeGoesForward

(* And until it is at its end it has a step to take for which it waits on   *)
(* nobody: that it ends needs only that its goroutines run.                 *)
THEOREM ProbeIsNeverStuck == Spec => []NeedsNoAnswer
<1>1. ASSUME IInv, Asked PROVE NeedsNoAnswer
  <2>1. elapsed \in Nat /\ elapsed <= PerSource /\ PerSource \in Nat
    BY <1>1, LookupAssumption DEF IInv, TypeOK, Asked
  <2>2. ASSUME NEW h \in Hosts, Pending(h) PROVE NeedsNoAnswer
    <3>1. CASE Overdue
      BY <3>1 DEF Overdue, NeedsNoAnswer
    <3>2. CASE ~Overdue
      <4>1. elapsed < PerSource
        BY <2>1, <2>2, <3>2 DEF Overdue, PastDeadline
      <4> QED BY <2>2, <3>2, <4>1 DEF NeedsNoAnswer
    <3> QED BY <3>1, <3>2
  <2>3. ASSUME \A h \in Hosts : ~Pending(h) PROVE NeedsNoAnswer
    <3>1. \A h \in Hosts : req[h].stage \in Stages
      BY <1>1 DEF IInv, TypeOK, Request
    <3>2. \A h \in Hosts : Idle(h) \/ Ended(h)
      BY <2>3, <3>1 DEF Pending, Idle, Ended, Stages
    <3>3. SourceHosts \subseteq Hosts /\ ExtraHosts \subseteq Hosts
      BY DEF Hosts
    <3> QED BY <1>1, <3>2, <3>3 DEF NeedsNoAnswer, Asked, IInv, TypeOK
  <2> QED BY <2>2, <2>3
<1> QED BY <1>1, AskedInvariant, PTL
=============================================================================
