--------------------------- MODULE HealthRunProofs ---------------------------
(***************************************************************************)
(* Theorems about HealthRun, for every table of destinations, every sample *)
(* and every provider.                                                     *)
(***************************************************************************)
EXTENDS HealthRun, SumLemmas

(* The goroutines that hold a slot.                                         *)
Flight(st) == {d \in Table : st[d] = "flight"}

(* The slots are held by the requests in flight and by nothing else, and    *)
(* requests are in flight during the run only.                              *)
Slots ==
  /\ sem = Cardinality(Flight(state))
  /\ phase = "idle" => dests = {} /\ ok = {} /\ \A d \in Table : state[d] = "out"
  /\ \A d \in Table : state[d] = "out" <=> d \notin dests
  /\ phase = "returned" => \A d \in dests : state[d] = "ended"

OnTime == now <= Budget

IInv == TypeOK /\ Slots /\ OnTime

-----------------------------------------------------------------------------
LEMMA FlightIsFinite ==
  ASSUME NEW st
  PROVE  IsFiniteSet(Flight(st)) /\ Cardinality(Flight(st)) \in Nat
<1>1. Flight(st) \in SUBSET Table
  BY DEF Flight
<1>2. IsFiniteSet(Flight(st))
  BY <1>1, FS_Subset, TableAssumption
<1> QED BY <1>2, FS_CardinalityType

LEMMA NoneInFlight ==
  ASSUME NEW st, \A d \in Table : st[d] # "flight"
  PROVE  Cardinality(Flight(st)) = 0
<1>1. Flight(st) = {}
  BY DEF Flight
<1> QED BY <1>1, FS_EmptySet

LEMMA OneMoreInFlight ==
  ASSUME NEW st \in [Table -> States], NEW d \in Table, st[d] # "flight"
  PROVE  Cardinality(Flight([st EXCEPT ![d] = "flight"])) = Cardinality(Flight(st)) + 1
<1>1. Flight([st EXCEPT ![d] = "flight"]) = Flight(st) \cup {d} /\ d \notin Flight(st)
  BY DEF Flight
<1> QED BY <1>1, FlightIsFinite, FS_AddElement

LEMMA OneLessInFlight ==
  ASSUME NEW st \in [Table -> States], NEW d \in Table, st[d] = "flight"
  PROVE  Cardinality(Flight([st EXCEPT ![d] = "ended"])) = Cardinality(Flight(st)) - 1
<1>1. Flight([st EXCEPT ![d] = "ended"]) = Flight(st) \ {d} /\ d \in Flight(st)
  BY DEF Flight
<1> QED BY <1>1, FlightIsFinite, FS_RemoveElement

-----------------------------------------------------------------------------
(* The size of a sample. *)

LEMMA ClassesAreFinite == IsFiniteSet(Classes)
<1> DEFINE f == [d \in Table |-> Class[d]]
<1>1. f \in Surjection(Table, Classes)
  BY DEF Surjection, Classes
<1> HIDE DEF f
<1> QED BY <1>1, FS_Surjection, TableAssumption

LEMMA CountIsNatural == ASSUME NEW c \in Classes PROVE SampleCount(c) \in Nat
<1>1. OfClass(c) \in SUBSET Table
  BY DEF OfClass
<1>2. Cardinality(OfClass(c)) \in Nat
  BY <1>1, FS_Subset, FS_CardinalityType, TableAssumption
<1> QED BY <1>2, TableAssumption DEF SampleCount

LEMMA SampleAddsUp ==
  \E g : /\ SamplePerRun = g[Classes]
         /\ Sums(g, [c \in Classes |-> SampleCount(c)], Classes)
<1> DEFINE w == [c \in Classes |-> SampleCount(c)]
           Step(g) == g = [part \in SUBSET Classes |->
                             IF part = {} THEN 0
                             ELSE SampleCount(CHOOSE x \in part : TRUE)
                                    + g[part \ {CHOOSE x \in part : TRUE}]]
           iter == CHOOSE iter : Step(iter)
<1>1. PICK h : Sums(h, w, Classes)
  BY SumsExist, ClassesAreFinite
<1>2. \A g : Step(g) <=> Sums(g, w, Classes)
  <2> TAKE g
  <2>1. \A part \in SUBSET Classes :
          part # {} => w[Pick(part)] = SampleCount(CHOOSE x \in part : TRUE)
    BY DEF Pick
  <2> HIDE DEF w
  <2> QED BY <2>1 DEF Sums, Pick
<1>3. SamplePerRun = iter[Classes]
  BY DEF SamplePerRun, MapThenSumSet, MapThenFoldSet
<1>4. Step(iter)
  <2>1. Step(h)
    BY <1>1, <1>2
  <2> HIDE DEF Step
  <2> QED BY <2>1
<1> QED BY <1>2, <1>3, <1>4

LEMMA SampleIsNatural == SamplePerRun \in Nat
BY SampleAddsUp, SumIsNatural, ClassesAreFinite, CountIsNatural

(* Every sample has as many destinations as its classes ask for together.   *)
LEMMA SampleHasItsSize ==
  ASSUME NEW drawn \in Samples
  PROVE  Cardinality(drawn) = SamplePerRun
<1> DEFINE tag == [d \in drawn |-> Class[d]]
           w == [c \in Classes |-> SampleCount(c)]
<1>1. drawn \in SUBSET Table /\ IsFiniteSet(drawn)
  BY FS_Subset, TableAssumption DEF Samples
<1>2. tag \in [drawn -> Classes]
  BY <1>1 DEF Classes
<1>3. ASSUME NEW c \in Classes
      PROVE  w[c] = Cardinality({d \in drawn : tag[d] = c})
  <2>1. {d \in drawn : tag[d] = c} = drawn \cap OfClass(c)
    BY <1>1 DEF OfClass
  <2>2. Cardinality(drawn \cap OfClass(c)) = SampleCount(c)
    BY DEF Samples
  <2> QED BY <2>1, <2>2
<1>4. PICK g : SamplePerRun = g[Classes] /\ Sums(g, w, Classes)
  BY SampleAddsUp
<1> HIDE DEF tag, w
<1> QED BY <1>1, <1>2, <1>3, <1>4, SumOfParts, ClassesAreFinite

-----------------------------------------------------------------------------
(* The arithmetic of the options. *)

LEMMA ConcurrencyIsPositive == Concurrency \in Nat \ {0}
BY OptionsAssumption DEF Concurrency

LEMMA QuotientIsPositive ==
  ASSUME NEW x \in Nat, NEW c \in Nat \ {0}, c <= x
  PROVE  x \div c \in Nat \ {0}
<1>0. x \div c \in Nat
  OBVIOUS
<1> SUFFICES ASSUME x \div c = 0 PROVE FALSE
  BY <1>0
<1>1. x = c * (x \div c) + (x % c) /\ x % c < c
  OBVIOUS
<1>2. c * (x \div c) = 0
  OBVIOUS
<1>3. x % c \in Nat
  OBVIOUS
<1> QED BY <1>1, <1>2, <1>3

LEMMA RoundsArePositive == Rounds \in Nat \ {0}
<1>1. CASE SamplePerRun = 0
  BY <1>1 DEF Rounds
<1>2. CASE SamplePerRun # 0
  <2>1. /\ SamplePerRun + DefaultConcurrency - 1 \in Nat
        /\ DefaultConcurrency \in Nat \ {0}
        /\ DefaultConcurrency <= SamplePerRun + DefaultConcurrency - 1
    BY <1>2, SampleIsNatural, OptionsAssumption
  <2> QED BY <1>2, <2>1, QuotientIsPositive DEF Rounds, CeilDiv
<1> QED BY <1>1, <1>2

LEMMA PerRequestIsPositive == PerRequest \in Nat \ {0}
<1> DEFINE share == ProbeTimeout \div Rounds
<1>1. share \in Int
  BY RoundsArePositive, OptionsAssumption
<1> HIDE DEF share
<1>2. PerRequest = IF share <= 0 THEN ProbeTimeout ELSE share
  BY DEF PerRequest, share
<1> QED BY <1>1, <1>2, OptionsAssumption

(* So many rounds of c slots each have a place for every one of n.          *)
LEMMA EnoughRounds ==
  ASSUME NEW n \in Nat, NEW c \in Nat \ {0}
  PROVE  CeilDiv(n, c) \in Nat /\ n <= c * CeilDiv(n, c)
<1> DEFINE a == n + c - 1
           q == a \div c
           r == a % c
<1>1. a \in Nat /\ q \in Nat /\ r \in Nat /\ r < c /\ a = c * q + r
  OBVIOUS
<1>2. CeilDiv(n, c) = q
  BY DEF CeilDiv
<1>3. a = n + c - 1
  OBVIOUS
<1> HIDE DEF a, q, r
<1>4. c * q \in Nat
  BY <1>1
<1> QED BY <1>1, <1>2, <1>3, <1>4

(* The rounds of a sampled run, end to end, take one -probe-timeout.        *)
LEMMA SharesFit ==
  ASSUME Rounds <= ProbeTimeout
  PROVE  Rounds * PerRequest <= ProbeTimeout
<1> DEFINE q == ProbeTimeout \div Rounds
           r == ProbeTimeout % Rounds
<1>1. q \in Nat \ {0}
  BY QuotientIsPositive, RoundsArePositive, OptionsAssumption
<1>2. r \in Nat /\ ProbeTimeout = Rounds * q + r
  BY RoundsArePositive, OptionsAssumption
<1>3. PerRequest = IF q <= 0 THEN ProbeTimeout ELSE q
  BY DEF PerRequest
<1> HIDE DEF q, r
<1>4. PerRequest = q /\ Rounds * q \in Nat
  BY <1>1, <1>3, RoundsArePositive
<1> QED BY <1>2, <1>4

LEMMA BudgetIsNatural == Budget \in Nat
<1> DEFINE rounds == CeilDiv(Cardinality(Table), AllConcurrency)
<1>1. rounds \in Nat
  BY EnoughRounds, FS_CardinalityType, TableAssumption, OptionsAssumption
<1>2. Budget = IF all THEN rounds * PerRequest ELSE ProbeTimeout
  BY DEF Budget
<1> HIDE DEF rounds
<1> QED BY <1>1, <1>2, PerRequestIsPositive, OptionsAssumption

(* No deadline is later than that of the run.                               *)
LEMMA DeadlineWithinBudget ==
  ASSUME IInv, NEW d \in Table
  PROVE  Deadline(d) \in Int /\ Deadline(d) <= Budget
<1>1. begun[d] \in Nat
  BY DEF IInv, TypeOK
<1> QED BY <1>1, PerRequestIsPositive, BudgetIsNatural DEF Deadline

-----------------------------------------------------------------------------
LEMMA InitEstablishes == Init => IInv
<1> SUFFICES ASSUME Init PROVE IInv
  OBVIOUS
<1>1. Cardinality(Flight(state)) = 0
  BY NoneInFlight DEF Init
<1>2. TypeOK
  <2>1. /\ state \in [Table -> States] /\ begun \in [Table -> Nat]
        /\ why \in [Table -> Reasons]
    BY DEF Init, States, Reasons
  <2>2. now \in Nat /\ sem \in 0 .. Concurrency
    BY ConcurrencyIsPositive DEF Init
  <2> QED BY <2>1, <2>2 DEF Init, TypeOK
<1>3. Slots /\ OnTime
  BY <1>1, BudgetIsNatural DEF Init, Slots, OnTime
<1> QED BY <1>2, <1>3 DEF IInv

LEMMA BeginKeeps == ASSUME IInv, Begin PROVE IInv'
<1>1. dests' \subseteq Table
  BY DEF Begin, Samples
<1>2. \A d \in Table : state'[d] # "flight"
  BY DEF Begin
<1>3. \A d \in Table : state[d] = "out"
  BY DEF Begin, IInv, Slots
<1>4. sem = 0
  BY <1>3, NoneInFlight DEF IInv, Slots
<1>5. Cardinality(Flight(state')) = 0
  BY <1>2, NoneInFlight
<1>6. TypeOK'
  <2>1. ok' \subseteq dests'
    BY DEF Begin, IInv, Slots
  <2>2. state' \in [Table -> States]
    BY DEF Begin, States
  <2>3. Concurrency' = Concurrency
    BY DEF Begin, Concurrency
  <2> QED BY <1>1, <2>1, <2>2, <2>3 DEF Begin, IInv, TypeOK
<1>7. Slots'
  BY <1>1, <1>4, <1>5 DEF Begin, Slots
<1> QED BY <1>6, <1>7 DEF IInv, OnTime, Begin, Budget

LEMMA SendKeeps == ASSUME IInv, NEW d \in Table, Send(d) PROVE IInv'
<1>1. /\ state' = [state EXCEPT ![d] = "flight"] /\ sem' = sem + 1
      /\ state[d] = "waiting" /\ phase = "running" /\ state \in [Table -> States]
      /\ UNCHANGED <<now, ctxDone, provider, all, phase, dests, ok, why>>
  BY DEF Send, IInv, TypeOK
<1>2. TypeOK'
  <2>1. sem' \in 0 .. Concurrency /\ Concurrency' = Concurrency
    BY <1>1, ConcurrencyIsPositive DEF Send, SlotFree, IInv, TypeOK, Concurrency
  <2>2. begun' \in [Table -> Nat]
    BY DEF Send, IInv, TypeOK
  <2> QED BY <1>1, <2>1, <2>2 DEF IInv, TypeOK, States
<1>3. sem' = Cardinality(Flight(state'))
  BY <1>1, OneMoreInFlight DEF IInv, Slots
<1>4. Slots'
  BY <1>1, <1>3 DEF IInv, Slots
<1> QED BY <1>1, <1>2, <1>4 DEF IInv, OnTime, Budget

(* Whatever a request came to, its slot is given back.                      *)
LEMMA EndKeeps ==
  ASSUME IInv, NEW d \in Table, NEW reason \in Reasons, End(d, reason),
         ok' = ok \/ ok' = ok \cup {d}
  PROVE  IInv'
<1>1. /\ state' = [state EXCEPT ![d] = "ended"] /\ sem' = sem - 1
      /\ state[d] = "flight" /\ state \in [Table -> States] /\ d \in dests
      /\ UNCHANGED <<now, ctxDone, provider, all, phase, dests, begun>>
  BY DEF End, SlotsAfter, IInv, TypeOK, Slots
<1>2. sem' = Cardinality(Flight(state'))
  BY <1>1, OneLessInFlight DEF IInv, Slots
<1>3. TypeOK'
  <2>1. sem' \in 0 .. Concurrency /\ Concurrency' = Concurrency
    BY <1>1, <1>2, ConcurrencyIsPositive, FlightIsFinite DEF IInv, TypeOK, Concurrency
  <2>2. why' \in [Table -> Reasons]
    BY DEF End, IInv, TypeOK
  <2> QED BY <1>1, <2>1, <2>2 DEF IInv, TypeOK, States
<1>4. phase \notin {"idle", "returned"}
  BY <1>1 DEF IInv, Slots
<1>5. Slots'
  BY <1>1, <1>2, <1>4 DEF IInv, Slots
<1> QED BY <1>1, <1>3, <1>5 DEF IInv, OnTime, Budget

LEMMA FetchKeeps == ASSUME IInv, NEW d \in Table, Fetch(d) PROVE IInv'
<1>1. CASE Answer(d)
  BY <1>1, EndKeeps DEF Answer, Reasons
<1>2. CASE Break(d)
  BY <1>2, EndKeeps DEF Break, Reasons
<1>3. CASE Expire(d)
  BY <1>3, EndKeeps DEF Expire, Reasons
<1>4. CASE Cancel(d)
  BY <1>4, EndKeeps DEF Cancel, Reasons
<1> QED BY <1>1, <1>2, <1>3, <1>4, SendKeeps DEF Fetch

(* Time passes only while a request is in flight that has time left: one    *)
(* that waits does so for a slot, and a slot is held by one in flight.      *)
LEMMA SomeoneInFlight ==
  ASSUME IInv, Tick
  PROVE  \E d \in dests : state[d] = "flight" /\ ~(Deadline(d) <= now)
<1>1. PICK d \in dests : state[d] # "ended"
  BY DEF Tick, Due
<1>2. d \in Table /\ state[d] \in {"waiting", "flight"}
  BY <1>1 DEF IInv, TypeOK, Slots, States
<1>3. \A e \in dests : state[e] = "flight" => ~(Deadline(e) <= now)
  BY DEF Tick, Due
<1>4. CASE state[d] = "flight"
  BY <1>3, <1>4
<1>5. CASE state[d] = "waiting"
  <2>1. ~SlotFree
    BY <1>5 DEF Tick, Due
  <2>2. Cardinality(Flight(state)) # 0
    BY <2>1, ConcurrencyIsPositive DEF SlotFree, IInv, TypeOK, Slots
  <2>3. PICK e \in Table : state[e] = "flight"
    BY <2>2, NoneInFlight
  <2>4. e \in dests
    BY <2>3 DEF IInv, Slots
  <2> QED BY <1>3, <2>3, <2>4
<1> QED BY <1>2, <1>4, <1>5

LEMMA TickKeeps == ASSUME IInv, Tick PROVE IInv'
<1>1. /\ now' = now + 1 /\ now \in Nat /\ phase = "running"
      /\ UNCHANGED <<ctxDone, provider, all, phase, dests, state, begun, sem, ok, why>>
  BY DEF Tick, IInv, TypeOK
<1>2. TypeOK'
  BY <1>1 DEF IInv, TypeOK, Concurrency
<1>3. Slots'
  BY <1>1 DEF IInv, Slots
<1>4. OnTime'
  <2>1. PICK d \in dests : ~(Deadline(d) <= now)
    BY SomeoneInFlight
  <2>2. Deadline(d) \in Int /\ Deadline(d) <= Budget
    BY DeadlineWithinBudget DEF IInv, TypeOK
  <2>3. Budget' = Budget
    BY <1>1 DEF Budget
  <2> QED BY <1>1, <2>1, <2>2, <2>3, BudgetIsNatural DEF OnTime
<1> QED BY <1>2, <1>3, <1>4 DEF IInv

LEMMA NextKeeps == IInv /\ [Next]_vars => IInv'
<1> SUFFICES ASSUME IInv, [Next]_vars PROVE IInv'
  OBVIOUS
<1>1. CASE Refuse \/ Return \/ Signal
  <2>1. /\ UNCHANGED <<now, provider, all, dests, state, begun, sem, ok, why>>
        /\ phase' \in {phase, "returned", "refused"} /\ ctxDone' \in BOOLEAN
        /\ phase' = "returned" => \A d \in dests : state[d] = "ended"
    BY <1>1 DEF Refuse, Return, Signal, IInv, TypeOK
  <2>2. phase' = "idle" => phase = "idle"
    BY <2>1
  <2>3. TypeOK'
    BY <2>1 DEF IInv, TypeOK, Concurrency
  <2>4. Slots' /\ OnTime'
    BY <2>1, <2>2 DEF IInv, Slots, OnTime, Budget
  <2> QED BY <2>3, <2>4 DEF IInv
<1>2. CASE Done \/ UNCHANGED vars
  <2>1. UNCHANGED vars /\ Budget' = Budget /\ Concurrency' = Concurrency
    BY <1>2 DEF Done, vars, Budget, Concurrency
  <2> QED BY <2>1 DEF vars, IInv, TypeOK, Slots, OnTime, Flight
<1>3. ASSUME NEW d \in Table, Fetch(d) PROVE IInv'
  BY <1>3, FetchKeeps
<1> QED BY <1>1, <1>2, <1>3, BeginKeeps, TickKeeps DEF Next

-----------------------------------------------------------------------------
(* Why nobody is cut by the budget.  Slots never stand idle while anyone    *)
(* waits, and a request holds its slot for PerRequest at most: by the time  *)
(* k rounds have passed, the requests of k + 1 rounds have been sent, or    *)
(* all of them, in whatever order the slots came free.                      *)

(* Those whose request had been sent by time i, or has ended since.         *)
Served(i) ==
  {d \in dests : state[d] = "ended" \/ (state[d] = "flight" /\ begun[d] <= i)}

Packed ==
  \A k, i \in Nat :
    i < now /\ k * PerRequest <= i =>
      Served(i) = dests \/ Concurrency * (k + 1) <= Cardinality(Served(i))

(* A run starts with the clock at 0, and no request is of the future.       *)
InPast ==
  /\ phase = "idle" => now = 0
  /\ \A d \in Table : state[d] = "flight" => begun[d] <= now

Drawn == IF phase \in {"idle", "refused"} THEN dests = {}
         ELSE dests \in IF all THEN {Table} ELSE Samples

(* A -probe-timeout with less than one unit for each round of a sample is   *)
(* handed to every request whole, which leaves none for the later ones.     *)
Spared == all \/ Rounds <= ProbeTimeout => NobodyCutByBudget

PackedInv == InPast /\ Drawn /\ Packed /\ Spared

LEMMA ServedIsFinite ==
  ASSUME IInv, NEW i
  PROVE  /\ IsFiniteSet(dests) /\ IsFiniteSet(Served(i))
         /\ Cardinality(dests) \in Nat /\ Cardinality(Served(i)) \in Nat
         /\ Served(i) \in SUBSET dests
<1>1. Served(i) \in SUBSET dests /\ dests \in SUBSET Table
  BY DEF Served, IInv, TypeOK
<1>2. IsFiniteSet(dests)
  BY <1>1, FS_Subset, TableAssumption
<1>3. IsFiniteSet(Served(i))
  BY <1>1, <1>2, FS_Subset
<1> QED BY <1>1, <1>2, <1>3, FS_CardinalityType

(* The budget has room for as many rounds as the destinations need.         *)
LEMMA BudgetHasRoom ==
  ASSUME IInv, Drawn, phase \notin {"idle", "refused"}, all \/ Rounds <= ProbeTimeout
  PROVE  \E rounds \in Nat : /\ Cardinality(dests) <= Concurrency * rounds
                             /\ rounds * PerRequest <= Budget
<1>1. CASE all
  <2> DEFINE n == Cardinality(Table)
             rounds == CeilDiv(n, AllConcurrency)
  <2>1. n \in Nat /\ dests = Table /\ Concurrency = AllConcurrency
    BY <1>1, FS_CardinalityType, TableAssumption DEF Drawn, Concurrency
  <2>2. rounds \in Nat /\ n <= AllConcurrency * rounds
    BY <2>1, EnoughRounds, OptionsAssumption
  <2>3. Budget = rounds * PerRequest
    BY <1>1 DEF Budget
  <2> HIDE DEF rounds
  <2>4. rounds * PerRequest <= Budget
    BY <2>2, <2>3, PerRequestIsPositive
  <2> QED BY <2>1, <2>2, <2>4
<1>2. CASE ~all
  <2>1. Cardinality(dests) = SamplePerRun /\ Concurrency = DefaultConcurrency
    BY <1>2, SampleHasItsSize DEF Drawn, Concurrency
  <2>2. SamplePerRun <= DefaultConcurrency * Rounds
    <3>1. CASE SamplePerRun = 0
      BY <3>1, OptionsAssumption DEF Rounds
    <3>2. CASE SamplePerRun # 0
      <4>1. Rounds = CeilDiv(SamplePerRun, DefaultConcurrency)
        BY <3>2 DEF Rounds
      <4> QED BY <4>1, EnoughRounds, SampleIsNatural, OptionsAssumption
    <3> QED BY <3>1, <3>2
  <2>3. Rounds * PerRequest <= Budget
    BY <1>2, SharesFit DEF Budget
  <2> QED BY <2>1, <2>2, <2>3, RoundsArePositive
<1> QED BY <1>1, <1>2

(* A request that reaches its deadline has had all of its own time: one     *)
(* sent too late for that would have been sent in an earlier round.         *)
LEMMA NotCut ==
  ASSUME IInv, PackedInv, all \/ Rounds <= ProbeTimeout,
         NEW d \in Table, state[d] = "flight", Deadline(d) <= now
  PROVE  begun[d] + PerRequest <= now
<1> SUFFICES ASSUME now < begun[d] + PerRequest PROVE FALSE
  BY PerRequestIsPositive DEF IInv, TypeOK
<1>0. /\ now \in Nat /\ begun[d] \in Nat /\ begun[d] <= now
      /\ PerRequest \in Nat \ {0} /\ Concurrency \in Nat \ {0}
  BY PerRequestIsPositive, ConcurrencyIsPositive DEF IInv, TypeOK, PackedInv, InPast
<1>1. d \in dests /\ phase \notin {"idle", "refused"}
  BY DEF IInv, Slots, PackedInv, Drawn
<1>2. PICK rounds \in Nat : /\ Cardinality(dests) <= Concurrency * rounds
                            /\ rounds * PerRequest <= Budget
  BY <1>1, BudgetHasRoom DEF PackedInv
<1>3. Budget <= now
  BY <1>0 DEF Deadline
<1>4. rounds # 0
  <2>1. Cardinality(dests) # 0
    BY <1>1, ServedIsFinite, FS_EmptySet
  <2>2. Concurrency * 0 = 0
    BY <1>0
  <2> QED BY <1>2, <2>1, <2>2, ServedIsFinite
<1> DEFINE i == begun[d] - 1
           k == rounds - 1
<1>5. k \in Nat /\ k + 1 = rounds
  BY <1>4
<1>6. i \in Nat /\ i < now /\ k * PerRequest <= i
  <2>1. rounds * PerRequest <= now
    <3>1. rounds * PerRequest \in Nat /\ Budget \in Nat
      BY <1>0, BudgetIsNatural
    <3> QED BY <1>0, <1>2, <1>3, <3>1
  <2>2. k * PerRequest = rounds * PerRequest - PerRequest /\ k * PerRequest \in Nat
    BY <1>0, <1>5
  <2> HIDE DEF k
  <2> QED BY <1>0, <2>1, <2>2
<1>7. Served(i) = dests \/ Concurrency * rounds <= Cardinality(Served(i))
  BY <1>5, <1>6 DEF PackedInv, Packed
<1>8. Served(i) = dests
  <2> SUFFICES ASSUME Concurrency * rounds <= Cardinality(Served(i))
               PROVE  Served(i) = dests
    BY <1>7
  <2>1. Concurrency * rounds \in Nat
    BY <1>0
  <2>2. Cardinality(dests) <= Cardinality(Served(i))
    BY <1>2, <2>1, ServedIsFinite
  <2>3. Cardinality(Served(i)) <= Cardinality(dests)
    BY ServedIsFinite, FS_Subset
  <2>4. Cardinality(dests) = Cardinality(Served(i))
    BY <2>2, <2>3, ServedIsFinite
  <2> QED BY <2>4, ServedIsFinite, FS_Subset
<1>9. d \notin Served(i)
  BY <1>0 DEF Served
<1> QED BY <1>1, <1>8, <1>9

(* Nothing that happens between two ticks takes anyone out of Served.       *)
LEMMA PackedStays ==
  ASSUME IInv, IInv', Packed, UNCHANGED <<now, all, dests>>,
         \A i \in Nat : i < now => Served(i) \subseteq Served(i)'
  PROVE  Packed'
<1> SUFFICES ASSUME NEW k \in Nat, NEW i \in Nat, i < now, k * PerRequest <= i
             PROVE  \/ Served(i)' = dests
                    \/ Concurrency * (k + 1) <= Cardinality(Served(i)')
  BY DEF Packed, Concurrency
<1>1. Served(i) \subseteq Served(i)' /\ Served(i)' \subseteq dests
  BY DEF Served
<1>2. IsFiniteSet(Served(i)')
  BY <1>1, ServedIsFinite, FS_Subset
<1>3. /\ Cardinality(Served(i)') \in Nat
      /\ Cardinality(Served(i)) <= Cardinality(Served(i)')
  BY <1>1, <1>2, FS_Subset, FS_CardinalityType
<1>4. CASE Served(i) = dests
  BY <1>1, <1>4
<1>5. CASE Concurrency * (k + 1) <= Cardinality(Served(i))
  <2>1. Concurrency * (k + 1) \in Nat
    BY ConcurrencyIsPositive
  <2> QED BY <1>3, <1>5, <2>1, ServedIsFinite
<1> QED BY <1>4, <1>5 DEF Packed

(* When time passes, the requests of the round that ends have all ended,    *)
(* and those of the next one have been sent.                                *)
LEMMA PackedTick ==
  ASSUME IInv, IInv', PackedInv, Tick
  PROVE  Packed'
<1>0. /\ now \in Nat /\ now' = now + 1
      /\ PerRequest \in Nat \ {0} /\ Concurrency \in Nat \ {0}
      /\ UNCHANGED <<all, dests, state, begun, sem>>
  BY PerRequestIsPositive, ConcurrencyIsPositive DEF Tick, IInv, TypeOK
<1> SUFFICES ASSUME NEW k \in Nat, NEW i \in Nat, i < now + 1, k * PerRequest <= i
             PROVE  Served(i) = dests \/ Concurrency * (k + 1) <= Cardinality(Served(i))
  BY <1>0 DEF Packed, Concurrency, Served
<1>1. CASE i < now
  BY <1>1 DEF PackedInv, Packed
<1>2. CASE i = now
  <2> DEFINE Over == {d \in dests : state[d] = "ended"}
  <2>1. Served(i) = Over \cup Flight(state) /\ Over \cap Flight(state) = {}
    <3>1. \A d \in Table : state[d] = "flight" => d \in dests /\ begun[d] <= i
      BY <1>2 DEF PackedInv, InPast, IInv, Slots
    <3>2. dests \subseteq Table
      BY DEF IInv, TypeOK
    <3> QED BY <3>1, <3>2 DEF Served, Flight
  <2>2. CASE \E d \in dests : state[d] = "waiting"
    <3>1. Cardinality(Flight(state)) >= Concurrency
      BY <1>0, <2>2 DEF Tick, Due, SlotFree, IInv, TypeOK, Slots
    <3>2. IsFiniteSet(Over) /\ Cardinality(Over) \in Nat
          /\ IsFiniteSet(Flight(state)) /\ Cardinality(Flight(state)) \in Nat
      <4>1. Over \in SUBSET dests
        OBVIOUS
      <4> HIDE DEF Over
      <4> QED BY <4>1, ServedIsFinite, FS_Subset, FS_CardinalityType, FlightIsFinite
    <3>3. Cardinality(Served(i)) = Cardinality(Over) + Cardinality(Flight(state))
      <4>1. Cardinality(Over \cap Flight(state)) = 0
        BY <2>1, FS_EmptySet
      <4> HIDE DEF Over
      <4>2. Cardinality(Over \cup Flight(state))
              = Cardinality(Over) + Cardinality(Flight(state))
                  - Cardinality(Over \cap Flight(state))
        BY <3>2, FS_Union
      <4> QED BY <2>1, <3>2, <4>1, <4>2
    <3>4. CASE k = 0
      <4>1. Concurrency * (k + 1) = Concurrency
        BY <1>0, <3>4
      <4> HIDE DEF Over
      <4> QED BY <1>0, <3>1, <3>2, <3>3, <4>1
    <3>5. CASE k # 0
      <4> DEFINE j == now - PerRequest
                 h == k - 1
      <4>1. h \in Nat /\ h + 1 = k
        BY <3>5
      <4>2. j \in Nat /\ j < now /\ h * PerRequest <= j
        <5>1. h * PerRequest = k * PerRequest - PerRequest /\ h * PerRequest \in Nat
          BY <1>0, <4>1
        <5> HIDE DEF h
        <5> QED BY <1>0, <1>2, <5>1
      <4>3. Served(j) = dests \/ Concurrency * k <= Cardinality(Served(j))
        BY <4>1, <4>2 DEF PackedInv, Packed
      <4>4. Served(j) \subseteq Over
        <5> SUFFICES ASSUME NEW d \in dests, state[d] = "flight", begun[d] <= j
                     PROVE  FALSE
          BY DEF Served
        <5>1. d \in Table /\ begun[d] \in Nat
          BY DEF IInv, TypeOK
        <5>2. begun[d] + PerRequest <= now
          BY <1>0, <5>1
        <5>3. Deadline(d) <= now
          BY <1>0, <5>1, <5>2, BudgetIsNatural DEF Deadline
        <5> QED BY <5>3 DEF Tick, Due
      <4>5. Served(j) # dests
        BY <2>2, <4>4
      <4>6. Concurrency * k <= Cardinality(Over)
        <5>1. Cardinality(Served(j)) <= Cardinality(Over) /\ Cardinality(Served(j)) \in Nat
          <6> HIDE DEF Over, j
          <6> QED BY <3>2, <4>4, FS_Subset, ServedIsFinite
        <5>2. Concurrency * k \in Nat
          BY <1>0
        <5> HIDE DEF Over, j
        <5> QED BY <3>2, <4>3, <4>5, <5>1, <5>2
      <4>7. Concurrency * (k + 1) = Concurrency * k + Concurrency
            /\ Concurrency * k \in Nat
        BY <1>0
      <4> HIDE DEF Over
      <4> QED BY <1>0, <3>1, <3>2, <3>3, <4>6, <4>7
    <3> QED BY <3>4, <3>5
  <2>3. CASE \A d \in dests : state[d] # "waiting"
    <3>1. \A d \in dests : state[d] \in {"flight", "ended"} /\ d \in Table
      BY <2>3 DEF IInv, TypeOK, Slots, States
    <3>2. Served(i) = dests
      BY <1>2, <3>1 DEF Served, PackedInv, InPast
    <3> QED BY <3>2
  <2> QED BY <2>2, <2>3
<1> QED BY <1>0, <1>1, <1>2

LEMMA PackedInit == Init => PackedInv
<1> SUFFICES ASSUME Init PROVE PackedInv
  OBVIOUS
<1>1. InPast /\ Drawn /\ Spared
  BY DEF Init, InPast, Drawn, Spared, NobodyCutByBudget
<1>2. Packed
  BY DEF Init, Packed
<1> QED BY <1>1, <1>2 DEF PackedInv

LEMMA PackedBegin == ASSUME IInv, IInv', PackedInv, Begin PROVE PackedInv'
<1>1. now = 0 /\ now' = 0 /\ phase' = "running" /\ UNCHANGED <<all, why>>
  BY DEF Begin, PackedInv, InPast
<1>2. InPast'
  BY <1>1 DEF Begin, InPast
<1>3. Drawn'
  <2>1. dests' \in IF all THEN {Table} ELSE Samples
    BY DEF Begin
  <2> QED BY <1>1, <2>1 DEF Drawn
<1>4. Packed'
  BY <1>1 DEF Packed
<1>5. Spared'
  BY <1>1 DEF PackedInv, Spared, NobodyCutByBudget
<1> QED BY <1>2, <1>3, <1>4, <1>5 DEF PackedInv

LEMMA PackedSend ==
  ASSUME IInv, IInv', PackedInv, NEW d \in Table, Send(d)
  PROVE  PackedInv'
<1>1. /\ state' = [state EXCEPT ![d] = "flight"] /\ begun' = [begun EXCEPT ![d] = now]
      /\ state[d] = "waiting" /\ phase = "running" /\ now \in Nat
      /\ state \in [Table -> States] /\ begun \in [Table -> Nat] /\ dests \subseteq Table
      /\ UNCHANGED <<now, all, phase, dests, why>>
  BY DEF Send, IInv, TypeOK
<1>2. InPast'
  BY <1>1 DEF PackedInv, InPast
<1>3. ASSUME NEW i \in Nat PROVE Served(i) \subseteq Served(i)'
  BY <1>1 DEF Served
<1>4. Packed'
  BY <1>1, <1>3, PackedStays DEF PackedInv
<1>5. Drawn' /\ Spared'
  BY <1>1 DEF PackedInv, Drawn, Spared, NobodyCutByBudget
<1> QED BY <1>2, <1>4, <1>5 DEF PackedInv

LEMMA PackedEnd ==
  ASSUME IInv, IInv', PackedInv, NEW d \in Table, NEW reason, End(d, reason),
         all \/ Rounds <= ProbeTimeout => reason # "budget"
  PROVE  PackedInv'
<1>1. /\ state' = [state EXCEPT ![d] = "ended"] /\ why' = [why EXCEPT ![d] = reason]
      /\ state[d] = "flight"
      /\ state \in [Table -> States] /\ why \in [Table -> Reasons] /\ dests \subseteq Table
      /\ UNCHANGED <<now, all, phase, dests, begun>>
  BY DEF End, IInv, TypeOK
<1>2. InPast'
  BY <1>1 DEF PackedInv, InPast
<1>3. ASSUME NEW i \in Nat PROVE Served(i) \subseteq Served(i)'
  BY <1>1 DEF Served
<1>4. Packed'
  BY <1>1, <1>3, PackedStays DEF PackedInv
<1>5. Drawn' /\ Spared'
  BY <1>1 DEF PackedInv, Drawn, Spared, NobodyCutByBudget
<1> QED BY <1>2, <1>4, <1>5 DEF PackedInv

LEMMA PackedFetch ==
  ASSUME IInv, IInv', PackedInv, NEW d \in Table, Fetch(d)
  PROVE  PackedInv'
<1>1. CASE Send(d)
  BY <1>1, PackedSend
<1>2. CASE Answer(d) \/ Break(d) \/ Cancel(d)
  <2>1. PICK reason \in {"answered", "broken", "cancelled"} : End(d, reason)
    BY <1>2 DEF Answer, Break, Cancel
  <2> QED BY <2>1, PackedEnd
<1>3. CASE Expire(d)
  <2> DEFINE reason == IF begun[d] + PerRequest <= now THEN "timeout" ELSE "budget"
  <2>1. End(d, reason) /\ Deadline(d) <= now /\ state[d] = "flight"
    BY <1>3 DEF Expire, End
  <2>2. all \/ Rounds <= ProbeTimeout => reason # "budget"
    BY <2>1, NotCut
  <2> HIDE DEF reason
  <2> QED BY <2>1, <2>2, PackedEnd
<1> QED BY <1>1, <1>2, <1>3 DEF Fetch

LEMMA PackedNext == IInv /\ IInv' /\ PackedInv /\ [Next]_vars => PackedInv'
<1> SUFFICES ASSUME IInv, IInv', PackedInv, [Next]_vars PROVE PackedInv'
  OBVIOUS
<1>1. CASE Tick
  <2>1. now' = now + 1 /\ now \in Nat /\ phase = "running"
        /\ UNCHANGED <<all, phase, dests, state, begun, why>>
    BY <1>1 DEF Tick, IInv, TypeOK
  <2>2. InPast'
    BY <2>1 DEF PackedInv, InPast, IInv, TypeOK
  <2>3. Drawn' /\ Spared'
    BY <2>1 DEF PackedInv, Drawn, Spared, NobodyCutByBudget
  <2> QED BY <1>1, <2>2, <2>3, PackedTick DEF PackedInv
<1>2. CASE Refuse \/ Return \/ Signal \/ Done \/ UNCHANGED vars
  <2>1. /\ UNCHANGED <<now, all, dests, state, begun, why>>
        /\ phase' = "idle" => phase = "idle"
        /\ phase' \in {"idle", "refused"} <=> phase \in {"idle", "refused"}
    BY <1>2 DEF Refuse, Return, Signal, Done, vars
  <2>2. InPast' /\ Drawn' /\ Spared'
    BY <2>1 DEF PackedInv, InPast, Drawn, Spared, NobodyCutByBudget
  <2>3. ASSUME NEW i \in Nat PROVE Served(i) \subseteq Served(i)'
    BY <2>1 DEF Served
  <2>4. Packed'
    BY <2>1, <2>3, PackedStays DEF PackedInv
  <2> QED BY <2>2, <2>4 DEF PackedInv
<1>3. ASSUME NEW d \in Table, Fetch(d) PROVE PackedInv'
  BY <1>3, PackedFetch
<1> QED BY <1>1, <1>2, <1>3, PackedBegin DEF Next

LEMMA Invariant == Spec => []IInv
BY InitEstablishes, NextKeeps, PTL DEF Spec

-----------------------------------------------------------------------------
(* Why a run comes back: everything that happens in it brings its end       *)
(* nearer, the passing of time included.                                    *)

GoesAhead(stage) ==
  CASE stage = "waiting" -> 2 [] stage = "flight" -> 1 [] OTHER -> 0
FetchesAheadAt(st) == Amount([d \in Table |-> GoesAhead(st[d])], Table, 2)
FetchesAhead == FetchesAheadAt(state)

TimeAhead   == Budget - now
SignalAhead == IF ctxDone THEN 0 ELSE 1
ReturnAhead == IF phase = "running" THEN 1 ELSE 0

StepsLeft == (FetchesAhead + TimeAhead) + (SignalAhead + ReturnAhead)

(* A request is sent once and ends once, the clock stops at the budget, and *)
(* the context ends once: no answer, time-out or signal adds to what a run  *)
(* has left to do.                                                          *)
EveryStepCounts == [][phase = "running" => StepsLeft' < StepsLeft]_vars

(* As long as a run has not returned, a goroutine or the return is not      *)
(* blocked, or time may pass.                                               *)
SomethingMayHappen == phase = "running" => Due \/ now < Horizon

LEMMA FetchesAheadType ==
  ASSUME NEW st \in [Table -> States]
  PROVE  /\ [d \in Table |-> GoesAhead(st[d])] \in [Table -> 0 .. 2]
         /\ FetchesAheadAt(st) \in Nat
<1>1. ASSUME NEW d \in Table PROVE GoesAhead(st[d]) \in 0 .. 2
  BY DEF GoesAhead
<1>2. FetchesAheadAt(st) \in Nat
  BY CellsAreFinite, TableAssumption DEF FetchesAheadAt
<1> QED BY <1>1, <1>2

LEMMA FewerFetchesAhead ==
  ASSUME NEW st \in [Table -> States], NEW to \in [Table -> States], NEW d \in Table,
         GoesAhead(to[d]) < GoesAhead(st[d]), \A e \in Table \ {d} : to[e] = st[e]
  PROVE  FetchesAheadAt(to) < FetchesAheadAt(st)
<1> DEFINE f == [e \in Table |-> GoesAhead(st[e])]
           h == [e \in Table |-> GoesAhead(to[e])]
<1>1. /\ f \in [Table -> 0 .. 2] /\ h \in [Table -> 0 .. 2]
      /\ FetchesAheadAt(st) \in Nat /\ FetchesAheadAt(to) \in Nat
  BY FetchesAheadType
<1>2. FetchesAheadAt(st) = Amount(f, Table, 2) /\ FetchesAheadAt(to) = Amount(h, Table, 2)
  BY DEF FetchesAheadAt
<1>3. h[d] < f[d] /\ \A e \in Table : e # d => h[e] = f[e]
  OBVIOUS
<1>0. IsFiniteSet(Table)
  BY TableAssumption
<1> HIDE DEF f, h
<1>4. Amount(h, Table, 2) = Amount(f, Table, 2) + h[d] - f[d]
  BY <1>0, <1>1, <1>3, AmountChanges
<1>5. h[d] \in Nat /\ f[d] \in Nat
  BY <1>1
<1> QED BY <1>1, <1>2, <1>3, <1>4, <1>5

LEMMA PartsAreNatural ==
  ASSUME IInv, IInv'
  PROVE  /\ FetchesAhead \in Nat /\ TimeAhead \in Nat
         /\ SignalAhead \in Nat /\ ReturnAhead \in Nat
         /\ FetchesAhead' \in Nat
         /\ SignalAhead' \in Nat /\ ReturnAhead' \in Nat
<1>1. FetchesAhead \in Nat /\ FetchesAhead' \in Nat
  BY FetchesAheadType DEF IInv, TypeOK, FetchesAhead
<1>2. TimeAhead \in Nat
  BY BudgetIsNatural DEF IInv, TypeOK, OnTime, TimeAhead
<1> QED BY <1>1, <1>2 DEF SignalAhead, ReturnAhead

(* The four parts: what one step makes less, no other part makes up for.    *)
LEMMA PartsAddUp ==
  ASSUME NEW a \in Nat, NEW b \in Nat, NEW c \in Nat, NEW d \in Nat,
         NEW p \in Nat, NEW q \in Nat, NEW r \in Nat, NEW s \in Nat,
         p <= a, q <= b, r <= c, s <= d,
         p < a \/ q < b \/ r < c \/ s < d
  PROVE  (p + q) + (r + s) < (a + b) + (c + d)
OBVIOUS

LEMMA FetchGoesForward ==
  ASSUME IInv, IInv', NEW d \in Table, Fetch(d)
  PROVE  /\ FetchesAhead' < FetchesAhead
         /\ UNCHANGED <<now, ctxDone, all, phase>>
<1>1. \/ state[d] = "waiting" /\ state' = [state EXCEPT ![d] = "flight"]
      \/ state[d] = "flight" /\ state' = [state EXCEPT ![d] = "ended"]
  BY DEF Fetch, Send, Answer, Break, Expire, Cancel, End
<1>2. state \in [Table -> States] /\ state' \in [Table -> States]
  BY DEF IInv, TypeOK
<1>3. GoesAhead(state'[d]) < GoesAhead(state[d])
  BY <1>1, <1>2 DEF GoesAhead
<1>4. \A e \in Table \ {d} : state'[e] = state[e]
  BY <1>1, <1>2
<1>5. FetchesAhead' < FetchesAhead
  BY <1>2, <1>3, <1>4, FewerFetchesAhead DEF FetchesAhead
<1>6. UNCHANGED <<now, ctxDone, all, phase>>
  BY DEF Fetch, Send, Answer, Break, Expire, Cancel, End
<1> QED BY <1>5, <1>6

LEMMA StepGoesForward ==
  ASSUME IInv, IInv', Next, phase = "running"
  PROVE  StepsLeft' < StepsLeft
<1>0. /\ FetchesAhead \in Nat /\ TimeAhead \in Nat /\ SignalAhead \in Nat
      /\ ReturnAhead \in Nat /\ FetchesAhead' \in Nat
      /\ SignalAhead' \in Nat /\ ReturnAhead' \in Nat
  BY PartsAreNatural
<1>1. TimeAhead' \in Nat
  <2>1. Budget' = Budget
    BY DEF Next, Refuse, Begin, Return, Tick, Signal, Done, vars, Fetch, Send,
       Answer, Break, Expire, Cancel, End, Budget
  <2>2. now' \in Nat /\ now' <= Budget
    BY <2>1 DEF IInv, TypeOK, OnTime
  <2>3. TimeAhead' = Budget - now'
    BY <2>1 DEF TimeAhead
  <2>4. Budget - now' \in Nat
    <3>1. \A a, b \in Nat : b <= a => a - b \in Nat
      OBVIOUS
    <3> QED BY <2>2, <3>1, BudgetIsNatural
  <2> QED BY <2>3, <2>4
<1> SUFFICES /\ FetchesAhead' <= FetchesAhead /\ TimeAhead' <= TimeAhead
             /\ SignalAhead' <= SignalAhead /\ ReturnAhead' <= ReturnAhead
             /\ \/ FetchesAhead' < FetchesAhead \/ TimeAhead' < TimeAhead
                \/ SignalAhead' < SignalAhead \/ ReturnAhead' < ReturnAhead
  BY <1>0, <1>1, PartsAddUp DEF StepsLeft
<1>2. ASSUME UNCHANGED <<all, now>> PROVE TimeAhead' <= TimeAhead
  BY <1>0, <1>2 DEF TimeAhead, Budget
<1>3. ASSUME UNCHANGED state PROVE FetchesAhead' <= FetchesAhead
  BY <1>0, <1>3 DEF FetchesAhead
<1>4. ASSUME UNCHANGED ctxDone PROVE SignalAhead' <= SignalAhead
  BY <1>0, <1>4 DEF SignalAhead
<1>5. ASSUME UNCHANGED phase PROVE ReturnAhead' <= ReturnAhead
  BY <1>0, <1>5 DEF ReturnAhead
<1>6. ASSUME NEW d \in Table, Fetch(d)
      PROVE  /\ FetchesAhead' < FetchesAhead /\ TimeAhead' <= TimeAhead
             /\ SignalAhead' <= SignalAhead /\ ReturnAhead' <= ReturnAhead
  BY <1>2, <1>4, <1>5, <1>6, FetchGoesForward
<1>7. CASE Tick
  <2>1. now' = now + 1 /\ UNCHANGED <<all, state, ctxDone, phase>>
    BY <1>7 DEF Tick
  <2>2. TimeAhead' < TimeAhead
    <3>1. Budget' = Budget
      BY <2>1 DEF Budget
    <3>2. now \in Nat
      BY DEF IInv, TypeOK
    <3> QED BY <2>1, <3>1, <3>2, BudgetIsNatural DEF TimeAhead
  <2> QED BY <1>0, <1>1, <1>3, <1>4, <1>5, <2>1, <2>2
<1>8. CASE Signal
  <2>1. ~ctxDone /\ ctxDone' /\ UNCHANGED <<all, now, state, phase>>
    BY <1>8 DEF Signal
  <2>2. SignalAhead' < SignalAhead
    BY <2>1 DEF SignalAhead
  <2> QED BY <1>0, <1>2, <1>3, <1>5, <2>1, <2>2
<1>9. CASE Return
  <2>1. phase' = "returned" /\ UNCHANGED <<all, now, state, ctxDone>>
    BY <1>9 DEF Return
  <2>2. ReturnAhead' < ReturnAhead
    BY <2>1 DEF ReturnAhead
  <2> QED BY <1>0, <1>2, <1>3, <1>4, <2>1, <2>2
<1> QED BY <1>0, <1>6, <1>7, <1>8, <1>9 DEF Next, Refuse, Begin, Done

-----------------------------------------------------------------------------
(* Every variable of a run has its type; no more slots are taken than there *)
(* are, and what passed was asked for.                                      *)
THEOREM HealthTyped == Spec => []TypeOK
<1>1. IInv => TypeOK
  BY DEF IInv
<1> QED BY <1>1, Invariant, PTL

(* Whatever the provider does, a run is over when its budget is: a run over *)
(* the whole table too, with any number of destinations and of slots.       *)
THEOREM RunWithinBudget == Spec => [](now <= Budget)
<1>1. IInv => now <= Budget
  BY DEF IInv, OnTime
<1> QED BY <1>1, Invariant, PTL

(* A run over a sample of any size costs one -probe-timeout at most.        *)
THEOREM SampleWithinTimeout == Spec => []SampleCostsOneProbeTimeout
<1>1. IInv => SampleCostsOneProbeTimeout
  BY DEF IInv, OnTime, SampleCostsOneProbeTimeout, Budget
<1> QED BY <1>1, Invariant, PTL

(* No request of a run is cut off while it still had time of its own,       *)
(* whatever the number of destinations and of slots, however long each      *)
(* request takes, and whenever the context ends: always for a run over the  *)
(* whole table, and for a sample unless -probe-timeout has less than one    *)
(* unit of time (one nanosecond) for each of its rounds.                    *)
THEOREM NoneCutByBudget ==
  Spec => [](all \/ Rounds <= ProbeTimeout => NobodyCutByBudget)
<1>1. PackedInv => (all \/ Rounds <= ProbeTimeout => NobodyCutByBudget)
  BY DEF PackedInv, Spared
<1>2. Spec => []PackedInv
  BY PackedInit, PackedNext, Invariant, PTL DEF Spec
<1> QED BY <1>1, <1>2, PTL
(* Whatever the provider does and whenever the context ends, a run takes    *)
(* finitely many steps, ticks of the clock included.                        *)
THEOREM RunGoesForward == Spec => EveryStepCounts
<1>1. IInv /\ IInv' /\ [Next]_vars => [phase = "running" => StepsLeft' < StepsLeft]_vars
  BY StepGoesForward
<1> QED BY <1>1, Invariant, PTL DEF Spec, EveryStepCounts

(* There are at most two steps for each destination of the table, one for   *)
(* each unit of the budget, and two besides.                                *)
THEOREM RunIsBounded == Spec => [](StepsLeft \in 0 .. 2 * Cardinality(Table) + Budget + 2)
<1>1. ASSUME IInv PROVE StepsLeft \in 0 .. 2 * Cardinality(Table) + Budget + 2
  <2>1. /\ FetchesAhead \in Nat /\ Cardinality(Table) \in Nat
        /\ FetchesAhead <= 2 * Cardinality(Table)
    <3>1. Cardinality(Table) \in Nat
      BY FS_CardinalityType, TableAssumption
    <3>2. FetchesAhead \in Nat /\ FetchesAhead <= Cardinality(Table) * 2
      BY CellsAreFinite, TableAssumption DEF FetchesAhead, FetchesAheadAt
    <3> QED BY <3>1, <3>2
  <2>2. TimeAhead \in Nat /\ TimeAhead <= Budget /\ Budget \in Nat
    BY <1>1, BudgetIsNatural DEF IInv, TypeOK, OnTime, TimeAhead
  <2>3. SignalAhead \in 0 .. 1 /\ ReturnAhead \in 0 .. 1
    BY DEF SignalAhead, ReturnAhead
  <2> QED BY <2>1, <2>2, <2>3 DEF StepsLeft
<1> QED BY <1>1, Invariant, PTL

(* A run that has not returned is never stuck.  One that waits for a slot   *)
(* waits for a request that will give its slot back, at its deadline at the *)
(* latest, and the clock gets there: it is never past the budget.           *)
THEOREM RunIsNeverStuck == Spec => []SomethingMayHappen
<1>1. IInv => SomethingMayHappen
  BY BudgetIsNatural DEF IInv, TypeOK, OnTime, SomethingMayHappen, Horizon
<1> QED BY <1>1, Invariant, PTL
=============================================================================
