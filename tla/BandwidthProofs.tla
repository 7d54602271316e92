--------------------------- MODULE BandwidthProofs ---------------------------
(***************************************************************************)
(* Theorems about Bandwidth, for every list of targets, every number of    *)
(* streams, every size and every behaviour of the link and of the server.  *)
(***************************************************************************)
EXTENDS Bandwidth, SequenceTheorems, SumLemmas

(* What is known of one stream, without the bounds that TypeOK gives.       *)
Shape ==
  [pc : {"opening", "ready", "ended"}, size : Nat, buf : Nat, body : BOOLEAN,
   err : BOOLEAN, total : 0 .. StreamBytes, steady : Nat, steadyStart : Nat,
   end : Nat,
   why : {"none", "refused", "cut", "withdrawn", "cap", "eof", "time", "broken", "cancelled"}]

(* A body is open in a ready stream only; a stream fails by ending, and one *)
(* that ends otherwise was drained or withdrawn.                            *)
StreamOK(st) ==
  /\ st.body => st.pc = "ready"
  /\ st.err => st.pc = "ended"
  /\ st.pc = "ended" /\ ~st.err => st.why \in {"cap", "eof", "time", "withdrawn"}

Stands ==
  /\ parentDone \in BOOLEAN /\ phase \in {"begin", "reserve", "setup", "read", "submit", "done"}
  /\ phase # "done" => t \in Each
  /\ reserved \in [Each -> {0, MaxSampleBytes}] /\ pulled \in [Each -> Nat]
  /\ now \in Nat /\ start \in Nat /\ abort \in BOOLEAN
  /\ s \in [Streams -> Shape]

(* The units read so far by all the streams.                                *)
Units(st) == Amount([i \in Streams |-> st[i].total], Streams, StreamBytes)

Accounted ==
  /\ PaidFor
  /\ phase = "begin" => pulled[t] = 0
  /\ phase = "reserve" => pulled[t] = 0 /\ \A i \in Streams : s[i].total = 0
  /\ phase \in {"setup", "read"} =>
       reserved[t] = MaxSampleBytes /\ pulled[t] = Units(s)
  /\ \A j \in Each : phase # "done" /\ t < j => pulled[j] = 0

Orderly ==
  /\ \A i \in Streams : StreamOK(s[i])
  /\ phase \notin {"setup", "read"} => \A i \in Streams : s[i].pc # "ready"
  /\ abort => \E i \in Streams : s[i].err
  /\ \A i \in Streams : s[i].why = "withdrawn" => abort
  /\ figure # NoFigure =>
       /\ phase \in {"submit", "begin", "done"}
       /\ \A i \in Streams : s[i].pc = "ended" /\ ~s[i].err

IInv == Stands /\ Accounted /\ Orderly

-----------------------------------------------------------------------------
LEMMA EachIsInterval == Len(Targets) \in Nat /\ Each = 1 .. Len(Targets)
BY TargetsAssumption DEF Each

LEMMA NewShape == NewStream \in Shape /\ StreamOK(NewStream) /\ NewStream.total = 0
                  /\ NewStream.pc = "opening" /\ NewStream.why = "none"
BY SizesAssumption DEF NewStream, Shape, StreamOK

LEMMA MaxIsNat == Cardinality(Streams) \in Nat /\ MaxSampleBytes \in Nat
BY StreamsAssumption, SizesAssumption, FS_CardinalityType DEF MaxSampleBytes

(* All the units together are within what was reserved.                     *)
LEMMA UnitsFit ==
  ASSUME NEW st
  PROVE  Units(st) \in Nat /\ Units(st) <= MaxSampleBytes
BY CellsAreFinite, StreamsAssumption, SizesAssumption DEF Units, MaxSampleBytes

(* A read of n units by one stream adds n to them.                          *)
LEMMA UnitsGrow ==
  ASSUME NEW st \in [Streams -> Shape], NEW i \in Streams, NEW n \in Nat,
         NEW r \in Shape, r.total = st[i].total + n
  PROVE  Units([st EXCEPT ![i] = r]) = Units(st) + n
<1> DEFINE f == [j \in Streams |-> st[j].total]
           h == [j \in Streams |-> [st EXCEPT ![i] = r][j].total]
<1>1. f \in [Streams -> 0 .. StreamBytes] /\ h \in [Streams -> 0 .. StreamBytes]
  BY DEF Shape
<1>2. h[i] = f[i] + n /\ \A j \in Streams : j # i => h[j] = f[j]
  OBVIOUS
<1> HIDE DEF f, h
<1>3. Amount(h, Streams, StreamBytes) = Amount(f, Streams, StreamBytes) + n
  <2>1. IsFiniteSet(Streams) /\ StreamBytes \in Nat
    BY StreamsAssumption, SizesAssumption
  <2> QED BY <1>1, <1>2, <2>1, AmountGrows, Zenon
<1> QED BY <1>3 DEF Units, f, h

(* Streams that have read nothing have no units.                            *)
LEMMA NoUnits ==
  ASSUME NEW st \in [Streams -> Shape], \A i \in Streams : st[i].total = 0
  PROVE  Units(st) = 0
BY AmountOfNothing, SizesAssumption DEF Units

-----------------------------------------------------------------------------
LEMMA InitEstablishes == Init => IInv
<1> SUFFICES ASSUME Init PROVE IInv
  OBVIOUS
<1>1. Stands
  <2>1. phase # "done" => t \in Each
    <3>1. Targets # <<>> => Len(Targets) # 0
      BY TargetsAssumption, EmptySeq
    <3> QED BY <3>1, EachIsInterval DEF Init
  <2> QED BY <2>1, NewShape DEF Init, Stands
<1>2. Accounted
  BY EachIsInterval DEF Init, Accounted, PaidFor
<1>3. Orderly
  BY NewShape DEF Init, Orderly, StreamOK
<1> QED BY <1>1, <1>2, <1>3 DEF IInv

(* On to the next target, or the end.                                       *)
LEMMA OutcomeKeeps ==
  ASSUME IInv, phase # "done", NEW o, Outcome(o),
         UNCHANGED <<parentDone, pulled, start, abort>>, now' \in Nat,
         reserved' \in [Each -> {0, MaxSampleBytes}],
         \A j \in Each : pulled[j] <= reserved'[j],
         s' \in [Streams -> Shape], Orderly'
  PROVE  IInv'
<1>1. t \in Each /\ phase' \in {"done", "begin"}
  BY DEF IInv, Stands, Outcome
<1>2. phase' # "done" => t' = t + 1 /\ t' \in Each
  BY <1>1, EachIsInterval DEF Outcome
<1>3. Stands'
  BY <1>1, <1>2 DEF IInv, Stands
<1>4. Accounted'
  <2>1. PaidFor'
    BY DEF PaidFor, IInv, Stands
  <2>2. phase' # "done" => pulled'[t'] = 0
    BY <1>1, <1>2, EachIsInterval DEF IInv, Accounted, Stands
  <2>3. \A j \in Each : phase' # "done" /\ t' < j => pulled'[j] = 0
    BY <1>1, <1>2, EachIsInterval DEF IInv, Accounted
  <2> QED BY <1>1, <2>1, <2>2, <2>3 DEF Accounted
<1> QED BY <1>3, <1>4 DEF IInv

(* A stream that has not ended takes a step, reading n units.               *)
LEMMA StreamKeeps ==
  ASSUME IInv, NEW i \in Streams, NEW n \in Nat, NEW r \in Shape,
         s[i].pc # "ended", s' = [s EXCEPT ![i] = r],
         r.total = s[i].total + n, n = 0 \/ phase = "read",
         pulled' = IF n = 0 THEN pulled ELSE [pulled EXCEPT ![t] = @ + n],
         StreamOK(r), r.why = "withdrawn" => abort,
         r.pc = "ready" => phase \in {"setup", "read"},
         UNCHANGED <<parentDone, t, phase, reserved, figure, now, start, abort>>
  PROVE  IInv'
<1>1. /\ s' \in [Streams -> Shape] /\ s'[i] = r
      /\ \A j \in Streams : j # i => s'[j] = s[j]
  BY DEF IInv, Stands
<1>2. phase = "read" => t \in Each /\ pulled[t] \in Nat /\ reserved[t] = MaxSampleBytes
  BY DEF IInv, Stands, Accounted
<1>3. /\ pulled' \in [Each -> Nat]
      /\ \A j \in Each : n = 0 \/ j # t => pulled'[j] = pulled[j]
      /\ n # 0 => pulled'[t] = pulled[t] + n
  BY <1>2 DEF IInv, Stands
<1>4. Units(s') = Units(s) + n
  BY UnitsGrow DEF IInv, Stands
<1>5. Stands'
  BY <1>1, <1>3 DEF IInv, Stands
<1>6. Accounted'
  <2>1. phase' \in {"setup", "read"} =>
          reserved'[t'] = MaxSampleBytes /\ pulled'[t'] = Units(s')
    <3>1. phase \in {"setup", "read"} =>
            t \in Each /\ reserved[t] = MaxSampleBytes /\ pulled[t] = Units(s)
      BY DEF IInv, Accounted, Stands
    <3>2. Units(s) \in Nat
      BY UnitsFit
    <3> QED BY <1>3, <1>4, <3>1, <3>2
  <2>2. PaidFor'
    <3>1. ASSUME NEW j \in Each PROVE pulled'[j] <= reserved'[j]
      <4>1. CASE n = 0 \/ j # t
        BY <1>3, <4>1 DEF IInv, Accounted, PaidFor
      <4>2. CASE n # 0 /\ j = t
        BY <2>1, <4>2, UnitsFit
      <4> QED BY <4>1, <4>2
    <3> QED BY <3>1 DEF PaidFor
  <2>3. phase' = "begin" => pulled'[t'] = 0
    BY <1>3 DEF IInv, Accounted, Stands
  <2>4. phase' = "reserve" => pulled'[t'] = 0 /\ \A j \in Streams : s'[j].total = 0
    <3>1. phase = "reserve" => n = 0 /\ pulled' = pulled
      OBVIOUS
    <3>2. phase = "reserve" => \A j \in Streams : s'[j].total = 0
      <4> SUFFICES ASSUME phase = "reserve", NEW j \in Streams PROVE s'[j].total = 0
        OBVIOUS
      <4>1. s[j].total = 0 /\ s[i].total = 0 /\ n = 0
        BY <3>1 DEF IInv, Accounted
      <4> QED BY <1>1, <4>1
    <3> QED BY <3>1, <3>2 DEF IInv, Accounted
  <2>5. \A j \in Each : phase' # "done" /\ t' < j => pulled'[j] = 0
    <3> SUFFICES ASSUME NEW j \in Each, phase # "done", t < j PROVE pulled'[j] = 0
      OBVIOUS
    <3>1. j # t
      BY EachIsInterval DEF IInv, Stands
    <3> QED BY <1>3, <3>1 DEF IInv, Accounted
  <2> QED BY <2>1, <2>2, <2>3, <2>4, <2>5 DEF Accounted
<1>7. Orderly'
  <2>1. \A j \in Streams : StreamOK(s'[j])
    BY <1>1 DEF IInv, Orderly
  <2>2. phase' \notin {"setup", "read"} => \A j \in Streams : s'[j].pc # "ready"
    BY <1>1 DEF IInv, Orderly
  <2>3. abort' => \E j \in Streams : s'[j].err
    <3> SUFFICES ASSUME abort PROVE \E j \in Streams : s'[j].err
      OBVIOUS
    <3>1. PICK j \in Streams : s[j].err
      BY DEF IInv, Orderly
    <3>2. s[j].pc = "ended"
      BY <3>1 DEF IInv, Orderly, StreamOK
    <3> QED BY <1>1, <3>1, <3>2
  <2>4. \A j \in Streams : s'[j].why = "withdrawn" => abort'
    BY <1>1 DEF IInv, Orderly
  <2>5. figure' = NoFigure
    BY DEF IInv, Orderly
  <2> QED BY <2>1, <2>2, <2>3, <2>4, <2>5 DEF Orderly
<1> QED BY <1>5, <1>6, <1>7 DEF IInv

-----------------------------------------------------------------------------
(* What becomes of a stream that ends, well or in failure.                  *)
LEMMA EndedWell ==
  ASSUME NEW st \in Shape, NEW reason \in {"withdrawn", "cap", "eof", "time"}
  PROVE  /\ Ended(st, reason, FALSE) \in Shape
         /\ StreamOK(Ended(st, reason, FALSE))
         /\ Ended(st, reason, FALSE).total = st.total
         /\ Ended(st, reason, FALSE).why = reason
         /\ Ended(st, reason, FALSE).pc = "ended"
BY DEF Ended, Shape, StreamOK

LEMMA EndedBadly ==
  ASSUME NEW st \in Shape, NEW reason \in {"broken", "cancelled"}
  PROVE  /\ Ended(st, reason, TRUE) \in Shape
         /\ StreamOK(Ended(st, reason, TRUE))
         /\ Ended(st, reason, TRUE).total = st.total
         /\ Ended(st, reason, TRUE).why = reason
         /\ Ended(st, reason, TRUE).pc = "ended"
BY DEF Ended, Shape, StreamOK

LEMMA CountedShape ==
  ASSUME NEW st \in Shape, NEW n \in Nat, st.total + n <= StreamBytes,
         now \in Nat
  PROVE  LET r == Counted(st, n)
         IN  r \in Shape /\ r.total = st.total + n
             /\ r.pc = st.pc /\ r.err = st.err /\ r.why = st.why /\ r.buf = st.buf
<1> DEFINE steady == SteadyFrom <= now
           a == IF steady /\ st.steadyStart = 0 THEN now ELSE st.steadyStart
           b == IF steady THEN st.steady + n ELSE st.steady
<1>1. Counted(st, n) = [st EXCEPT !.end = now, !.total = st.total + n,
                                  !.steadyStart = a, !.steady = b]
  BY DEF Counted
<1>2. a \in Nat /\ b \in Nat /\ st.total + n \in 0 .. StreamBytes
  BY SizesAssumption DEF Shape
<1> HIDE DEF a, b
<1> QED BY <1>1, <1>2 DEF Shape

LEMMA ReadKeeps == ASSUME IInv, NEW i \in Streams, Read(i) PROVE IInv'
<1> DEFINE n == Least(s[i].buf, Allowance(i))
           c == Counted(s[i], n)
           r == [c EXCEPT !.buf = @ - n]
<1>1. s[i] \in Shape /\ s[i].pc = "ready" /\ s[i].total \in 0 .. StreamBytes
      /\ s[i].buf \in Nat /\ now \in Nat /\ StreamOK(s[i]) /\ phase = "read"
  BY DEF Read, IInv, Stands, Orderly, Shape
<1>2. n \in Nat /\ n <= s[i].buf /\ s[i].total + n <= StreamBytes
  BY <1>1, SizesAssumption DEF Least, Allowance
<1>3. c \in Shape /\ c.total = s[i].total + n /\ c.pc = "ready"
      /\ c.err = s[i].err /\ c.why = s[i].why /\ c.buf = s[i].buf
  BY <1>1, <1>2, CountedShape
<1>4. r \in Shape /\ r.total = s[i].total + n /\ r.pc = "ready" /\ r.err = s[i].err
      /\ r.why = s[i].why
  <2> HIDE DEF c, n
  <2> QED BY <1>1, <1>2, <1>3 DEF Shape
<1>5. StreamOK(r)
  <2> HIDE DEF r
  <2> QED BY <1>1, <1>4 DEF StreamOK
<1> DEFINE e == IF StreamBytes <= r.total THEN Ended(r, "cap", FALSE)
                ELSE IF r.total = r.size  THEN Ended(r, "eof", FALSE)
                ELSE IF Timeout <= now    THEN Ended(r, "time", FALSE)
                ELSE r
<1>6. s' = [s EXCEPT ![i] = e] /\ pulled' = [pulled EXCEPT ![t] = @ + n]
  BY DEF Read
<1>7. e \in Shape /\ StreamOK(e) /\ e.total = s[i].total + n
      /\ (e.why = "withdrawn" => e.why = s[i].why)
  <2> HIDE DEF r, n
  <2>1. ASSUME NEW reason \in {"cap", "eof", "time"}
        PROVE  /\ Ended(r, reason, FALSE) \in Shape
               /\ StreamOK(Ended(r, reason, FALSE))
               /\ Ended(r, reason, FALSE).total = r.total
               /\ Ended(r, reason, FALSE).why = reason
    <3>1. reason \in {"withdrawn", "cap", "eof", "time"}
      OBVIOUS
    <3> QED BY <1>4, <3>1, EndedWell, Zenon
  <2>2. e \in {r, Ended(r, "cap", FALSE), Ended(r, "eof", FALSE), Ended(r, "time", FALSE)}
    OBVIOUS
  <2> HIDE DEF e
  <2> QED BY <1>4, <1>5, <2>1, <2>2
<1>8. e.why = "withdrawn" => abort
  BY <1>7 DEF IInv, Orderly
<1>9. UNCHANGED <<parentDone, t, phase, reserved, figure, now, start, abort>>
  BY DEF Read, clock, barrier
<1>10. pulled' = IF n = 0 THEN pulled ELSE [pulled EXCEPT ![t] = @ + n]
  <2>1. t \in Each /\ pulled \in [Each -> Nat]
    BY <1>1 DEF IInv, Stands
  <2>2. n = 0 => [pulled EXCEPT ![t] = @ + n] = pulled
    <3> HIDE DEF n
    <3> QED BY <2>1
  <2> HIDE DEF n
  <2> QED BY <1>6, <2>2
<1> HIDE DEF e, n, r, c
<1> QED BY <1>1, <1>2, <1>6, <1>7, <1>8, <1>9, <1>10, StreamKeeps

(* A step of a stream in which nothing is read.                             *)
LEMMA NothingReadKeeps ==
  ASSUME IInv, NEW i \in Streams, NEW r \in Shape,
         s[i].pc # "ended", s' = [s EXCEPT ![i] = r], r.total = s[i].total,
         StreamOK(r), r.why = "withdrawn" => abort,
         r.pc = "ready" => phase \in {"setup", "read"},
         UNCHANGED <<parentDone, t, phase, reserved, pulled, figure, now, start, abort>>
  PROVE  IInv'
<1>1. r.total = s[i].total + 0
  BY DEF IInv, Stands, Shape
<1> QED BY <1>1, StreamKeeps

LEMMA BeforeKeeps ==
  ASSUME IInv, NEW i \in Streams,
         \/ \E size \in Bodies : Open(i, size)
         \/ \E reason \in {"refused", "cut"} : OpenFails(i, reason)
         \/ \E n \in 1 .. Capacity : Arrive(i, n)
  PROVE  IInv'
<1>1. s[i] \in Shape /\ StreamOK(s[i]) /\ s \in [Streams -> Shape]
  BY DEF IInv, Stands, Orderly
<1>2. s[i].why = "withdrawn" => abort
  BY DEF IInv, Orderly
<1>3. ASSUME NEW size \in Bodies, Open(i, size) PROVE IInv'
  <2> DEFINE r == [s[i] EXCEPT !.pc = "ready", !.body = TRUE, !.size = size]
  <2>1. size \in Nat
    BY SizesAssumption
  <2>2. r \in Shape /\ r.total = s[i].total /\ r.why = s[i].why /\ StreamOK(r)
    BY <1>1, <1>3, <2>1 DEF Shape, StreamOK, Open
  <2>3. s' = [s EXCEPT ![i] = r] /\ s[i].pc # "ended" /\ phase = "setup"
        /\ UNCHANGED <<parentDone, t, phase, reserved, pulled, figure, now, start, abort>>
    BY <1>1, <1>3 DEF Open, clock, barrier
  <2> HIDE DEF r
  <2> QED BY <1>2, <2>2, <2>3, NothingReadKeeps
<1>4. ASSUME NEW reason \in {"refused", "cut"}, OpenFails(i, reason) PROVE IInv'
  <2> DEFINE r == [s[i] EXCEPT !.pc = "ended", !.err = TRUE, !.why = reason]
  <2>1. r \in Shape /\ r.total = s[i].total /\ r.why # "withdrawn" /\ r.pc = "ended"
        /\ StreamOK(r)
    BY <1>1, <1>4 DEF Shape, StreamOK, OpenFails
  <2>2. s' = [s EXCEPT ![i] = r] /\ s[i].pc # "ended"
        /\ UNCHANGED <<parentDone, t, phase, reserved, pulled, figure, now, start, abort>>
    BY <1>1, <1>4 DEF OpenFails, clock, barrier
  <2> HIDE DEF r
  <2> QED BY <2>1, <2>2, NothingReadKeeps
<1>5. ASSUME NEW n \in 1 .. Capacity, Arrive(i, n) PROVE IInv'
  <2> DEFINE r == [s[i] EXCEPT !.buf = @ + n]
  <2>1. n \in Nat
    BY SizesAssumption
  <2>2. r \in Shape /\ r.total = s[i].total /\ r.why = s[i].why /\ r.pc = s[i].pc
        /\ StreamOK(r)
    BY <1>1, <2>1 DEF Shape, StreamOK
  <2>3. s' = [s EXCEPT ![i] = r] /\ s[i].pc = "ready"
        /\ UNCHANGED <<parentDone, t, phase, reserved, pulled, figure, now, start, abort>>
    BY <1>1, <1>5 DEF Arrive, barrier
  <2>4. phase \in {"setup", "read"}
    BY <2>3 DEF IInv, Orderly
  <2> HIDE DEF r
  <2> QED BY <1>2, <2>2, <2>3, <2>4, NothingReadKeeps
<1> QED BY <1>3, <1>4, <1>5

LEMMA EndKeeps ==
  ASSUME IInv, NEW i \in Streams, Withdraw(i) \/ ReadFails(i) \/ ReadCut(i)
  PROVE  IInv'
<1>1. /\ s[i] \in Shape /\ StreamOK(s[i]) /\ s \in [Streams -> Shape] /\ now \in Nat
      /\ s[i].pc = "ready" /\ s[i].total \in 0 .. StreamBytes /\ parentDone \in BOOLEAN
      /\ UNCHANGED <<parentDone, t, phase, reserved, pulled, figure, now, start, abort>>
  BY DEF IInv, Stands, Orderly, Shape, Withdraw, ReadFails, ReadCut, clock, barrier
<1>2. ASSUME Withdraw(i) PROVE IInv'
  <2> DEFINE r == [s[i] EXCEPT !.pc = "ended", !.why = "withdrawn",
                               !.body = BodyAfterAbort(i)]
  <2>1. r \in Shape /\ r.total = s[i].total /\ r.pc = "ended" /\ StreamOK(r)
    BY <1>1 DEF Shape, StreamOK, BodyAfterAbort
  <2>2. s' = [s EXCEPT ![i] = r] /\ abort
    BY <1>1, <1>2 DEF Withdraw
  <2> HIDE DEF r
  <2> QED BY <1>1, <2>1, <2>2, NothingReadKeeps
<1> DEFINE c == Counted(s[i], 0)
<1>3. c \in Shape /\ c.total = s[i].total
  <2>1. s[i].total + 0 = s[i].total /\ s[i].total <= StreamBytes
    BY <1>1
  <2> QED BY <1>1, <2>1, CountedShape
<1>4. ASSUME ReadFails(i) PROVE IInv'
  <2>1. s' = [s EXCEPT ![i] = Ended(c, "broken", TRUE)]
    BY <1>4 DEF ReadFails
  <2> HIDE DEF c
  <2> QED BY <1>1, <1>3, <2>1, EndedBadly, NothingReadKeeps
<1>5. ASSUME ReadCut(i) PROVE IInv'
  <2>1. CASE parentDone
    <3>1. s' = [s EXCEPT ![i] = Ended(c, "cancelled", TRUE)]
      BY <1>5, <2>1 DEF ReadCut, DesignedEnd
    <3> HIDE DEF c
    <3> QED BY <1>1, <1>3, <3>1, EndedBadly, NothingReadKeeps
  <2>2. CASE ~parentDone
    <3>1. s' = [s EXCEPT ![i] = Ended(c, "time", FALSE)]
      BY <1>5, <2>2 DEF ReadCut, DesignedEnd, Over
    <3> HIDE DEF c
    <3>2. /\ Ended(c, "time", FALSE) \in Shape /\ StreamOK(Ended(c, "time", FALSE))
          /\ Ended(c, "time", FALSE).total = c.total
          /\ Ended(c, "time", FALSE).why = "time" /\ Ended(c, "time", FALSE).pc = "ended"
      BY <1>3 DEF Ended, Shape, StreamOK
    <3> QED BY <1>1, <1>3, <3>1, <3>2, NothingReadKeeps
  <2> QED BY <1>1, <2>1, <2>2
<1> QED BY <1>2, <1>4, <1>5

-----------------------------------------------------------------------------
(* The steps of sampleOne itself.                                           *)
LEMMA CheckTimeKeeps == ASSUME IInv, CheckTime PROVE IInv'
<1>1. /\ phase = "begin" /\ t \in Each /\ pulled[t] = 0
      /\ UNCHANGED <<parentDone, reserved, pulled>>
  BY DEF CheckTime, IInv, Stands, Accounted
<1>2. /\ s' \in [Streams -> Shape] /\ now' = 0 /\ start' = 0 /\ abort' = FALSE
      /\ \A i \in Streams : s'[i] = NewStream
      /\ figure' = NoFigure
  BY NewShape DEF CheckTime
<1>3. Orderly'
  BY <1>2, NewShape DEF Orderly
<1>4. CASE parentDone
  <2>1. Outcome("no_time")
    BY <1>4 DEF CheckTime
  <2>2. phase' \in {"done", "begin"} /\ (phase' # "done" => t' = t + 1 /\ t' \in Each)
    BY <1>1, <2>1, EachIsInterval DEF Outcome
  <2>3. Stands'
    BY <1>1, <1>2, <2>2 DEF IInv, Stands
  <2>4. phase' # "done" => pulled'[t'] = 0
    BY <1>1, <2>2, EachIsInterval DEF IInv, Accounted, Stands
  <2>5. \A j \in Each : phase' # "done" /\ t' < j => pulled'[j] = 0
    BY <1>1, <2>2, EachIsInterval DEF IInv, Accounted
  <2>6. PaidFor'
    BY <1>1 DEF IInv, Accounted, PaidFor
  <2>7. Accounted'
    BY <2>2, <2>4, <2>5, <2>6 DEF Accounted
  <2> QED BY <1>3, <2>3, <2>7 DEF IInv
<1>5. CASE ~parentDone
  <2>1. phase' = "reserve" /\ t' = t
    BY <1>5 DEF CheckTime
  <2>2. Stands'
    BY <1>1, <1>2, <2>1 DEF IInv, Stands
  <2>3. \A i \in Streams : s'[i].total = 0
    BY <1>2, NewShape
  <2>4. Accounted'
    BY <1>1, <2>1, <2>3 DEF IInv, Accounted, PaidFor
  <2> QED BY <1>3, <2>2, <2>4 DEF IInv
<1> QED BY <1>4, <1>5

LEMMA ReserveKeeps ==
  ASSUME IInv, NEW reply \in Replies, NEW counted \in BOOLEAN, Reserve(reply, counted)
  PROVE  IInv'
<1>1. /\ phase = "reserve" /\ t \in Each /\ pulled[t] = 0
      /\ \A i \in Streams : s[i].total = 0
      /\ UNCHANGED <<parentDone, pulled, figure, now, start, abort, s>>
      /\ s \in [Streams -> Shape] /\ now \in Nat
      /\ reserved \in [Each -> {0, MaxSampleBytes}]
  BY DEF Reserve, IInv, Stands, Accounted, clock, barrier
<1>2. /\ reserved' \in [Each -> {0, MaxSampleBytes}]
      /\ \A j \in Each : j # t => reserved'[j] = reserved[j]
      /\ counted => reserved'[t] = MaxSampleBytes
  BY <1>1 DEF Reserve
<1>3. \A j \in Each : pulled[j] <= reserved'[j]
  <2>1. ASSUME NEW j \in Each, j # t PROVE pulled[j] <= reserved'[j]
    BY <1>2, <2>1 DEF IInv, Accounted, PaidFor
  <2>2. 0 <= reserved'[t]
    BY <1>1, <1>2, MaxIsNat
  <2> QED BY <1>1, <2>1, <2>2
<1>4. CASE reply = "granted"
  <2>1. phase' = "setup" /\ t' = t /\ counted
    BY <1>4 DEF Reserve, AfterReserve
  <2>2. Stands'
    BY <1>1, <1>2, <2>1 DEF IInv, Stands
  <2>3. Units(s') = 0
    BY <1>1, NoUnits
  <2>4. Accounted'
    BY <1>1, <1>2, <1>3, <2>1, <2>3 DEF IInv, Accounted, PaidFor
  <2>5. Orderly'
    BY <1>1, <2>1 DEF IInv, Orderly
  <2> QED BY <2>2, <2>4, <2>5 DEF IInv
<1>5. CASE reply # "granted"
  <2>1. \E o \in {"no_budget", "unsupported", "error"} : Outcome(o)
    BY <1>5 DEF Reserve, AfterReserve, Replies
  <2>2. phase' \in {"done", "begin"}
    BY <2>1 DEF Outcome
  <2>3. Orderly'
    BY <1>1, <2>2 DEF IInv, Orderly
  <2> QED BY <1>1, <1>2, <1>3, <2>1, <2>3, OutcomeKeeps
<1> QED BY <1>4, <1>5

LEMMA FireKeeps == ASSUME IInv, Fire PROVE IInv'
<1>1. /\ phase = "setup" /\ phase' = "read" /\ start' = now
      /\ abort' = \E i \in Streams : s[i].err
      /\ UNCHANGED <<parentDone, t, reserved, pulled, figure, now, s>>
  BY DEF Fire, clock
<1>2. Stands'
  BY <1>1 DEF IInv, Stands
<1>3. Accounted'
  BY <1>1 DEF IInv, Accounted, PaidFor, Units
<1>4. Orderly'
  <2>1. abort => abort'
    BY <1>1 DEF IInv, Orderly
  <2> QED BY <1>1, <2>1 DEF IInv, Orderly
<1> QED BY <1>2, <1>3, <1>4 DEF IInv

(* A figure is of streams none of which failed.                             *)
LEMMA FinishKeeps == ASSUME IInv, Finish PROVE IInv'
<1>1. /\ phase = "read" /\ t \in Each /\ \A i \in Streams : s[i].pc = "ended"
      /\ UNCHANGED <<parentDone, reserved, pulled, now, start, abort, s>>
      /\ figure' = Measured
  BY DEF Finish, IInv, Stands, clock, barrier
<1>2. Measured # NoFigure => \A i \in Streams : ~s[i].err
  BY DEF Measured, Failed
<1>3. phase' \in {"submit", "begin", "done"}
  BY DEF Finish, Outcome
<1>4. Orderly'
  BY <1>1, <1>2, <1>3 DEF IInv, Orderly
<1>5. CASE Measured = NoFigure
  <2>1. Outcome("error")
    BY <1>5 DEF Finish
  <2>2. \A j \in Each : pulled[j] <= reserved'[j]
    BY <1>1 DEF IInv, Accounted, PaidFor
  <2>3. now' \in Nat /\ reserved' \in [Each -> {0, MaxSampleBytes}] /\ s' \in [Streams -> Shape]
    BY <1>1 DEF IInv, Stands
  <2> QED BY <1>1, <1>4, <2>1, <2>2, <2>3, OutcomeKeeps
<1>6. CASE Measured # NoFigure
  <2>1. phase' = "submit" /\ t' = t
    BY <1>6 DEF Finish
  <2>2. Stands'
    BY <1>1, <2>1 DEF IInv, Stands
  <2>3. Accounted'
    BY <1>1, <2>1 DEF IInv, Accounted, PaidFor
  <2> QED BY <1>4, <2>2, <2>3 DEF IInv
<1> QED BY <1>5, <1>6

LEMMA SubmitKeeps == ASSUME IInv, NEW accepted \in BOOLEAN, Submit(accepted) PROVE IInv'
<1>1. /\ phase = "submit" /\ \E o \in {"measured", "error"} : Outcome(o)
      /\ UNCHANGED <<parentDone, reserved, pulled, figure, now, start, abort, s>>
  BY DEF Submit, clock, barrier
<1>2. Orderly'
  BY <1>1 DEF IInv, Orderly, Outcome
<1>3. now' \in Nat /\ reserved' \in [Each -> {0, MaxSampleBytes}] /\ s' \in [Streams -> Shape]
      /\ \A j \in Each : pulled[j] <= reserved'[j]
  BY <1>1 DEF IInv, Stands, Accounted, PaidFor
<1> QED BY <1>1, <1>2, <1>3, OutcomeKeeps

LEMMA NextKeeps == IInv /\ [Next]_vars => IInv'
<1> SUFFICES ASSUME IInv, [Next]_vars PROVE IInv'
  OBVIOUS
<1>1. ASSUME NEW i \in Streams, Stream(i) PROVE IInv'
  BY <1>1, BeforeKeeps, ReadKeeps, EndKeeps DEF Stream
<1>2. ASSUME NEW reply \in Replies, NEW counted \in BOOLEAN, Reserve(reply, counted)
      PROVE  IInv'
  BY <1>2, ReserveKeeps
<1>3. ASSUME NEW accepted \in BOOLEAN, Submit(accepted) PROVE IInv'
  BY <1>3, SubmitKeeps
<1>4. CASE Tick \/ Signal \/ Done \/ UNCHANGED vars
  <2>1. /\ UNCHANGED <<t, phase, reserved, pulled, figure, start, abort, s>>
        /\ parentDone' \in BOOLEAN /\ now' \in Nat
    <3>1. parentDone \in BOOLEAN /\ now \in Nat
      BY DEF IInv, Stands
    <3>2. CASE Tick
      BY <3>1, <3>2 DEF Tick, barrier
    <3>3. CASE Signal
      BY <3>1, <3>3 DEF Signal, clock, barrier
    <3>4. CASE Done \/ UNCHANGED vars
      BY <3>1, <3>4 DEF Done, vars, clock, barrier
    <3> QED BY <1>4, <3>2, <3>3, <3>4
  <2>2. Stands'
    BY <2>1 DEF IInv, Stands
  <2>3. Accounted'
    BY <2>1 DEF IInv, Accounted, PaidFor
  <2>4. Orderly'
    BY <2>1 DEF IInv, Orderly
  <2> QED BY <2>2, <2>3, <2>4 DEF IInv
<1> QED BY <1>1, <1>2, <1>3, <1>4, CheckTimeKeeps, FireKeeps, FinishKeeps DEF Next

LEMMA Invariant == Spec => []IInv
BY InitEstablishes, NextKeeps, PTL DEF Spec

-----------------------------------------------------------------------------
(* Why a steady rate is one the link has carried.  A ready stream holds     *)
(* nothing in its buffer when time passes, so that a unit counted as steady *)
(* arrived in the instant it is counted in, and each instant since the      *)
(* first steady read has brought Capacity units at most.                    *)

(* What is known of a stream beyond its shape.                              *)
Within(st) ==
  /\ st.size \in Bodies \cup {0} /\ st.buf <= Window /\ st.steady <= st.total
  /\ st.steadyStart <= now /\ st.end <= now

Bounded ==
  /\ now <= Timeout /\ left \in 0 .. Capacity /\ start <= now
  /\ t \in 1 .. Len(Targets) + 1
  /\ results \in [Each -> {"none", "no_time", "no_budget", "unsupported", "error", "measured"}]
  /\ \A i \in Streams : Within(s[i])

(* The units a stream has counted as steady, and may still count so in this *)
(* instant.                                                                 *)
Held(st) == IF st.pc = "ready" THEN st.buf ELSE 0
Most == StreamBytes + Window
Steady(st) == Amount([i \in Streams |-> st[i].steady], Streams, Most)
Load(st) == Amount([i \in Streams |-> st[i].steady + Held(st[i])], Streams, Most)

Unmeasured == \A i \in Streams : s[i].steady = 0 /\ s[i].steadyStart = 0

(* So much is what the link carries from the first steady read of a stream  *)
(* to the end of the instant last.                                          *)
Carried(amount, last) ==
  \E i \in Streams : /\ s[i].steadyStart # 0
                     /\ amount <= Capacity * (last - s[i].steadyStart + 1)

Metered ==
  /\ phase \in {"reserve", "setup"} => Unmeasured
  /\ phase = "read" /\ now < SteadyFrom => Unmeasured
  /\ phase = "read" /\ SteadyFrom <= now =>
       \/ Unmeasured /\ Load(s) + left <= Capacity
       \/ Carried(Load(s) + left, now)
  /\ phase = "read" =>
       \/ \A i \in Streams : s[i].steady = 0
       \/ \E j \in Streams : Carried(Steady(s), s[j].end)

FigureOK ==
  /\ figure.bytes \in Nat /\ figure.elapsed \in Nat /\ figure.warm \in BOOLEAN
  /\ SteadyWithinCapacity

MInv == Bounded /\ Metered /\ FigureOK

LEMMA MostIsNatural == Most \in Nat /\ IsFiniteSet(Streams)
BY SizesAssumption, StreamsAssumption DEF Most

(* What one stream holds and has counted is within the columns.             *)
LEMMA HeldFits ==
  ASSUME NEW st \in Shape, Within(st)
  PROVE  /\ st.steady \in 0 .. Most /\ st.steady + Held(st) \in 0 .. Most
         /\ st.steady \in Nat /\ Held(st) \in Nat
BY SizesAssumption DEF Shape, Within, Held, Most

LEMMA LoadChanges ==
  ASSUME NEW st \in [Streams -> Shape], \A j \in Streams : Within(st[j]),
         NEW i \in Streams, NEW r \in Shape, Within(r)
  PROVE  Load([st EXCEPT ![i] = r])
           = Load(st) + (r.steady + Held(r)) - (st[i].steady + Held(st[i]))
<1> DEFINE f == [j \in Streams |-> st[j].steady + Held(st[j])]
           h == [j \in Streams |-> [st EXCEPT ![i] = r][j].steady
                                      + Held([st EXCEPT ![i] = r][j])]
<1>1. f \in [Streams -> 0 .. Most]
  BY HeldFits
<1>2. h[i] = r.steady + Held(r) /\ f[i] = st[i].steady + Held(st[i])
      /\ \A j \in Streams : j # i => h[j] = f[j]
  OBVIOUS
<1>3. h \in [Streams -> 0 .. Most]
  <2>1. \A j \in Streams : h[j] \in 0 .. Most
    BY <1>1, <1>2, HeldFits
  <2> QED BY <2>1
<1>4. Load([st EXCEPT ![i] = r]) = Amount(h, Streams, Most)
      /\ Load(st) = Amount(f, Streams, Most)
  BY DEF Load
<1> HIDE DEF f, h
<1>5. Amount(h, Streams, Most) = Amount(f, Streams, Most) + h[i] - f[i]
  BY <1>1, <1>2, <1>3, AmountChanges, MostIsNatural
<1>6. f[i] \in Nat /\ h[i] \in Nat /\ Amount(f, Streams, Most) \in Nat
  BY <1>1, <1>3, CellsAreFinite, MostIsNatural
<1> QED BY <1>2, <1>4, <1>5, <1>6

LEMMA SteadyWithinLoad ==
  ASSUME NEW st \in [Streams -> Shape], \A j \in Streams : Within(st[j])
  PROVE  /\ Steady(st) <= Load(st)
         /\ Steady(st) \in Nat /\ Load(st) \in Nat
<1> DEFINE f == [j \in Streams |-> st[j].steady]
           h == [j \in Streams |-> st[j].steady + Held(st[j])]
<1>1. f \in [Streams -> Nat] /\ h \in [Streams -> Nat]
      /\ \A j \in Streams : f[j] <= h[j]
  BY HeldFits
<1> HIDE DEF f, h
<1>2. Amount(f, Streams, Most) <= Amount(h, Streams, Most)
  BY <1>1, AmountIsMonotone, MostIsNatural
<1>3. Amount(f, Streams, Most) \in Nat /\ Amount(h, Streams, Most) \in Nat
  BY CellsAreFinite, MostIsNatural
<1> QED BY <1>2, <1>3 DEF Steady, Load, f, h

-----------------------------------------------------------------------------
(* The steps of a stream. *)

LEMMA BoundedStep ==
  ASSUME IInv, Bounded, NEW i \in Streams, NEW r \in Shape, Within(r),
         s' = [s EXCEPT ![i] = r], left' \in 0 .. Capacity,
         UNCHANGED <<t, results, now, start>>
  PROVE  Bounded'
<1>1. \A j \in Streams : s'[j] = IF j = i THEN r ELSE s[j]
  BY DEF IInv, Stands
<1>2. \A j \in Streams : Within(s[j])'
  BY <1>1 DEF Bounded, Within
<1> QED BY <1>2 DEF Bounded

(* A step in which nothing is counted: what arrives in the buffer is taken  *)
(* off what the link still carries.                                         *)
LEMMA UncountedKeeps ==
  ASSUME IInv, MInv, NEW i \in Streams, NEW r \in Shape, Within(r),
         s' = [s EXCEPT ![i] = r], left' \in 0 .. Capacity,
         r.steady = s[i].steady, r.steadyStart = s[i].steadyStart, r.end = s[i].end,
         phase = "read" => Held(r) + left' <= Held(s[i]) + left,
         UNCHANGED <<t, phase, results, figure, now, start>>
  PROVE  MInv'
<1>1. Bounded'
  BY BoundedStep DEF MInv
<1>2. \A j \in Streams : /\ s'[j].steady = s[j].steady /\ s'[j].end = s[j].end
                          /\ s'[j].steadyStart = s[j].steadyStart
  BY DEF IInv, Stands
<1>3. Unmeasured => Unmeasured'
  BY <1>2 DEF Unmeasured
<1>4. Steady(s') = Steady(s)
  <2>1. [j \in Streams |-> s'[j].steady] = [j \in Streams |-> s[j].steady]
    BY <1>2
  <2> QED BY <2>1 DEF Steady
<1>5. phase = "read" => Load(s') + left' <= Load(s) + left
  <2>1. s \in [Streams -> Shape] /\ \A j \in Streams : Within(s[j])
    BY DEF IInv, Stands, MInv, Bounded
  <2>2. Load(s') = Load(s) + (r.steady + Held(r)) - (s[i].steady + Held(s[i]))
    BY <2>1, LoadChanges
  <2>3. /\ Load(s) \in Nat /\ r.steady \in Nat /\ Held(r) \in Nat /\ Held(s[i]) \in Nat
        /\ left \in Nat /\ left' \in Nat
    BY <2>1, SteadyWithinLoad, HeldFits, SizesAssumption DEF MInv, Bounded
  <2> QED BY <2>2, <2>3
<1>6. ASSUME NEW m \in Int, NEW n \in Int, m <= n, NEW last \in Int, Carried(n, last)
      PROVE  Carried(m, last)'
  <2>1. PICK j \in Streams : /\ s[j].steadyStart # 0
                             /\ n <= Capacity * (last - s[j].steadyStart + 1)
    BY <1>6 DEF Carried
  <2>2. Capacity * (last - s[j].steadyStart + 1) \in Int
    BY SizesAssumption DEF IInv, Stands, Shape
  <2>3. m <= Capacity * (last - s[j].steadyStart + 1)
    BY <1>6, <2>1, <2>2
  <2> QED BY <1>2, <2>1, <2>3 DEF Carried
<1>7. /\ Load(s) + left \in Int /\ Load(s') + left' \in Int /\ Steady(s) \in Int
      /\ now \in Int /\ \A j \in Streams : s[j].end \in Int
  <2>1. s \in [Streams -> Shape] /\ \A j \in Streams : Within(s[j])
    BY DEF IInv, Stands, MInv, Bounded
  <2>2. Load(s') \in Nat
    BY CellsAreFinite, MostIsNatural DEF Load
  <2>3. Load(s) \in Nat /\ Steady(s) \in Nat
    BY <2>1, SteadyWithinLoad
  <2>4. left \in Nat /\ left' \in Nat /\ now \in Nat
    BY SizesAssumption DEF MInv, Bounded, IInv, Stands
  <2>5. \A j \in Streams : s[j].end \in Int
    BY <2>1 DEF Shape
  <2> QED BY <2>2, <2>3, <2>4, <2>5
<1>8. Metered'
  <2>1. phase = "read" /\ SteadyFrom <= now =>
          \/ Unmeasured' /\ Load(s') + left' <= Capacity
          \/ Carried(Load(s) + left, now)'
    <3> SUFFICES ASSUME phase = "read", SteadyFrom <= now
                 PROVE  \/ Unmeasured' /\ Load(s') + left' <= Capacity
                        \/ Carried(Load(s) + left, now)'
      OBVIOUS
    <3>1. CASE Unmeasured /\ Load(s) + left <= Capacity
      BY <1>3, <1>5, <1>7, <3>1, SizesAssumption
    <3>2. CASE Carried(Load(s) + left, now)
      <4>1. PICK m \in Int : m = Load(s') + left'
        BY <1>7
      <4>2. PICK n \in Int : n = Load(s) + left
        BY <1>7
      <4>3. PICK last \in Int : last = now
        BY <1>7
      <4>4. Carried(m, last)'
        BY <1>5, <1>6, <3>2, <4>1, <4>2, <4>3
      <4> QED BY <4>1, <4>3, <4>4 DEF Carried
    <3> QED BY <3>1, <3>2 DEF MInv, Metered
  <2>2. phase = "read" =>
          \/ \A j \in Streams : s'[j].steady = 0
          \/ \E j \in Streams : Carried(Steady(s), s[j].end)'
    <3> SUFFICES ASSUME phase = "read", NEW j \in Streams, Carried(Steady(s), s[j].end)
                 PROVE  Carried(Steady(s), s[j].end)'
      BY <1>2 DEF MInv, Metered
    <3>1. PICK k \in Streams :
            /\ s[k].steadyStart # 0
            /\ Steady(s) <= Capacity * (s[j].end - s[k].steadyStart + 1)
      BY DEF Carried
    <3>2. /\ s'[k].steadyStart # 0
          /\ Steady(s') <= Capacity * (s'[j].end - s'[k].steadyStart + 1)
      BY <1>2, <1>4, <3>1
    <3> QED BY <3>2 DEF Carried
  <2>3. SteadyFrom' = SteadyFrom
    BY DEF SteadyFrom
  <2> QED BY <1>3, <2>1, <2>2, <2>3 DEF Metered, MInv
<1> QED BY <1>1, <1>8 DEF MInv, FigureOK, SteadyWithinCapacity

(* A read: what it takes from the buffer it counts, as steady or not.       *)
LEMMA CountedKeeps ==
  ASSUME IInv, MInv, NEW i \in Streams, NEW r \in Shape, Within(r),
         s' = [s EXCEPT ![i] = r], phase = "read", r.end = now,
         SteadyFrom <= now =>
           /\ r.steadyStart = IF s[i].steadyStart = 0 THEN now ELSE s[i].steadyStart
           /\ r.steady + Held(r) <= s[i].steady + Held(s[i]),
         now < SteadyFrom =>
           r.steady = s[i].steady /\ r.steadyStart = s[i].steadyStart,
         UNCHANGED <<t, phase, results, figure, now, start, left>>
  PROVE  MInv'
<1>1. Bounded'
  BY BoundedStep DEF MInv, Bounded
<1>2. /\ s' \in [Streams -> Shape] /\ s'[i] = r
      /\ \A j \in Streams : j # i => s'[j] = s[j]
      /\ SteadyFrom' = SteadyFrom /\ SteadyFrom \in Nat \ {0} /\ now \in Nat
      /\ left \in Nat /\ left' = left
  BY SizesAssumption DEF IInv, Stands, SteadyFrom, MInv, Bounded
<1>3. \A j \in Streams : s[j].steadyStart \in Nat /\ s'[j].steadyStart \in Nat
  BY <1>2 DEF IInv, Stands, Shape
<1>4. CASE now < SteadyFrom
  <2>1. Unmeasured'
    BY <1>2, <1>4 DEF MInv, Metered, Unmeasured
  <2>2. \A j \in Streams : s'[j].steady = 0
    BY <2>1 DEF Unmeasured
  <2>3. Metered'
    BY <1>2, <1>4, <2>1, <2>2 DEF Metered
  <2> QED BY <1>1, <2>3 DEF MInv, FigureOK, SteadyWithinCapacity
<1>5. CASE SteadyFrom <= now
  <2> DEFINE amount == Load(s') + left
  <2>1. Load(s') + left <= Load(s) + left /\ Load(s) + left \in Nat
        /\ Load(s') + left \in Nat
    <3>1. s \in [Streams -> Shape] /\ \A j \in Streams : Within(s[j])
      BY DEF IInv, Stands, MInv, Bounded
    <3>2. Load(s') = Load(s) + (r.steady + Held(r)) - (s[i].steady + Held(s[i]))
      BY <3>1, LoadChanges
    <3>3. /\ Load(s) \in Nat /\ r.steady \in Nat /\ Held(r) \in Nat
          /\ Held(s[i]) \in Nat /\ s[i].steady \in Nat
      BY <3>1, SteadyWithinLoad, HeldFits
    <3>4. Load(s') \in Nat
      BY CellsAreFinite, MostIsNatural DEF Load
    <3> QED BY <1>2, <1>5, <3>2, <3>3, <3>4
  <2>2. r.steadyStart # 0
    BY <1>2, <1>5
  <2>3. PICK k \in Streams : /\ s'[k].steadyStart # 0
                             /\ amount <= Capacity * (now - s'[k].steadyStart + 1)
    <3>1. CASE Unmeasured /\ Load(s) + left <= Capacity
      <4>1. s'[i].steadyStart = now
        BY <1>2, <1>5, <3>1 DEF Unmeasured
      <4>2. Capacity * (now - s'[i].steadyStart + 1) = Capacity
        BY <1>2, <4>1, SizesAssumption
      <4>3. amount <= Capacity
        BY <2>1, <3>1, SizesAssumption
      <4> QED BY <1>2, <2>2, <4>2, <4>3
    <3>2. CASE Carried(Load(s) + left, now)
      <4>1. PICK k \in Streams :
              /\ s[k].steadyStart # 0
              /\ Load(s) + left <= Capacity * (now - s[k].steadyStart + 1)
        BY <3>2 DEF Carried
      <4>2. s'[k].steadyStart = s[k].steadyStart
        BY <1>2, <1>5, <4>1
      <4>3. Capacity * (now - s[k].steadyStart + 1) \in Int
        BY <1>2, <1>3, SizesAssumption
      <4>4. amount <= Capacity * (now - s[k].steadyStart + 1)
        BY <2>1, <4>1, <4>3
      <4> QED BY <4>1, <4>2, <4>4
    <3> QED BY <1>5, <3>1, <3>2 DEF MInv, Metered
  <2>4. Carried(Load(s) + left, now)'
    BY <1>2, <2>3 DEF Carried
  <2>5. Carried(Steady(s), s[i].end)'
    <3>1. \A j \in Streams : Within(s'[j])
      BY <1>1, <1>2 DEF Bounded, Within
    <3>2. Steady(s') <= Load(s') /\ Steady(s') \in Nat /\ Load(s') \in Nat
      BY <1>2, <3>1, SteadyWithinLoad
    <3>3. Capacity * (now - s'[k].steadyStart + 1) \in Int
      BY <1>2, <1>3, SizesAssumption
    <3>4. Steady(s') <= Capacity * (now - s'[k].steadyStart + 1)
      BY <1>2, <2>3, <3>2, <3>3
    <3>5. s'[i].end = now
      BY <1>2
    <3> QED BY <2>3, <3>4, <3>5 DEF Carried
  <2>6. Metered'
    <3>1. ~(now < SteadyFrom)
      BY <1>2, <1>5
    <3> QED BY <1>2, <2>4, <2>5, <3>1 DEF Metered
  <2> QED BY <1>1, <2>6 DEF MInv, FigureOK, SteadyWithinCapacity
<1> QED BY <1>2, <1>4, <1>5

LEMMA ArriveMeters ==
  ASSUME IInv, MInv, NEW i \in Streams,
         \/ \E size \in Bodies : Open(i, size)
         \/ \E reason \in {"refused", "cut"} : OpenFails(i, reason)
         \/ \E n \in 1 .. Capacity : Arrive(i, n)
         \/ Withdraw(i)
  PROVE  MInv'
<1>0. /\ s[i] \in Shape /\ Within(s[i]) /\ left \in 0 .. Capacity /\ left \in Nat
      /\ s[i].buf \in Nat
  BY SizesAssumption DEF IInv, Stands, MInv, Bounded, Shape
<1>1. ASSUME NEW size \in Bodies, Open(i, size) PROVE MInv'
  <2> DEFINE r == [s[i] EXCEPT !.pc = "ready", !.body = TRUE, !.size = size]
  <2>1. size \in Nat
    BY SizesAssumption
  <2>2. /\ r \in Shape /\ Within(r) /\ r.steady = s[i].steady
        /\ r.steadyStart = s[i].steadyStart /\ r.end = s[i].end
    BY <1>0, <2>1 DEF Shape, Within
  <2>3. s' = [s EXCEPT ![i] = r] /\ phase # "read"
        /\ UNCHANGED <<t, phase, results, figure, now, start, left>>
    BY <1>1 DEF Open, clock, barrier, IInv, Stands
  <2> HIDE DEF r
  <2> QED BY <1>0, <2>2, <2>3, UncountedKeeps
<1>2. ASSUME NEW reason \in {"refused", "cut"}, OpenFails(i, reason) PROVE MInv'
  <2> DEFINE r == [s[i] EXCEPT !.pc = "ended", !.err = TRUE, !.why = reason]
  <2>1. /\ r \in Shape /\ Within(r) /\ r.steady = s[i].steady
        /\ r.steadyStart = s[i].steadyStart /\ r.end = s[i].end
    BY <1>0 DEF Shape, Within
  <2>2. s' = [s EXCEPT ![i] = r] /\ phase # "read"
        /\ UNCHANGED <<t, phase, results, figure, now, start, left>>
    BY <1>2 DEF OpenFails, clock, barrier, IInv, Stands
  <2> HIDE DEF r
  <2> QED BY <1>0, <2>1, <2>2, UncountedKeeps
<1>3. ASSUME NEW n \in 1 .. Capacity, Arrive(i, n) PROVE MInv'
  <2> DEFINE r == [s[i] EXCEPT !.buf = @ + n]
  <2>1. n \in Nat /\ s[i].buf + n <= Window /\ n <= left /\ s[i].pc = "ready"
    BY <1>3, SizesAssumption DEF Arrive
  <2>2. /\ r \in Shape /\ Within(r) /\ r.steady = s[i].steady
        /\ r.steadyStart = s[i].steadyStart /\ r.end = s[i].end
        /\ r.pc = "ready" /\ r.buf = s[i].buf + n
    BY <1>0, <2>1 DEF Shape, Within
  <2>3. s' = [s EXCEPT ![i] = r] /\ left' = left - n
        /\ UNCHANGED <<t, phase, results, figure, now, start>>
    BY <1>3 DEF Arrive, barrier, IInv, Stands
  <2> HIDE DEF r
  <2>4. left' \in 0 .. Capacity /\ Held(r) + left' <= Held(s[i]) + left
    BY <1>0, <2>1, <2>2, <2>3, SizesAssumption DEF Held
  <2> QED BY <2>2, <2>3, <2>4, UncountedKeeps
<1>4. ASSUME Withdraw(i) PROVE MInv'
  <2> DEFINE r == [s[i] EXCEPT !.pc = "ended", !.why = "withdrawn",
                               !.body = BodyAfterAbort(i)]
  <2>1. /\ r \in Shape /\ Within(r) /\ r.steady = s[i].steady
        /\ r.steadyStart = s[i].steadyStart /\ r.end = s[i].end /\ r.pc = "ended"
    BY <1>0 DEF Shape, Within, BodyAfterAbort
  <2>2. s' = [s EXCEPT ![i] = r]
        /\ UNCHANGED <<t, phase, results, figure, now, start, left>>
    BY <1>4 DEF Withdraw, clock, barrier, IInv, Stands
  <2> HIDE DEF r
  <2>3. Held(r) + left <= Held(s[i]) + left
    BY <1>0, <2>1 DEF Held
  <2> QED BY <1>0, <2>1, <2>2, <2>3, UncountedKeeps
<1> QED BY <1>1, <1>2, <1>3, <1>4

(* What Counted makes of the fields that CountedShape is silent about.      *)
LEMMA CountedFields ==
  ASSUME NEW st \in Shape, Within(st), NEW n \in Nat, st.total + n <= StreamBytes,
         now \in Nat
  PROVE  LET r == Counted(st, n)
         IN  /\ r \in Shape /\ Within(r) /\ r.end = now /\ r.size = st.size
             /\ r.pc = st.pc /\ r.buf = st.buf
             /\ SteadyFrom <= now =>
                  /\ r.steadyStart = IF st.steadyStart = 0 THEN now ELSE st.steadyStart
                  /\ r.steady = st.steady + n
             /\ ~(SteadyFrom <= now) =>
                  r.steady = st.steady /\ r.steadyStart = st.steadyStart
<1> DEFINE steady == SteadyFrom <= now
           a == IF steady /\ st.steadyStart = 0 THEN now ELSE st.steadyStart
           b == IF steady THEN st.steady + n ELSE st.steady
           r == Counted(st, n)
<1>1. r = [st EXCEPT !.end = now, !.total = st.total + n,
                     !.steadyStart = a, !.steady = b]
  BY DEF Counted
<1>2. /\ r \in Shape /\ r.pc = st.pc /\ r.buf = st.buf /\ r.total = st.total + n
  BY CountedShape
<1>3. st.total \in Nat /\ st.steady \in Nat /\ st.steadyStart \in Nat
  BY DEF Shape
<1>4. /\ r.end = now /\ r.size = st.size /\ r.steadyStart = a /\ r.steady = b
  <2> HIDE DEF a, b
  <2> QED BY <1>1 DEF Shape
<1>5. Within(r)
  <2> HIDE DEF r
  <2> QED BY <1>2, <1>3, <1>4 DEF Within
<1> HIDE DEF r
<1>6. /\ steady => /\ r.steadyStart = IF st.steadyStart = 0 THEN now ELSE st.steadyStart
                   /\ r.steady = st.steady + n
      /\ ~steady => r.steady = st.steady /\ r.steadyStart = st.steadyStart
  BY <1>4
<1> QED BY <1>2, <1>4, <1>5, <1>6 DEF r

LEMMA ReadMeters ==
  ASSUME IInv, MInv, NEW i \in Streams, Read(i) \/ ReadFails(i) \/ ReadCut(i)
  PROVE  MInv'
<1>0. /\ s[i] \in Shape /\ Within(s[i]) /\ s[i].pc = "ready" /\ phase = "read"
      /\ s[i].total \in 0 .. StreamBytes /\ s[i].buf \in Nat /\ s[i].steady \in Nat
      /\ now \in Nat /\ SteadyFrom \in Nat
      /\ UNCHANGED <<t, phase, results, figure, now, start, left>>
  <2>1. UNCHANGED <<t, phase, results, figure, now, start, left>>
    BY DEF Read, ReadFails, ReadCut, clock, barrier
  <2>2. s[i].pc = "ready" /\ phase = "read"
    BY DEF Read, ReadFails, ReadCut
  <2> QED BY <2>1, <2>2, SizesAssumption
      DEF IInv, Stands, MInv, Bounded, Shape, SteadyFrom
(* What becomes of the stream that has read n units.                        *)
<1>1. ASSUME NEW n \in Nat, n <= s[i].buf, s[i].total + n <= StreamBytes,
             NEW r \in Shape, s' = [s EXCEPT ![i] = r],
             LET c == Counted(s[i], n)
             IN  /\ r.size = c.size /\ r.steady = c.steady /\ r.total = c.total
                 /\ r.steadyStart = c.steadyStart /\ r.end = c.end
                 /\ r.buf = c.buf - n \/ (r.pc = "ended" /\ r.buf <= c.buf)
      PROVE  MInv'
  <2> DEFINE c == Counted(s[i], n)
  <2>1. /\ c \in Shape /\ Within(c) /\ c.end = now /\ c.buf = s[i].buf
        /\ SteadyFrom <= now =>
             /\ c.steadyStart = IF s[i].steadyStart = 0 THEN now ELSE s[i].steadyStart
             /\ c.steady = s[i].steady + n
        /\ ~(SteadyFrom <= now) =>
             c.steady = s[i].steady /\ c.steadyStart = s[i].steadyStart
    BY <1>0, <1>1, CountedFields
  <2>2. /\ r.size = c.size /\ r.steady = c.steady /\ r.total = c.total
        /\ r.steadyStart = c.steadyStart /\ r.end = c.end
        /\ r.buf = c.buf - n \/ (r.pc = "ended" /\ r.buf <= c.buf)
    BY <1>1
  <2> HIDE DEF c
  <2>3. r.buf <= Window
    <3>1. s[i].buf <= Window /\ Window \in Nat
      BY <1>0, SizesAssumption DEF Within
    <3>2. n \in Nat /\ r.buf \in Nat
      BY <1>1 DEF Shape
    <3>3. r.buf <= s[i].buf
      BY <1>0, <2>1, <2>2, <3>2
    <3> QED BY <1>0, <3>1, <3>2, <3>3
  <2>4. Within(r)
    BY <2>1, <2>2, <2>3 DEF Within
  <2>5. SteadyFrom <= now => r.steady + Held(r) <= s[i].steady + Held(s[i])
    BY <1>0, <1>1, <2>1, <2>2 DEF Held
  <2>6. /\ r.end = now
        /\ SteadyFrom <= now =>
             r.steadyStart = IF s[i].steadyStart = 0 THEN now ELSE s[i].steadyStart
        /\ now < SteadyFrom =>
             r.steady = s[i].steady /\ r.steadyStart = s[i].steadyStart
    BY <1>0, <2>1, <2>2
  <2> QED BY <1>0, <1>1, <2>4, <2>5, <2>6, CountedKeeps
<1>2. CASE Read(i)
  <2> DEFINE n == Least(s[i].buf, Allowance(i))
             c == Counted(s[i], n)
             r == [c EXCEPT !.buf = @ - n]
             e == IF StreamBytes <= r.total THEN Ended(r, "cap", FALSE)
                  ELSE IF r.total = r.size  THEN Ended(r, "eof", FALSE)
                  ELSE IF Timeout <= now    THEN Ended(r, "time", FALSE)
                  ELSE r
  <2>1. n \in Nat /\ n <= s[i].buf /\ s[i].total + n <= StreamBytes
    BY <1>0, SizesAssumption DEF Least, Allowance
  <2>2. s' = [s EXCEPT ![i] = e]
    BY <1>2 DEF Read
  <2>3. c \in Shape /\ c.buf = s[i].buf
    BY <1>0, <2>1, CountedFields
  <2>4. /\ r \in Shape /\ r.size = c.size /\ r.steady = c.steady /\ r.total = c.total
        /\ r.steadyStart = c.steadyStart /\ r.end = c.end /\ r.buf = c.buf - n
    <3> HIDE DEF c, n
    <3> QED BY <1>0, <2>1, <2>3 DEF Shape
  <2>5. /\ e \in Shape /\ e.size = r.size /\ e.steady = r.steady /\ e.total = r.total
        /\ e.steadyStart = r.steadyStart /\ e.end = r.end /\ e.buf = r.buf
    <3> HIDE DEF r, n
    <3> QED BY <2>4 DEF Ended, Shape
  <2> HIDE DEF e, r, n
  <2> QED BY <1>1, <2>1, <2>2, <2>4, <2>5 DEF c
<1>3. CASE ReadFails(i) \/ ReadCut(i)
  <2> DEFINE c == Counted(s[i], 0)
  <2>1. PICK reason \in {"broken", "cancelled", "time"}, failed \in BOOLEAN :
          s' = [s EXCEPT ![i] = Ended(c, reason, failed)]
    <3>1. CASE ReadFails(i)
      BY <3>1 DEF ReadFails
    <3>2. CASE ReadCut(i)
      <4>1. s' = [s EXCEPT ![i] = Ended(c, IF parentDone THEN "cancelled" ELSE "time",
                                        ~DesignedEnd)]
        BY <3>2 DEF ReadCut
      <4> HIDE DEF c
      <4>2. PICK failed \in BOOLEAN : failed = ~DesignedEnd
        BY DEF DesignedEnd
      <4> QED BY <4>1, <4>2
    <3> QED BY <1>3, <3>1, <3>2
  <2>2. s[i].total + 0 <= StreamBytes
    BY <1>0
  <2>3. c \in Shape /\ c.buf = s[i].buf
    BY <1>0, <2>2, CountedFields
  <2> DEFINE e == Ended(c, reason, failed)
  <2>4. /\ e \in Shape /\ e.size = c.size /\ e.steady = c.steady /\ e.total = c.total
        /\ e.steadyStart = c.steadyStart /\ e.end = c.end /\ e.buf = c.buf
    <3> HIDE DEF c
    <3> QED BY <2>3 DEF Ended, Shape
  <2>5. s' = [s EXCEPT ![i] = e]
    BY <2>1
  <2> HIDE DEF e
  <2>6. 0 <= s[i].buf /\ (e.buf = c.buf - 0)
    <3> HIDE DEF c
    <3> QED BY <1>0, <2>3, <2>4
  <2> QED BY <1>1, <2>2, <2>4, <2>5, <2>6 DEF c
<1> QED BY <1>2, <1>3

-----------------------------------------------------------------------------
(* The sums and the extremes that Measured takes. *)

LEMMA TotalIsNatural == s \in [Streams -> Shape] => Total \in Nat
<1> SUFFICES ASSUME s \in [Streams -> Shape] PROVE Total \in Nat
  OBVIOUS
<1> DEFINE f == [i \in Streams |-> s[i].total]
           Step(g) == g = [part \in SUBSET Streams |->
                             IF part = {} THEN 0
                             ELSE s[CHOOSE x \in part : TRUE].total
                                    + g[part \ {CHOOSE x \in part : TRUE}]]
           iter == CHOOSE iter : Step(iter)
<1>1. PICK h : Sums(h, f, Streams)
  BY SumsExist, StreamsAssumption
<1>2. \A g : Step(g) <=> Sums(g, f, Streams)
  <2> TAKE g
  <2>1. \A part \in SUBSET Streams :
          part # {} => f[Pick(part)] = s[CHOOSE x \in part : TRUE].total
    BY DEF Pick
  <2> HIDE DEF f
  <2> QED BY <2>1 DEF Sums, Pick
<1>3. Total = iter[Streams]
  BY DEF Total, MapThenSumSet, MapThenFoldSet
<1>4. Step(iter)
  <2>1. Step(h)
    BY <1>1, <1>2
  <2> HIDE DEF Step
  <2> QED BY <2>1
<1>5. Sums(iter, f, Streams)
  BY <1>2, <1>4
<1>6. \A i \in Streams : f[i] \in Nat
  BY DEF Shape
<1> HIDE DEF f, iter
<1> QED BY <1>3, <1>5, <1>6, SumIsNatural, StreamsAssumption

LEMMA SteadyBytesAreSteady ==
  ASSUME s \in [Streams -> Shape], \A i \in Streams : Within(s[i])
  PROVE  SteadyBytes = Steady(s)
<1> DEFINE f == [i \in Streams |-> s[i].steady]
           Step(g) == g = [part \in SUBSET Streams |->
                             IF part = {} THEN 0
                             ELSE s[CHOOSE x \in part : TRUE].steady
                                    + g[part \ {CHOOSE x \in part : TRUE}]]
           iter == CHOOSE iter : Step(iter)
<1>1. PICK h : Sums(h, f, Streams)
  BY SumsExist, StreamsAssumption
<1>2. \A g : Step(g) <=> Sums(g, f, Streams)
  <2> TAKE g
  <2>1. \A part \in SUBSET Streams :
          part # {} => f[Pick(part)] = s[CHOOSE x \in part : TRUE].steady
    BY DEF Pick
  <2> HIDE DEF f
  <2> QED BY <2>1 DEF Sums, Pick
<1>3. SteadyBytes = iter[Streams]
  BY DEF SteadyBytes, MapThenSumSet, MapThenFoldSet
<1>4. Step(iter)
  <2>1. Step(h)
    BY <1>1, <1>2
  <2> HIDE DEF Step
  <2> QED BY <2>1
<1>5. Sums(iter, f, Streams)
  BY <1>2, <1>4
<1>6. f \in [Streams -> 0 .. Most]
  BY HeldFits
<1>7. Steady(s) = Amount(f, Streams, Most)
  BY DEF Steady
<1> HIDE DEF f, iter
<1> QED BY <1>3, <1>5, <1>6, <1>7, SumIsAmount, MostIsNatural

LEMMA MinIsLeast ==
  ASSUME NEW T \in SUBSET Nat, T # {}
  PROVE  Min(T) \in T /\ \A x \in T : Min(T) <= x
BY SmallestNumber DEF Min

LEMMA MaxIsGreatest ==
  ASSUME NEW n \in Nat, NEW T \in SUBSET (0 .. n), T # {}
  PROVE  Max(T) \in T /\ \A x \in T : x <= Max(T)
<1> DEFINE Slack == {n - x : x \in T}
<1>1. Slack \in SUBSET Nat /\ Slack # {}
  <2>1. \A x \in T : x \in 0 .. n /\ n - x \in Nat
    OBVIOUS
  <2>2. Slack # {}
    OBVIOUS
  <2> QED BY <2>1, <2>2
<1> HIDE DEF Slack
<1>2. PICK y \in Slack : \A z \in Slack : y <= z
  BY <1>1, SmallestNumber
<1>3. PICK x \in T : y = n - x
  BY <1>2 DEF Slack
<1>4. ASSUME NEW z \in T PROVE z <= x
  <2>1. y <= n - z
    BY <1>2 DEF Slack
  <2> QED BY <1>3, <2>1
<1>5. \E x1 \in T : \A z \in T : x1 >= z
  BY <1>4
<1> QED BY <1>5 DEF Max

-----------------------------------------------------------------------------
(* The steps of sampleOne. *)

(* The outcome of one target is written down, and the next one is begun.    *)
LEMMA OutcomeMeters ==
  ASSUME IInv, MInv, phase # "done",
         NEW o \in {"no_time", "no_budget", "unsupported", "error", "measured"},
         Outcome(o), UNCHANGED <<now, left, start, s>>, FigureOK'
  PROVE  MInv'
<1>1. t \in Each /\ phase' \in {"done", "begin"} /\ results' = [results EXCEPT ![t] = o]
      /\ t' = IF t = Len(Targets) THEN t ELSE t + 1
  BY DEF IInv, Stands, Outcome
<1>2. t' \in 1 .. Len(Targets) + 1
  BY <1>1, EachIsInterval
<1>3. results' \in [Each -> {"none", "no_time", "no_budget", "unsupported", "error", "measured"}]
  BY <1>1 DEF MInv, Bounded
<1>4. Bounded'
  BY <1>2, <1>3 DEF MInv, Bounded, Within
<1>5. Metered'
  BY <1>1 DEF Metered
<1> QED BY <1>4, <1>5 DEF MInv

LEMMA CheckTimeMeters == ASSUME IInv, MInv, CheckTime PROVE MInv'
<1>1. /\ phase = "begin" /\ figure' = NoFigure /\ now' = 0 /\ left' = Capacity
      /\ start' = 0 /\ \A i \in Streams : s'[i] = NewStream
  BY DEF CheckTime
<1>2. \A i \in Streams : Within(s[i])'
  BY <1>1, SizesAssumption DEF Within, NewStream
<1>3. FigureOK'
  BY <1>1 DEF FigureOK, SteadyWithinCapacity, NoFigure
<1>4. Unmeasured' /\ phase' # "read"
  BY <1>1 DEF Unmeasured, NewStream, CheckTime, Outcome
<1>5. Metered'
  BY <1>4 DEF Metered
<1>6. t' \in 1 .. Len(Targets) + 1
      /\ results' \in [Each -> {"none", "no_time", "no_budget", "unsupported", "error", "measured"}]
  <2>1. t \in Each
    BY <1>1 DEF IInv, Stands
  <2> QED BY <2>1, EachIsInterval DEF CheckTime, Outcome, MInv, Bounded
<1>7. Bounded'
  BY <1>1, <1>2, <1>6, SizesAssumption DEF Bounded
<1> QED BY <1>3, <1>5, <1>7 DEF MInv

LEMMA ReserveMeters ==
  ASSUME IInv, MInv, NEW reply \in Replies, NEW counted \in BOOLEAN, Reserve(reply, counted)
  PROVE  MInv'
<1>1. phase = "reserve" /\ UNCHANGED <<figure, now, left, start, s>>
  BY DEF Reserve, clock, barrier
<1>2. FigureOK'
  BY <1>1 DEF MInv, FigureOK, SteadyWithinCapacity
<1>3. CASE reply = "granted"
  <2>1. phase' = "setup" /\ UNCHANGED <<t, results>>
    BY <1>3 DEF Reserve, AfterReserve
  <2>2. Bounded'
    BY <1>1, <2>1 DEF MInv, Bounded, Within
  <2>3. Metered'
    BY <1>1, <2>1 DEF MInv, Metered, Unmeasured
  <2> QED BY <1>2, <2>2, <2>3 DEF MInv
<1>4. CASE reply # "granted"
  <2>1. \E o \in {"no_budget", "unsupported", "error"} : Outcome(o)
    BY <1>4 DEF Reserve, AfterReserve, Replies
  <2> QED BY <1>1, <1>2, <2>1, OutcomeMeters
<1> QED BY <1>3, <1>4

(* The warmup has not passed when the gun is fired.                         *)
LEMMA FireMeters == ASSUME IInv, MInv, Fire PROVE MInv'
<1>1. /\ phase = "setup" /\ phase' = "read" /\ start' = now
      /\ UNCHANGED <<t, results, figure, now, left, s>>
  BY DEF Fire, clock
<1>2. Bounded'
  BY <1>1 DEF MInv, Bounded, Within, IInv, Stands
<1>3. now' < SteadyFrom' /\ ~(SteadyFrom' <= now')
  BY <1>1, SizesAssumption DEF SteadyFrom, IInv, Stands
<1>4. Unmeasured' /\ \A i \in Streams : s'[i].steady = 0
  BY <1>1 DEF MInv, Metered, Unmeasured
<1>5. Metered'
  BY <1>1, <1>3, <1>4 DEF Metered
<1> QED BY <1>1, <1>2, <1>5 DEF MInv, FigureOK, SteadyWithinCapacity

(* The figure: what is counted as steady was carried between the first      *)
(* steady read of some stream and the last read of some stream.             *)
LEMMA MeasuredFits ==
  ASSUME IInv, MInv, phase = "read"
  PROVE  /\ Measured.bytes \in Nat /\ Measured.elapsed \in Nat
         /\ Measured.warm \in BOOLEAN
         /\ Measured.warm => Measured.bytes <= Capacity * (Measured.elapsed + 1)
<1> DEFINE ends == {s[i].end : i \in Streams}
<1>0. /\ s \in [Streams -> Shape] /\ \A i \in Streams : Within(s[i])
      /\ now \in Nat /\ start \in Nat /\ Capacity \in Nat
  BY SizesAssumption DEF IInv, Stands, MInv, Bounded
<1>1. /\ \A i \in Streams : s[i].end \in 0 .. now /\ s[i].end \in Nat
      /\ \A i \in Streams : s[i].steadyStart \in Nat /\ s[i].steady \in Nat
  BY <1>0 DEF Shape, Within
<1>2. WindowEnd \in Nat /\ \A i \in Streams : s[i].end <= WindowEnd
  <2>1. ends \in SUBSET (0 .. now) /\ ends # {}
    BY <1>1, StreamsAssumption
  <2> HIDE DEF ends
  <2>2. Max(ends) \in ends /\ \A x \in ends : x <= Max(ends)
    BY <1>0, <2>1, MaxIsGreatest
  <2>3. Max(ends) \in Nat
    <3>1. Max(ends) \in 0 .. now
      BY <2>1, <2>2
    <3> HIDE DEF ends
    <3> QED BY <1>0, <3>1
  <2> QED BY <2>2, <2>3 DEF WindowEnd, ends
<1>3. SteadyBytes = Steady(s) /\ SteadyBytes \in Nat /\ Total \in Nat
  BY <1>0, SteadyBytesAreSteady, SteadyWithinLoad, TotalIsNatural
<1>4. SteadyStarts \in SUBSET Nat
  BY <1>1 DEF SteadyStarts
<1>5. CASE Measured = NoFigure
  BY <1>5, <1>0 DEF NoFigure
<1>6. CASE Measured = [bytes |-> Total, elapsed |-> WindowEnd - start, warm |-> FALSE]
           /\ start < WindowEnd
  <2>1. WindowEnd - start \in Nat
    BY <1>0, <1>2, <1>6
  <2> QED BY <1>3, <1>6, <2>1
<1>7. CASE /\ SteadyStarts # {} /\ Min(SteadyStarts) < WindowEnd /\ SteadyBytes > 0
           /\ Measured = [bytes |-> SteadyBytes, elapsed |-> WindowEnd - Min(SteadyStarts),
                          warm |-> TRUE]
  <2>1. Min(SteadyStarts) \in Nat /\ \A x \in SteadyStarts : Min(SteadyStarts) <= x
    BY <1>4, <1>7, MinIsLeast
  <2>2. WindowEnd - Min(SteadyStarts) \in Nat
    BY <1>2, <1>7, <2>1
  <2>3. ~(\A i \in Streams : s[i].steady = 0)
    <3> SUFFICES ASSUME \A i \in Streams : s[i].steady = 0 PROVE Steady(s) = 0
      BY <1>3, <1>7
    <3> QED BY AmountOfNothing, MostIsNatural DEF Steady
  <2>4. PICK j \in Streams, i \in Streams :
          /\ s[i].steadyStart # 0
          /\ Steady(s) <= Capacity * (s[j].end - s[i].steadyStart + 1)
    BY <2>3 DEF MInv, Metered, Carried
  <2> DEFINE from == s[i].steadyStart
             last == s[j].end
             longest == WindowEnd - Min(SteadyStarts) + 1
  <2>5. Min(SteadyStarts) <= from /\ last <= WindowEnd /\ from \in Nat /\ last \in Nat
    <3>1. from \in SteadyStarts
      BY <2>4 DEF SteadyStarts
    <3> QED BY <1>1, <1>2, <2>1, <3>1
  <2>6. PICK more \in Nat : longest = (last - from + 1) + more
    <3>1. longest - (last - from + 1) \in Nat
      <4> HIDE DEF from, last
      <4> QED BY <1>2, <2>1, <2>5
    <3>2. longest = (last - from + 1) + (longest - (last - from + 1))
      <4> HIDE DEF from, last
      <4> QED BY <1>2, <2>1, <2>5
    <3> QED BY <3>1, <3>2
  <2>7. Capacity * longest = Capacity * (last - from + 1) + Capacity * more
        /\ Capacity * more \in Nat /\ Capacity * (last - from + 1) \in Int
    <3> HIDE DEF longest, last, from
    <3> QED BY <1>0, <2>5, <2>6
  <2>8. SteadyBytes <= Capacity * longest
    <3>1. SteadyBytes <= Capacity * (last - from + 1)
      BY <1>3, <2>4
    <3> HIDE DEF longest, last, from
    <3> QED BY <1>3, <2>7, <3>1
  <2>9. Measured.elapsed + 1 = longest /\ Measured.bytes = SteadyBytes
    BY <1>7
  <2> HIDE DEF longest
  <2> QED BY <1>3, <1>7, <2>2, <2>8, <2>9
<1> QED BY <1>5, <1>6, <1>7 DEF Measured

LEMMA FinishMeters == ASSUME IInv, MInv, Finish PROVE MInv'
<1>1. phase = "read" /\ UNCHANGED <<now, left, start, s>> /\ figure' = Measured
  BY DEF Finish, clock, barrier
<1>2. FigureOK'
  BY <1>1, MeasuredFits DEF FigureOK, SteadyWithinCapacity
<1>3. CASE Measured = NoFigure
  BY <1>1, <1>2, <1>3, OutcomeMeters DEF Finish
<1>4. CASE Measured # NoFigure
  <2>1. phase' = "submit" /\ UNCHANGED <<t, results>>
    BY <1>4 DEF Finish
  <2>2. Bounded'
    BY <1>1, <2>1 DEF MInv, Bounded, Within
  <2>3. Metered'
    BY <2>1 DEF Metered
  <2> QED BY <1>2, <2>2, <2>3 DEF MInv
<1> QED BY <1>3, <1>4

LEMMA SubmitMeters ==
  ASSUME IInv, MInv, NEW accepted \in BOOLEAN, Submit(accepted)
  PROVE  MInv'
<1>1. /\ phase = "submit" /\ \E o \in {"measured", "error"} : Outcome(o)
      /\ UNCHANGED <<figure, now, left, start, s>>
  BY DEF Submit, clock, barrier
<1>2. FigureOK'
  BY <1>1 DEF MInv, FigureOK, SteadyWithinCapacity
<1> QED BY <1>1, <1>2, OutcomeMeters

(* Every ready stream has been read dry when time passes, and the link may  *)
(* carry Capacity more.                                                     *)
LEMMA TickMeters == ASSUME IInv, MInv, Tick PROVE MInv'
<1>0. /\ phase \in {"setup", "read"} /\ now < Timeout /\ now' = now + 1
      /\ left' = Capacity /\ now \in Nat /\ left \in 0 .. Capacity
      /\ Capacity \in Nat \ {0} /\ Timeout \in Nat
      /\ UNCHANGED <<t, phase, results, figure, start, abort, s>>
      /\ s \in [Streams -> Shape] /\ \A i \in Streams : Within(s[i])
  BY SizesAssumption DEF Tick, barrier, IInv, Stands, MInv, Bounded
<1>1. \A i \in Streams : s[i].end \in Nat /\ s[i].steadyStart \in Nat
  BY <1>0 DEF Shape
<1>2. Bounded'
  <2>1. now' <= Timeout /\ start' <= now'
    BY <1>0 DEF MInv, Bounded, IInv, Stands
  <2>2. \A i \in Streams : Within(s[i])'
    BY <1>0, <1>1 DEF Within
  <2> QED BY <1>0, <2>1, <2>2 DEF MInv, Bounded
<1>3. SteadyFrom' = SteadyFrom /\ SteadyFrom \in Nat
  BY <1>0, SizesAssumption DEF SteadyFrom, IInv, Stands
<1>4. Steady(s') = Steady(s) /\ Load(s') = Load(s) /\ (Unmeasured => Unmeasured')
  BY <1>0 DEF Steady, Load, Unmeasured
<1>5. ASSUME phase = "read" PROVE Load(s) = Steady(s)
  <2>1. \A i \in Streams : Held(s[i]) = 0
    <3> SUFFICES ASSUME NEW i \in Streams, s[i].pc = "ready" PROVE s[i].buf = 0
      BY DEF Held
    <3>1. ~(s[i].buf > 0) /\ s[i].buf \in Nat
      BY <1>0, <1>5 DEF Tick, Due, Shape
    <3> QED BY <3>1
  <2>2. \A i \in Streams : s[i].steady + Held(s[i]) = s[i].steady
    BY <1>0, <2>1 DEF Shape
  <2>3. [i \in Streams |-> s[i].steady + Held(s[i])] = [i \in Streams |-> s[i].steady]
    BY <2>2
  <2> QED BY <2>3 DEF Load, Steady
<1>6. ASSUME Unmeasured PROVE Steady(s) = 0
  BY <1>6, AmountOfNothing, MostIsNatural DEF Steady, Unmeasured
<1>7. Steady(s) \in Nat /\ Load(s) \in Nat
  BY <1>0, SteadyWithinLoad
<1>8. ASSUME phase = "read", SteadyFrom <= now'
      PROVE  \/ Unmeasured' /\ Load(s') + left' <= Capacity
             \/ Carried(Load(s) + left, now)'
  <2>1. CASE Unmeasured
    <3>1. Load(s') + left' <= Capacity
      BY <1>0, <1>4, <1>5, <1>6, <1>8, <2>1
    <3> QED BY <1>4, <2>1, <3>1
  <2>2. CASE ~Unmeasured
    <3>1. Carried(Load(s) + left, now)
      BY <1>0, <1>3, <1>8, <2>2 DEF MInv, Metered
    <3>2. PICK i \in Streams :
            /\ s[i].steadyStart # 0
            /\ Load(s) + left <= Capacity * (now - s[i].steadyStart + 1)
      BY <3>1 DEF Carried
    <3>3. Capacity * (now' - s[i].steadyStart + 1)
            = Capacity * (now - s[i].steadyStart + 1) + Capacity
          /\ Capacity * (now - s[i].steadyStart + 1) \in Int
      BY <1>0, <1>1
    <3>4. Load(s') + left' <= Capacity * (now' - s'[i].steadyStart + 1)
      BY <1>0, <1>4, <1>7, <3>2, <3>3
    <3> QED BY <1>0, <3>2, <3>4 DEF Carried
  <2> QED BY <2>1, <2>2
<1>9. ASSUME phase = "read", now' < SteadyFrom PROVE Unmeasured'
  BY <1>0, <1>3, <1>4, <1>9 DEF MInv, Metered
<1>10. ASSUME phase = "read"
       PROVE  \/ \A i \in Streams : s'[i].steady = 0
              \/ \E j \in Streams : Carried(Steady(s), s[j].end)'
  BY <1>0, <1>4, <1>10 DEF MInv, Metered, Carried
<1>11. Metered'
  BY <1>0, <1>3, <1>4, <1>8, <1>9, <1>10 DEF MInv, Metered
<1> QED BY <1>0, <1>2, <1>11 DEF MInv, FigureOK, SteadyWithinCapacity

LEMMA MetersInit == Init => MInv
<1> SUFFICES ASSUME Init PROVE MInv
  OBVIOUS
<1>1. Bounded
  <2>1. t \in 1 .. Len(Targets) + 1
    BY EachIsInterval DEF Init
  <2>2. \A i \in Streams : Within(s[i])
    BY SizesAssumption DEF Init, Within, NewStream
  <2> QED BY <2>1, <2>2, SizesAssumption DEF Init, Bounded
<1>2. Metered /\ FigureOK
  BY DEF Init, Metered, FigureOK, SteadyWithinCapacity, NoFigure
<1> QED BY <1>1, <1>2 DEF MInv

LEMMA MetersNext == IInv /\ MInv /\ [Next]_vars => MInv'
<1> SUFFICES ASSUME IInv, MInv, [Next]_vars PROVE MInv'
  OBVIOUS
<1>1. ASSUME NEW i \in Streams, Stream(i) PROVE MInv'
  BY <1>1, ArriveMeters, ReadMeters DEF Stream
<1>2. ASSUME NEW reply \in Replies, NEW counted \in BOOLEAN, Reserve(reply, counted)
      PROVE  MInv'
  BY <1>2, ReserveMeters
<1>3. ASSUME NEW accepted \in BOOLEAN, Submit(accepted) PROVE MInv'
  BY <1>3, SubmitMeters
<1>4. CASE Signal \/ Done \/ UNCHANGED vars
  <2>1. UNCHANGED <<t, phase, results, figure, now, left, start, s>>
    BY <1>4 DEF Signal, Done, vars, clock, barrier
  <2>2. Bounded'
    BY <2>1 DEF MInv, Bounded, Within
  <2>3. Metered'
    BY <2>1 DEF MInv, Metered, Unmeasured, Carried, Load, Steady, SteadyFrom
  <2>4. FigureOK'
    BY <2>1 DEF MInv, FigureOK, SteadyWithinCapacity
  <2> QED BY <2>2, <2>3, <2>4 DEF MInv
<1> QED BY <1>1, <1>2, <1>3, <1>4, CheckTimeMeters, FireMeters, FinishMeters, TickMeters
    DEF Next

LEMMA Meters == Spec => []MInv
BY MetersInit, MetersNext, Invariant, PTL DEF Spec

-----------------------------------------------------------------------------
(* Every variable of a sampling has its type: no stream reads past its cap, *)
(* no buffer is overfull, no instant is later than the timeout.             *)
THEOREM BandwidthTyped == Spec => []TypeOK
<1>1. ASSUME IInv, MInv PROVE TypeOK
  <2>1. ASSUME NEW i \in Streams PROVE s[i] \in StreamState
    <3>1. s[i] \in Shape /\ Within(s[i]) /\ now \in Nat /\ now <= Timeout
      BY <1>1 DEF IInv, Stands, MInv, Bounded
    <3> QED BY <3>1, SizesAssumption DEF Shape, Within, StreamState
  <2>2. s \in [Streams -> StreamState]
    BY <1>1, <2>1 DEF IInv, Stands
  <2>3. now \in 0 .. Timeout /\ start \in 0 .. Timeout
    BY <1>1, SizesAssumption DEF IInv, Stands, MInv, Bounded
  <2> QED BY <1>1, <2>2, <2>3 DEF TypeOK, IInv, Stands, MInv, Bounded, FigureOK
<1> QED BY <1>1, Invariant, Meters, PTL

(* The steady rate is one that the link has carried, for any number of      *)
(* streams, of any sizes, whichever of them stall, fail or end first.       *)
THEOREM SteadyIsCarried == Spec => []SteadyWithinCapacity
<1>1. MInv => SteadyWithinCapacity
  BY DEF MInv, FigureOK
<1> QED BY <1>1, Meters, PTL

(* No unit is read through a tunnel that the fleet's budget was not charged *)
(* for, for any number of streams and any sizes.                            *)
THEOREM EverythingIsPaidFor == Spec => []PaidFor
<1>1. IInv => PaidFor
  BY DEF IInv, Accounted
<1> QED BY <1>1, Invariant, PTL

(* A figure is of all its streams, each drained as it was meant to be.      *)
THEOREM FiguresAreOfTheLink == Spec => []FigureIsOfTheLink
<1>1. IInv => FigureIsOfTheLink
  <2> SUFFICES ASSUME IInv, figure # NoFigure, NEW i \in Streams
               PROVE  s[i].why \in {"cap", "eof", "time"}
    BY DEF FigureIsOfTheLink
  <2>1. \A j \in Streams : s[j].pc = "ended" /\ ~s[j].err
    BY DEF IInv, Orderly
  <2>2. ~abort
    BY <2>1 DEF IInv, Orderly
  <2> QED BY <2>1, <2>2 DEF IInv, Orderly, StreamOK
<1> QED BY <1>1, Invariant, PTL

(* No response body is left open in a tunnel that is used again.            *)
THEOREM BodiesAreClosed == Spec => []NoBodyLeftOpen
<1>1. IInv => NoBodyLeftOpen
  BY DEF IInv, Orderly, StreamOK, NoBodyLeftOpen
<1> QED BY <1>1, Invariant, PTL

-----------------------------------------------------------------------------
(* The safety half of SampleReturns.                                        *)

(* Every stream is through its request before the gun, and one that has not *)
(* ended has room under its cap: it can read what is in its buffer.         *)
Draining ==
  /\ phase = "read" => \A i \in Streams : s[i].pc # "opening"
  /\ \A i \in Streams : s[i].pc # "ended" => s[i].total < StreamBytes

StepRank == [begin |-> 0, reserve |-> 1, setup |-> 2, read |-> 3, submit |-> 4,
             done |-> 5]
StreamRank == [opening |-> 0, ready |-> 1, ended |-> 2]

LaterStep ==
  \/ t < t'
  \/ t' = t /\ StepRank[phase] < StepRank[phase']
Nearer(i) ==
  /\ s' = [s EXCEPT ![i] = s'[i]]
  /\ \/ StreamRank[s[i].pc] < StreamRank[s'[i].pc]
     \/ s'[i].pc = s[i].pc /\ s[i].total < s'[i].total /\ left' = left
     \/ s'[i].pc = s[i].pc /\ s'[i].total = s[i].total /\ left' < left

(* A sampling is on its way to its end: a step changes nothing of it, or    *)
(* takes it on, or lets time pass up to the timeout, or takes one stream on,*)
(* has it read something under its cap or uses up some of what the link     *)
(* carries in this instant.                                                 *)
SampleGoesForward ==
  [][\/ UNCHANGED <<t, phase, now, left, s>>
     \/ LaterStep
     \/ UNCHANGED <<t, phase, s>> /\ now' = now + 1 /\ now' <= Timeout
     \/ UNCHANGED <<t, phase, now>> /\ \E i \in Streams : Nearer(i)]_vars

(* And it can always go on though no target answers, the link carries       *)
(* nothing and no reply of the server arrives: a stream that holds the      *)
(* others up is overdue, can read or can stop, or else time may pass.       *)
NeedsNobody ==
  \/ phase \in {"begin", "reserve", "submit", "done"}
  \/ phase = "setup" /\ SetUp
  \/ phase = "setup" /\ Over /\ \E i \in Streams : s[i].pc = "opening"
  \/ phase = "read" /\ \A i \in Streams : s[i].pc = "ended"
  \/ phase = "read" /\ \E i \in Streams :
       /\ s[i].pc = "ready"
       /\ abort \/ Over \/ 0 < Least(s[i].buf, Allowance(i)) \/ Undelivered(i) = 0
  \/ phase \in {"setup", "read"} /\ ~Due /\ now < Timeout

LEMMA StepRanks ==
  /\ StepRank["begin"] = 0 /\ StepRank["reserve"] = 1 /\ StepRank["setup"] = 2
  /\ StepRank["read"] = 3 /\ StepRank["submit"] = 4 /\ StepRank["done"] = 5
  /\ StreamRank["opening"] = 0 /\ StreamRank["ready"] = 1 /\ StreamRank["ended"] = 2
BY DEF StepRank, StreamRank

LEMMA EndedIsEnded ==
  ASSUME NEW st \in Shape, NEW reason, NEW failed
  PROVE  Ended(st, reason, failed).pc = "ended"
BY DEF Ended, Shape

(* A read that does not end its stream takes something out of its buffer.   *)
LEMMA ReadGets ==
  ASSUME IInv, Draining, NEW i \in Streams, Read(i)
  PROVE  \/ s'[i].pc = "ended"
         \/ /\ s'[i].pc = "ready" /\ s[i].total < s'[i].total
            /\ s'[i].total < StreamBytes
<1> DEFINE n == Least(s[i].buf, Allowance(i))
           c == Counted(s[i], n)
           r == [c EXCEPT !.buf = @ - n]
           e == IF StreamBytes <= r.total THEN Ended(r, "cap", FALSE)
                ELSE IF r.total = r.size  THEN Ended(r, "eof", FALSE)
                ELSE IF Timeout <= now    THEN Ended(r, "time", FALSE)
                ELSE r
<1>1. s[i] \in Shape /\ s[i].pc = "ready" /\ s[i].total \in 0 .. StreamBytes
      /\ s[i].buf \in Nat /\ s[i].size \in Nat /\ now \in Nat
      /\ s[i].total < StreamBytes /\ s \in [Streams -> Shape]
  BY DEF Read, IInv, Stands, Shape, Draining
<1>2. n \in Nat /\ n <= s[i].buf /\ s[i].total + n <= StreamBytes
      /\ (n = 0 => s[i].buf = 0)
  BY <1>1, SizesAssumption DEF Least, Allowance
<1>3. c \in Shape /\ c.total = s[i].total + n /\ c.pc = "ready" /\ c.buf = s[i].buf
  BY <1>1, <1>2, CountedShape
<1>4. c.size = s[i].size
  <2> DEFINE a == IF SteadyFrom <= now /\ s[i].steadyStart = 0 THEN now
                  ELSE s[i].steadyStart
             b == IF SteadyFrom <= now THEN s[i].steady + n ELSE s[i].steady
  <2>1. c = [s[i] EXCEPT !.end = now, !.total = s[i].total + n,
                         !.steadyStart = a, !.steady = b]
    BY DEF Counted
  <2> HIDE DEF a, b, c, n
  <2> QED BY <1>1, <2>1 DEF Shape
<1>5. r \in Shape /\ r.total = s[i].total + n /\ r.pc = "ready" /\ r.size = s[i].size
  <2> HIDE DEF c, n
  <2> QED BY <1>1, <1>2, <1>3, <1>4 DEF Shape
<1>6. s'[i] = e
  BY <1>1 DEF Read
<1>7. n = 0 => r.total = r.size
  <2>1. n > 0 \/ s[i].size - s[i].total - s[i].buf = 0
    BY DEF Read, Undelivered
  <2> HIDE DEF n, r
  <2> QED BY <1>1, <1>2, <1>5, <2>1
<1>8. e.pc = "ended" \/ (e = r /\ r.total # r.size /\ r.total < StreamBytes)
  <2>1. /\ Ended(r, "cap", FALSE).pc = "ended" /\ Ended(r, "eof", FALSE).pc = "ended"
        /\ Ended(r, "time", FALSE).pc = "ended"
    <3> HIDE DEF r
    <3> QED BY <1>5, EndedIsEnded
  <2>2. r.total \in Nat /\ StreamBytes \in Nat
    <3> HIDE DEF r
    <3> QED BY <1>5, SizesAssumption DEF Shape
  <2>3. \/ e \in {Ended(r, "cap", FALSE), Ended(r, "eof", FALSE), Ended(r, "time", FALSE)}
        \/ e = r /\ ~(StreamBytes <= r.total) /\ r.total # r.size
    <3> HIDE DEF r
    <3> QED OBVIOUS
  <2>4. \A a, b \in Nat : ~(b <= a) => a < b
    OBVIOUS
  <2> HIDE DEF r, e
  <2> QED BY <2>1, <2>2, <2>3, <2>4
<1> HIDE DEF n, r, e
<1> QED BY <1>1, <1>2, <1>5, <1>6, <1>7, <1>8

LEMMA StreamMoves ==
  ASSUME IInv, Draining, left \in Nat, NEW i \in Streams, Stream(i)
  PROVE  /\ UNCHANGED <<t, phase, now>> /\ phase \in {"setup", "read"}
         /\ Nearer(i)
         /\ s'[i].pc # "ended" => s'[i].total < StreamBytes
         /\ phase = "read" => s'[i].pc # "opening"
         /\ \A j \in Streams : j # i => s'[j] = s[j]
<1>0. /\ s[i] \in Shape /\ s \in [Streams -> Shape]
      /\ s[i].pc = "ready" => phase \in {"setup", "read"}
      /\ s[i].pc # "ended" => s[i].total < StreamBytes
  BY DEF IInv, Stands, Orderly, Draining
<1>1. UNCHANGED <<t, phase, now>> /\ phase \in {"setup", "read"}
  BY <1>0 DEF Stream, Open, OpenFails, Withdraw, Arrive, Read, ReadFails, ReadCut, clock
<1>2. /\ s' = [s EXCEPT ![i] = s'[i]]
      /\ \/ s[i].pc \in {"opening", "ready"} /\ s'[i].pc = "ended"
         \/ /\ s[i].pc = "opening" /\ s'[i].pc = "ready"
            /\ s'[i].total < StreamBytes
         \/ /\ s[i].pc = "ready" /\ s'[i].pc = "ready" /\ left' = left
            /\ s[i].total < s'[i].total /\ s'[i].total < StreamBytes
         \/ /\ s[i].pc = "ready" /\ s'[i].pc = "ready" /\ left' < left
            /\ s'[i].total = s[i].total
  <2>1. ASSUME NEW size \in Bodies, Open(i, size)
        PROVE  /\ s' = [s EXCEPT ![i] = s'[i]] /\ s[i].pc = "opening"
               /\ s'[i].pc = "ready" /\ s'[i].total < StreamBytes
    <3> DEFINE r == [s[i] EXCEPT !.pc = "ready", !.body = TRUE, !.size = size]
    <3>1. s' = [s EXCEPT ![i] = r] /\ s[i].pc = "opening"
      BY <2>1 DEF Open
    <3>2. r.pc = "ready" /\ r.total = s[i].total
      BY <1>0 DEF Shape
    <3> HIDE DEF r
    <3> QED BY <1>0, <3>1, <3>2
  <2>2. ASSUME NEW reason \in {"refused", "cut"}, OpenFails(i, reason)
        PROVE  /\ s' = [s EXCEPT ![i] = s'[i]] /\ s[i].pc = "opening"
               /\ s'[i].pc = "ended"
    <3> DEFINE r == [s[i] EXCEPT !.pc = "ended", !.err = TRUE, !.why = reason]
    <3>1. s' = [s EXCEPT ![i] = r] /\ s[i].pc = "opening"
      BY <2>2 DEF OpenFails
    <3>2. r.pc = "ended"
      BY <1>0 DEF Shape
    <3> HIDE DEF r
    <3> QED BY <1>0, <3>1, <3>2
  <2>3. ASSUME Withdraw(i)
        PROVE  /\ s' = [s EXCEPT ![i] = s'[i]] /\ s[i].pc = "ready"
               /\ s'[i].pc = "ended"
    <3> DEFINE r == [s[i] EXCEPT !.pc = "ended", !.why = "withdrawn",
                                 !.body = BodyAfterAbort(i)]
    <3>1. s' = [s EXCEPT ![i] = r] /\ s[i].pc = "ready"
      BY <2>3 DEF Withdraw
    <3>2. r.pc = "ended"
      BY <1>0 DEF Shape
    <3> HIDE DEF r
    <3> QED BY <1>0, <3>1, <3>2
  <2>4. ASSUME NEW n \in 1 .. Capacity, Arrive(i, n)
        PROVE  /\ s' = [s EXCEPT ![i] = s'[i]] /\ s[i].pc = "ready"
               /\ s'[i].pc = "ready" /\ left' < left /\ s'[i].total = s[i].total
    <3> DEFINE r == [s[i] EXCEPT !.buf = @ + n]
    <3>1. s' = [s EXCEPT ![i] = r] /\ s[i].pc = "ready" /\ left' = left - n
      BY <2>4 DEF Arrive
    <3>2. r.pc = s[i].pc /\ r.total = s[i].total
      BY <1>0 DEF Shape
    <3>3. left' < left
      BY <3>1, SizesAssumption
    <3> HIDE DEF r
    <3> QED BY <1>0, <3>1, <3>2, <3>3
  <2>5. ASSUME Read(i)
        PROVE  /\ s' = [s EXCEPT ![i] = s'[i]] /\ s[i].pc = "ready" /\ left' = left
               /\ \/ s'[i].pc = "ended"
                  \/ /\ s'[i].pc = "ready" /\ s[i].total < s'[i].total
                     /\ s'[i].total < StreamBytes
    <3>1. s[i].pc = "ready" /\ left' = left
      BY <2>5 DEF Read, clock
    <3>2. s' = [s EXCEPT ![i] = s'[i]]
      BY <1>0, <2>5 DEF Read
    <3> QED BY <2>5, <3>1, <3>2, ReadGets
  <2>6. ASSUME ReadFails(i) \/ ReadCut(i)
        PROVE  /\ s' = [s EXCEPT ![i] = s'[i]] /\ s[i].pc = "ready"
               /\ s'[i].pc = "ended"
    <3>1. PICK reason, failed :
            s' = [s EXCEPT ![i] = Ended(Counted(s[i], 0), reason, failed)]
      BY <2>6 DEF ReadFails, ReadCut
    <3>2. s[i].pc = "ready"
      BY <2>6 DEF ReadFails, ReadCut
    <3>3. Counted(s[i], 0) \in Shape
      <4>1. 0 \in Nat /\ s[i].total + 0 <= StreamBytes /\ now \in Nat
        BY <1>0, SizesAssumption DEF Shape, IInv, Stands
      <4> QED BY <1>0, <4>1, CountedShape
    <3>4. Ended(Counted(s[i], 0), reason, failed).pc = "ended"
      BY <3>3, EndedIsEnded
    <3> QED BY <1>0, <3>1, <3>2, <3>4
  <2>7. CASE \E size \in Bodies : Open(i, size)
    BY <2>1, <2>7
  <2>8. CASE \E reason \in {"refused", "cut"} : OpenFails(i, reason)
    BY <2>2, <2>8
  <2>9. CASE \E n \in 1 .. Capacity : Arrive(i, n)
    BY <2>4, <2>9
  <2> QED BY <2>3, <2>5, <2>6, <2>7, <2>8, <2>9 DEF Stream
<1>3. Nearer(i)
  BY <1>2, StepRanks DEF Nearer
<1>4. s'[i].pc # "ended" => s'[i].total < StreamBytes
  BY <1>0, <1>2
<1>5. /\ phase = "read" => s'[i].pc # "opening"
      /\ \A j \in Streams : j # i => s'[j] = s[j]
  BY <1>0, <1>2
<1> QED BY <1>1, <1>3, <1>4, <1>5

LEMMA DrainingInit == Init => Draining
BY NewShape, SizesAssumption DEF Init, Draining

(* How the steps that are no stream's own leave the streams.                *)
LEMMA OthersMove ==
  ASSUME IInv, MInv,
         \/ CheckTime \/ Fire \/ Finish
         \/ \E reply \in Replies, counted \in BOOLEAN : Reserve(reply, counted)
         \/ \E accepted \in BOOLEAN : Submit(accepted)
  PROVE  /\ LaterStep /\ (phase' = "read" => SetUp)
         /\ s' = s \/ s' = [i \in Streams |-> NewStream]
<1>1. ASSUME NEW o, Outcome(o), phase # "done"
      PROVE  LaterStep /\ phase' # "read"
  <2>1. t \in Nat
    BY <1>1, EachIsInterval DEF IInv, Stands
  <2>2. phase \in {"begin", "reserve", "setup", "read", "submit"}
    BY <1>1 DEF IInv, Stands
  <2> QED BY <1>1, <2>1, <2>2, StepRanks DEF Outcome, LaterStep
<1>2. CASE CheckTime
  BY <1>1, <1>2, StepRanks DEF CheckTime, LaterStep
<1>3. CASE Fire
  BY <1>3, StepRanks DEF Fire, LaterStep
<1>4. CASE Finish
  BY <1>1, <1>4, StepRanks DEF Finish, LaterStep
<1>5. ASSUME NEW reply \in Replies, NEW counted \in BOOLEAN, Reserve(reply, counted)
      PROVE  LaterStep /\ phase' # "read" /\ s' = s
  <2>1. phase = "reserve" /\ s' = s /\ AfterReserve(reply)
    BY <1>5 DEF Reserve
  <2>2. \/ phase' = "setup" /\ t' = t
        \/ \E o : Outcome(o)
    BY <2>1 DEF AfterReserve
  <2> QED BY <1>1, <2>1, <2>2, StepRanks DEF LaterStep
<1>6. ASSUME NEW accepted \in BOOLEAN, Submit(accepted)
      PROVE  LaterStep /\ phase' # "read" /\ s' = s
  BY <1>1, <1>6 DEF Submit
<1> QED BY <1>2, <1>3, <1>4, <1>5, <1>6

LEMMA DrainingNext == IInv /\ MInv /\ Draining /\ [Next]_vars => Draining'
<1> SUFFICES ASSUME IInv, MInv, Draining, [Next]_vars PROVE Draining'
  OBVIOUS
<1>1. CASE \/ CheckTime \/ Fire \/ Finish
           \/ \E reply \in Replies, counted \in BOOLEAN : Reserve(reply, counted)
           \/ \E accepted \in BOOLEAN : Submit(accepted)
  <2>1. /\ phase' = "read" => SetUp
        /\ s' = s \/ s' = [i \in Streams |-> NewStream]
    BY <1>1, OthersMove
  <2>2. phase' = "read" => s' = s
    BY <1>1 DEF CheckTime, Fire, Finish, Reserve, AfterReserve, Submit, Outcome
  <2>3. \A i \in Streams : s'[i].pc # "ended" => s'[i].total < StreamBytes
    BY <2>1, NewShape, SizesAssumption DEF Draining
  <2> QED BY <2>1, <2>2, <2>3 DEF Draining, SetUp
<1>2. ASSUME NEW i \in Streams, Stream(i) PROVE Draining'
  <2>1. left \in Nat
    BY DEF MInv, Bounded
  <2> QED BY <1>2, <2>1, StreamMoves DEF Draining
<1>3. CASE Tick \/ Signal \/ Done \/ UNCHANGED vars
  BY <1>3 DEF Tick, Signal, Done, vars, Draining
<1> QED BY <1>1, <1>2, <1>3 DEF Next

LEMMA DrainingInvariant == Spec => [](IInv /\ MInv /\ Draining)
BY DrainingInit, DrainingNext, Invariant, Meters, PTL DEF Spec

(* A sampling takes finitely many steps, whatever the targets, the link and *)
(* the server do: each of them takes it forward.                            *)
THEOREM SampleIsBounded == Spec => SampleGoesForward
<1> DEFINE forward ==
      \/ UNCHANGED <<t, phase, now, left, s>>
      \/ LaterStep
      \/ UNCHANGED <<t, phase, s>> /\ now' = now + 1 /\ now' <= Timeout
      \/ UNCHANGED <<t, phase, now>> /\ \E i \in Streams : Nearer(i)
<1>1. ASSUME IInv, MInv, Draining, [Next]_vars
      PROVE  forward
  <2>1. CASE \/ CheckTime \/ Fire \/ Finish
             \/ \E reply \in Replies, counted \in BOOLEAN : Reserve(reply, counted)
             \/ \E accepted \in BOOLEAN : Submit(accepted)
    BY <1>1, <2>1, OthersMove
  <2>2. ASSUME NEW i \in Streams, Stream(i) PROVE forward
    <3>1. left \in Nat
      BY <1>1 DEF MInv, Bounded
    <3> QED BY <1>1, <2>2, <3>1, StreamMoves
  <2>3. CASE Tick
    <3>1. UNCHANGED <<t, phase, s>> /\ now' = now + 1 /\ now < Timeout /\ now \in Nat
      BY <1>1, <2>3 DEF Tick, IInv, Stands
    <3>2. now' <= Timeout
      BY <3>1, SizesAssumption
    <3> QED BY <3>1, <3>2
  <2>4. CASE Signal \/ Done \/ UNCHANGED vars
    BY <2>4 DEF Signal, Done, vars, clock
  <2> QED BY <1>1, <2>1, <2>2, <2>3, <2>4 DEF Next
<1>2. IInv /\ MInv /\ Draining /\ [Next]_vars => [forward]_vars
  BY <1>1
<1> QED BY <1>2, DrainingInvariant, PTL DEF Spec, SampleGoesForward

(* And it never has to wait for a target, for the link or for a reply: that *)
(* it returns needs only that its goroutines run and that time passes.      *)
THEOREM SampleIsNeverStuck == Spec => []NeedsNobody
<1>1. ASSUME IInv, MInv, Draining PROVE NeedsNobody
  <2>0. /\ phase \in {"begin", "reserve", "setup", "read", "submit", "done"}
        /\ now \in Nat /\ Timeout \in Nat
        /\ \A i \in Streams : s[i] \in Shape
    BY <1>1, SizesAssumption DEF IInv, Stands
  <2>1. CASE phase = "setup"
    <3>1. CASE Over /\ ~SetUp
      BY <2>1, <3>1 DEF SetUp, NeedsNobody
    <3>2. CASE ~Over /\ ~SetUp
      BY <2>0, <2>1, <3>2 DEF Over, Due, NeedsNobody
    <3> QED BY <2>1, <3>1, <3>2 DEF NeedsNobody
  <2>2. CASE phase = "read"
    <3>1. CASE \A i \in Streams : s[i].pc = "ended"
      BY <2>2, <3>1 DEF NeedsNobody
    <3>2. ASSUME NEW i \in Streams, s[i].pc = "ready",
                 abort \/ Over \/ s[i].buf > 0 \/ Undelivered(i) = 0
          PROVE  NeedsNobody
      <4>1. s[i].buf > 0 => 0 < Least(s[i].buf, Allowance(i))
        <5>1. s[i].total < StreamBytes /\ s[i].total \in Nat /\ s[i].buf \in Nat
          BY <1>1, <2>0, <3>2, SizesAssumption DEF Draining, Shape
        <5> QED BY <5>1, SizesAssumption DEF Least, Allowance
      <4> QED BY <2>2, <3>2, <4>1 DEF NeedsNobody
    <3>3. CASE Due
      BY <2>2, <3>1, <3>2, <3>3 DEF Due
    <3>4. CASE ~Due /\ \E i \in Streams : s[i].pc # "ended"
      <4>1. PICK i \in Streams : s[i].pc # "ended"
        BY <3>4
      <4>2. s[i].pc = "ready"
        BY <1>1, <2>0, <2>2, <4>1 DEF Draining, Shape
      <4>3. ~Over
        BY <2>2, <3>4, <4>2 DEF Due
      <4> QED BY <2>0, <2>2, <3>4, <4>3 DEF Over, NeedsNobody
    <3> QED BY <3>1, <3>3, <3>4
  <2> QED BY <2>0, <2>1, <2>2 DEF NeedsNobody
<1> QED BY <1>1, DrainingInvariant, PTL
=============================================================================
