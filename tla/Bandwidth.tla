------------------------------ MODULE Bandwidth ------------------------------
(***************************************************************************)
(* bandwidth.Sampler over the tunnel of one provider: for each target in   *)
(* turn, budget is reserved at the server, parallel streams are opened,    *)
(* meet at a barrier and are drained against one clock, and the aggregate  *)
(* figure is submitted.                                                    *)
(*                                                                         *)
(* The link carries so many units of data per instant, into the receive    *)
(* buffer of any stream whose response has begun, whether it is read or    *)
(* not.  Time is counted from measureStart and passes only when nothing is *)
(* due: a stream reads what is there, and a deadline that is reached cuts  *)
(* what runs under it, at once.                                            *)
(***************************************************************************)
EXTENDS Integers, Sequences, FiniteSets, FiniteSetsExt

CONSTANTS
  Targets,      (* a sequence, in the order they are measured               *)
  Streams,      (* StreamCount of them                                      *)
  StreamBytes,  (* what each asks for and is capped at                      *)
  Chunk,        (* the size of its read buffer                              *)
  Bodies,       (* the sizes a target may answer with                       *)
  Warmup,       (* WarmupDuration                                           *)
  Timeout,      (* the cap on one measurement; also the bound of the clock  *)
  Capacity,     (* what the link carries in one instant                     *)
  Window        (* the receive buffer of a stream                           *)

ASSUME TargetsAssumption == Targets \in Seq({Targets[i] : i \in DOMAIN Targets})
ASSUME StreamsAssumption == IsFiniteSet(Streams) /\ Streams # {}
ASSUME SizesAssumption ==
  /\ StreamBytes \in Nat \ {0} /\ Chunk \in Nat \ {0} /\ Bodies \subseteq Nat
  /\ Warmup \in Nat \ {0} /\ Timeout \in Nat \ {0}
  /\ Capacity \in Nat \ {0} /\ Window \in Nat \ {0}

VARIABLES
  parentDone,  (* the probe's context is done                               *)
  t,           (* the target at hand, an index into Targets                 *)
  phase,       (* where sampleOne stands, "done" after the last target      *)
  reserved,    (* units the server has granted for each target              *)
  pulled,      (* units read through the tunnel from each target            *)
  results,     (* the outcome of each target                                *)
  figure,      (* the figure of the last measurement, or NoFigure           *)
  now,         (* time since measureStart                                   *)
  left,        (* what the link still carries in this instant               *)
  start,       (* when the gun was fired                                    *)
  abort,       (* a stream had failed by then                               *)
  s            (* the streams                                               *)

clock   == <<now, left>>
barrier == <<start, abort>>
vars == <<parentDone, t, phase, reserved, pulled, results, figure, clock, barrier, s>>

Each == DOMAIN Targets

(* One stream; why is history, err what the code makes of it.               *)
NewStream == [pc |-> "opening", size |-> 0, buf |-> 0, body |-> FALSE, err |-> FALSE,
              total |-> 0, steady |-> 0, steadyStart |-> 0, end |-> 0, why |-> "none"]

NoFigure == [bytes |-> 0, elapsed |-> 0, warm |-> FALSE]

MaxSampleBytesOfOne == StreamBytes
MaxSampleBytes == Cardinality(Streams) * StreamBytes

(* The measurement's context, derived from the probe's.                     *)
Over == parentDone \/ Timeout <= now

Init ==
  /\ parentDone \in BOOLEAN /\ t = 1
  /\ phase = (IF Targets = <<>> THEN "done" ELSE "begin")
  /\ reserved = [i \in Each |-> 0] /\ pulled = [i \in Each |-> 0]
  /\ results = [i \in Each |-> "none"] /\ figure = NoFigure
  /\ now = 0 /\ left = Capacity
  /\ start = 0 /\ abort = FALSE /\ s = [i \in Streams |-> NewStream]

(* The outcome of one target, and on to the next.                           *)
Outcome(o) ==
  /\ results' = [results EXCEPT ![t] = o]
  /\ IF t = Len(Targets) THEN phase' = "done" /\ UNCHANGED t
                         ELSE phase' = "begin" /\ t' = t + 1

-----------------------------------------------------------------------------
(* Budget. *)

CheckTime ==
  /\ phase = "begin"
  /\ figure' = NoFigure /\ now' = 0 /\ left' = Capacity
  /\ start' = 0 /\ abort' = FALSE /\ s' = [i \in Streams |-> NewStream]
  /\ IF parentDone THEN Outcome("no_time")
                   ELSE phase' = "reserve" /\ UNCHANGED <<t, results>>
  /\ UNCHANGED <<parentDone, reserved, pulled>>

Replies == {"granted", "spent", "unsupported", "refused", "lost"}

(* What sampleOne does with the reply of the server, or with none.          *)
AfterReserveAnyError(reply) ==
  CASE reply = "spent"       -> Outcome("no_budget")
    [] reply = "unsupported" -> Outcome("unsupported")
    [] OTHER                 -> phase' = "setup" /\ UNCHANGED <<t, results>>
AfterReserve(reply) ==
  CASE reply = "granted"     -> phase' = "setup" /\ UNCHANGED <<t, results>>
    [] reply = "spent"       -> Outcome("no_budget")
    [] reply = "unsupported" -> Outcome("unsupported")
    [] OTHER                 -> Outcome("error")

(* A reply may be lost after the server has counted the reservation.        *)
Reserve(reply, counted) ==
  /\ phase = "reserve"
  /\ counted = (reply = "granted") \/ reply = "lost"
  /\ reply # "lost" => ~parentDone
  /\ reserved' = IF counted THEN [reserved EXCEPT ![t] = MaxSampleBytes] ELSE reserved
  /\ AfterReserve(reply)
  /\ UNCHANGED <<parentDone, pulled, figure, clock, barrier, s>>

-----------------------------------------------------------------------------
(* The streams, up to the barrier. *)

Open(i, size) ==
  /\ phase = "setup" /\ s[i].pc = "opening" /\ ~Over
  /\ s' = [s EXCEPT ![i].pc = "ready", ![i].body = TRUE, ![i].size = size]
  /\ UNCHANGED <<parentDone, t, phase, reserved, pulled, results, figure, clock, barrier>>

(* No response, or one that is not a 200, whose body is closed at once.     *)
OpenFails(i, reason) ==
  /\ phase = "setup" /\ s[i].pc = "opening" /\ (reason = "cut" => Over)
  /\ s' = [s EXCEPT ![i].pc = "ended", ![i].err = TRUE, ![i].why = reason]
  /\ UNCHANGED <<parentDone, t, phase, reserved, pulled, results, figure, clock, barrier>>

(* Each stream calls setup.Done whatever became of its request.             *)
SetUpIfReady == \A i \in Streams : s[i].pc = "ready"
SetUp == \A i \in Streams : s[i].pc # "opening"

Fire ==
  /\ phase = "setup" /\ SetUp
  /\ phase' = "read"
  /\ start' = now /\ abort' = \E i \in Streams : s[i].err
  /\ UNCHANGED <<parentDone, t, reserved, pulled, results, figure, clock, s>>

BodyAfterAbortLeaking(i) == s[i].body
BodyAfterAbort(i) == FALSE

(* A stream that was ready when another one had failed.                     *)
Withdraw(i) ==
  /\ phase = "read" /\ s[i].pc = "ready" /\ abort
  /\ s' = [s EXCEPT ![i].pc = "ended", ![i].why = "withdrawn",
                    ![i].body = BodyAfterAbort(i)]
  /\ UNCHANGED <<parentDone, t, phase, reserved, pulled, results, figure, clock, barrier>>

-----------------------------------------------------------------------------
(* The transfer. *)

Undelivered(i) == s[i].size - s[i].total - s[i].buf

Arrive(i, n) ==
  /\ s[i].pc = "ready"
  /\ n <= left /\ n <= Undelivered(i) /\ s[i].buf + n <= Window
  /\ left' = left - n
  /\ s' = [s EXCEPT ![i].buf = @ + n]
  /\ UNCHANGED <<parentDone, t, phase, reserved, pulled, results, figure, now, barrier>>

Least(a, b) == IF a < b THEN a ELSE b

AllowanceBuffer(i) == Chunk
Allowance(i) == Least(Chunk, StreamBytes - s[i].total)

(* What a read of n units adds to the stream.                               *)
SteadyFrom == start + Warmup
Counted(st, n) ==
  LET steady == SteadyFrom <= now
  IN  [st EXCEPT !.end = now, !.total = @ + n,
                 !.steadyStart = IF steady /\ @ = 0 THEN now ELSE @,
                 !.steady = IF steady THEN @ + n ELSE @]

Ended(st, reason, failed) ==
  [st EXCEPT !.pc = "ended", !.body = FALSE, !.err = failed, !.why = reason]

(* The loop ends at the cap, at the end of the body, which comes with its   *)
(* last bytes, and at the timeout.                                          *)
Read(i) ==
  LET n == Least(s[i].buf, Allowance(i))
      r == [Counted(s[i], n) EXCEPT !.buf = @ - n]
  IN  /\ phase = "read" /\ s[i].pc = "ready" /\ ~abort
      /\ n > 0 \/ Undelivered(i) = 0
      /\ pulled' = [pulled EXCEPT ![t] = @ + n]
      /\ s' = [s EXCEPT ![i] =
                 IF StreamBytes <= r.total THEN Ended(r, "cap", FALSE)
                 ELSE IF r.total = r.size  THEN Ended(r, "eof", FALSE)
                 ELSE IF Timeout <= now    THEN Ended(r, "time", FALSE)
                 ELSE r]
      /\ UNCHANGED <<parentDone, t, phase, reserved, results, figure, clock, barrier>>

ReadFails(i) ==
  /\ phase = "read" /\ s[i].pc = "ready" /\ ~abort
  /\ s' = [s EXCEPT ![i] = Ended(Counted(s[i], 0), "broken", TRUE)]
  /\ UNCHANGED <<parentDone, t, phase, reserved, pulled, results, figure, clock, barrier>>

(* A read cut by the measurement's own deadline is its designed end; one    *)
(* that is cut because the probe was abandoned is not.                      *)
DesignedEndAnyCut == Over
DesignedEnd == Timeout <= now /\ ~parentDone

ReadCut(i) ==
  /\ phase = "read" /\ s[i].pc = "ready" /\ ~abort /\ Over
  /\ s' = [s EXCEPT ![i] =
             Ended(Counted(s[i], 0), IF parentDone THEN "cancelled" ELSE "time",
                   ~DesignedEnd)]
  /\ UNCHANGED <<parentDone, t, phase, reserved, pulled, results, figure, clock, barrier>>

-----------------------------------------------------------------------------
(* The figure. *)

Total == MapThenSumSet(LAMBDA i : s[i].total, Streams)
SteadyBytes == MapThenSumSet(LAMBDA i : s[i].steady, Streams)
SteadyStarts == {s[i].steadyStart : i \in Streams} \ {0}
WindowEndFirst == Min({s[i].end : i \in Streams})
WindowEnd == Max({s[i].end : i \in Streams})

FailedAll == \A i \in Streams : s[i].err
Failed == \E i \in Streams : s[i].err

Measured ==
  IF Failed \/ Total = 0 THEN NoFigure
  ELSE IF SteadyStarts # {} /\ Min(SteadyStarts) < WindowEnd /\ SteadyBytes > 0
  THEN [bytes |-> SteadyBytes, elapsed |-> WindowEnd - Min(SteadyStarts), warm |-> TRUE]
  ELSE IF start < WindowEnd
  THEN [bytes |-> Total, elapsed |-> WindowEnd - start, warm |-> FALSE]
  ELSE NoFigure

(* done.Wait, and the aggregate. *)
Finish ==
  /\ phase = "read" /\ \A i \in Streams : s[i].pc = "ended"
  /\ figure' = Measured
  /\ IF Measured = NoFigure THEN Outcome("error")
                            ELSE phase' = "submit" /\ UNCHANGED <<t, results>>
  /\ UNCHANGED <<parentDone, reserved, pulled, clock, barrier, s>>

(* Whether the server keeps a row whose reply is lost is not known here.     *)
Submit(accepted) ==
  /\ phase = "submit"
  /\ accepted => ~parentDone
  /\ Outcome(IF accepted THEN "measured" ELSE "error")
  /\ UNCHANGED <<parentDone, reserved, pulled, figure, clock, barrier, s>>

-----------------------------------------------------------------------------
(* What cannot wait. *)
Due ==
  \/ phase = "setup" /\ (SetUp \/ Over)
  \/ phase = "read" /\ \A i \in Streams : s[i].pc = "ended"
  \/ phase = "read" /\ \E i \in Streams :
       s[i].pc = "ready" /\ (abort \/ Over \/ s[i].buf > 0 \/ Undelivered(i) = 0)

Tick ==
  /\ phase \in {"setup", "read"} /\ ~Due /\ now < Timeout
  /\ now' = now + 1 /\ left' = Capacity
  /\ UNCHANGED <<parentDone, t, phase, reserved, pulled, results, figure, barrier, s>>

Signal ==
  /\ phase # "done" /\ ~parentDone /\ parentDone' = TRUE
  /\ UNCHANGED <<t, phase, reserved, pulled, results, figure, clock, barrier, s>>

Done == phase = "done" /\ UNCHANGED vars

Stream(i) ==
  \/ \E size \in Bodies : Open(i, size)
  \/ \E reason \in {"refused", "cut"} : OpenFails(i, reason)
  \/ Withdraw(i)
  \/ \E n \in 1 .. Capacity : Arrive(i, n)
  \/ Read(i) \/ ReadFails(i) \/ ReadCut(i)

Next ==
  \/ CheckTime \/ Fire \/ Finish \/ Tick \/ Signal \/ Done
  \/ \E reply \in Replies, counted \in BOOLEAN : Reserve(reply, counted)
  \/ \E accepted \in BOOLEAN : Submit(accepted)
  \/ \E i \in Streams : Stream(i)

Spec == Init /\ [][Next]_vars

(* The calls to the server return, as their client has a timeout; streams   *)
(* run, and time passes when nothing else is due.  Nothing says that a      *)
(* target answers, or that the link carries anything.                       *)
Fairness ==
  /\ WF_vars(CheckTime) /\ WF_vars(Fire) /\ WF_vars(Finish) /\ WF_vars(Tick)
  /\ WF_vars(\E reply \in Replies, counted \in BOOLEAN : Reserve(reply, counted))
  /\ WF_vars(\E accepted \in BOOLEAN : Submit(accepted))
  /\ \A i \in Streams : /\ WF_vars(OpenFails(i, "cut")) /\ WF_vars(Withdraw(i))
                        /\ WF_vars(Read(i)) /\ WF_vars(ReadCut(i))
FairSpec == Spec /\ Fairness

-----------------------------------------------------------------------------
StreamState ==
  [pc : {"opening", "ready", "ended"}, size : Bodies \cup {0}, buf : 0 .. Window,
   body : BOOLEAN, err : BOOLEAN, total : 0 .. StreamBytes, steady : 0 .. StreamBytes,
   steadyStart : 0 .. Timeout, end : 0 .. Timeout,
   why : {"none", "refused", "cut", "withdrawn", "cap", "eof", "time", "broken", "cancelled"}]

TypeOK ==
  /\ parentDone \in BOOLEAN /\ t \in 1 .. Len(Targets) + 1
  /\ phase \in {"begin", "reserve", "setup", "read", "submit", "done"}
  /\ reserved \in [Each -> {0, MaxSampleBytes}] /\ pulled \in [Each -> Nat]
  /\ results \in [Each -> {"none", "no_time", "no_budget", "unsupported", "error", "measured"}]
  /\ figure.bytes \in Nat /\ figure.elapsed \in Nat /\ figure.warm \in BOOLEAN
  /\ now \in 0 .. Timeout /\ left \in 0 .. Capacity /\ start \in 0 .. Timeout
  /\ abort \in BOOLEAN /\ s \in [Streams -> StreamState]

(* "A measurement can never transfer more than it reserved": whatever the   *)
(* targets send and however the replies of the server are lost, no unit is  *)
(* read through the tunnel that the fleet's budget was not charged for.     *)
PaidFor == \A i \in Each : pulled[i] <= reserved[i]

(* A figure is of all its streams, and each ended as it was meant to: none  *)
(* failed, none was withdrawn, none cut because the probe was abandoned.    *)
FigureIsOfTheLink ==
  figure # NoFigure => \A i \in Streams : s[i].why \in {"cap", "eof", "time"}

(* The steady rate is one that the link has carried: the common window      *)
(* holds every unit it counts, whichever stream ends first or stalls.       *)
SteadyWithinCapacity ==
  figure.warm => figure.bytes <= Capacity * (figure.elapsed + 1)

(* Without the warmup the figure "is a LOWER BOUND on the real throughput"  *)
(* (Sample.WarmupExcluded).                                                 *)
LowerBoundIsLower ==
  figure # NoFigure /\ ~figure.warm => figure.bytes <= Capacity * (figure.elapsed + 1)

(* No measurement leaves a response body open behind it in a tunnel that is *)
(* used again, however its streams failed.                                  *)
NoBodyLeftOpen ==
  phase \notin {"setup", "read"} => \A i \in Streams : ~s[i].body

(* The sampling comes back, through a provider that never answers too.      *)
SampleReturns == <>(phase = "done")
=============================================================================
