------------------------------ MODULE PassSpec ------------------------------
(***************************************************************************)
(* What Scheduler.Run promises its caller, without goroutines, channels,   *)
(* tunnels or pruning: every provider of the batch is either skipped,      *)
(* because its last success is younger than CacheTTL, or probed once, at   *)
(* most Limit at a time; only successes are remembered; and the Summary    *)
(* counts exactly that.                                                    *)
(***************************************************************************)
EXTENDS Integers, Sequences, FiniteSets

CONSTANTS Providers, Batches, MaxBatch, Limit, CacheTTL, MaxTime

VARIABLES
  now,         (* the clock                                                 *)
  running,     (* a Run is in progress                                      *)
  batch,       (* its providers                                             *)
  status,      (* what has become of each of them                           *)
  remembered,  (* when each provider last succeeded; never forgotten        *)
  result       (* the Summary of the last Run to return                     *)

vars == <<now, running, batch, status, remembered, result>>

Jobs   == 1 .. MaxBatch
Absent == -1
Status == {"unseen", "skipped", "probing", "remembered", "succeeded", "failed"}

NoSummary == [attempted |-> 0, submitted |-> 0, skipped |-> 0, failed |-> 0]

Fresh(p) == remembered[p] # Absent /\ now - remembered[p] < CacheTTL

With(s) == {i \in Jobs : status[i] \in s}

Init ==
  /\ now = 0 /\ running = FALSE /\ batch = <<>>
  /\ status = [i \in Jobs |-> "unseen"]
  /\ remembered = [p \in Providers |-> Absent]
  /\ result = NoSummary

Begin(b) ==
  /\ ~running /\ running' = TRUE
  /\ batch' = b
  /\ status' = [i \in Jobs |-> "unseen"]
  /\ result' = NoSummary
  /\ UNCHANGED <<now, remembered>>

Become(i, from, to) == status[i] = from /\ status' = [status EXCEPT ![i] = to]

Skip(i) ==
  /\ running /\ i \in DOMAIN batch
  /\ Fresh(batch[i]) /\ Become(i, "unseen", "skipped")
  /\ UNCHANGED <<now, running, batch, remembered, result>>

Probe(i) ==
  /\ running /\ i \in DOMAIN batch
  /\ ~Fresh(batch[i]) /\ Become(i, "unseen", "probing")
  /\ Cardinality(With({"probing", "remembered"})) < Limit
  /\ UNCHANGED <<now, running, batch, remembered, result>>

Remember(i) ==
  /\ Become(i, "probing", "remembered")
  /\ remembered' = [remembered EXCEPT ![batch[i]] = now]
  /\ UNCHANGED <<now, running, batch, result>>

Succeed(i) ==
  /\ Become(i, "remembered", "succeeded")
  /\ UNCHANGED <<now, running, batch, remembered, result>>

Fail(i) ==
  /\ Become(i, "probing", "failed")
  /\ UNCHANGED <<now, running, batch, remembered, result>>

Return ==
  /\ running /\ running' = FALSE
  /\ \A i \in DOMAIN batch : status[i] \in {"skipped", "succeeded", "failed"}
  /\ result' = [attempted |-> Cardinality(With({"succeeded", "failed"})),
                submitted |-> Cardinality(With({"succeeded"})),
                skipped   |-> Cardinality(With({"skipped"})),
                failed    |-> Cardinality(With({"failed"}))]
  /\ UNCHANGED <<now, batch, status, remembered>>

Tick ==
  /\ now < MaxTime /\ now' = now + 1
  /\ UNCHANGED <<running, batch, status, remembered, result>>

Next ==
  \/ \E b \in Batches : Begin(b)
  \/ \E i \in Jobs : Skip(i) \/ Probe(i) \/ Remember(i) \/ Succeed(i) \/ Fail(i)
  \/ Return \/ Tick

Spec == Init /\ [][Next]_vars
=============================================================================
