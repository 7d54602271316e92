-------------------------- MODULE ProbePassProofs ---------------------------
(***************************************************************************)
(* Theorems about ProbePass, for every list of providers, every            *)
(* concurrency, every cache window and every choice of optional parts; in  *)
(* the last part, that ProbePass implements PassSpec.                      *)
(***************************************************************************)
EXTENDS ProbePassRefines, SumLemmas

(* The stages at which a job has its tunnel. *)
OpenStages == {"locate", "health", "healthRun", "healthSubmit", "submit",
               "bandwidth", "close"}

(* TypeOK, before anything is known of the two counters. *)
TypeBase ==
  /\ now \in Time /\ ctxDone \in BOOLEAN
  /\ probed \in [Providers -> Time \cup {Absent}]
  /\ main \in {"idle", "check", "acquire", "wait"}
  /\ batch \in Batches \cup {<<>>}
  /\ next \in 1 .. Len(batch) + 1
  /\ sem \in Int /\ wg \in Int
  /\ sum \in Summary
  /\ pc \in [Jobs -> Stages]
  /\ loc \in [Jobs -> LocateResults]
  /\ failure \in [Jobs -> Failures \cup {Success}]
  /\ tunnels \subseteq Jobs /\ stored \subseteq Jobs
  /\ healthRows \subseteq Jobs /\ measured \subseteq Jobs /\ cut \subseteq Jobs
  /\ attempts \subseteq Jobs \X (Failures \cup {Success})
  /\ calls \in [Jobs -> Nat]
  /\ lastMark \in [Providers -> Time \cup {Absent}]
  /\ owed \subseteq Providers

(* Only providers Run has walked past have a job; a tunnel is open exactly  *)
(* at the stages between opening and closing it.                            *)
Walked ==
  /\ \A i \in Jobs : pc[i] # "none" => i < next /\ i \in DOMAIN batch
  /\ main = "acquire" => next <= Len(batch)
  /\ \A i \in Jobs : i \in tunnels <=> pc[i] \in OpenStages

Base == TypeBase /\ Walked

(* The counters count: a slot for each job between Spawn and Release, and a *)
(* WaitGroup unit for each job up to WgDone and for the one being admitted. *)
Running == {i \in Jobs : pc[i] \notin {"none", "done"}}
Slots ==
  /\ sem = Cardinality(Holders) /\ sem <= Limit
  /\ wg = Cardinality(Running) + (IF main = "acquire" THEN 1 ELSE 0)
  /\ main = "idle" => Running = {}

(* The cache forgets only what has expired. *)
Forgets ==
  \A p \in Providers :
    \/ probed[p] = lastMark[p]
    \/ probed[p] = Absent /\ lastMark[p] # Absent
                        /\ CacheTTL <= now - lastMark[p]

(* Admitting a provider decides for as long as its probe runs. *)
Distinct == \A i, j \in DOMAIN batch : i # j => batch[i] # batch[j]
Admitted ==
  Distinct =>
    /\ main = "acquire" => ~Fresh(lastMark, batch[next])
    /\ \A i \in Holders : pc[i] # "release" => ~Fresh(lastMark, batch[i])

(* What the server holds from a job, by the stage the job has reached. *)
Reported == {"tally", "mark", "release", "wgdone", "done"}
Judged == {"bandwidth", "close", "report"} \cup Reported
JobRecord(i) ==
  /\ i \in stored => /\ pc[i] \in Judged /\ loc[i] = "confident"
                     /\ failure[i] \in {Success, "submit_failed"}
  /\ pc[i] \in Judged /\ failure[i] = Success => i \in stored
  /\ pc[i] \in {"bandwidth", "mark"} => failure[i] = Success
  /\ i \in measured => pc[i] \in Judged /\ failure[i] = Success
  /\ \A c : <<i, c>> \in attempts => pc[i] \in Reported /\ c = failure[i]
Records == \A i \in Jobs : JobRecord(i)

(* A provider whose latest probe has had nothing acknowledged is stale, and *)
(* a probe that is a success so far is not owed: it alone may mark.         *)
Owing ==
  /\ \A p \in owed : ~Fresh(lastMark, p)
  /\ \A i \in Jobs : pc[i] \in Judged /\ failure[i] = Success
                       => batch[i] \notin owed

(* Only a done context cuts a probe short. *)
CutOnlyWhenDone == cut # {} => ctxDone

(* Each job reports its attempt on the way from "report" to "tally". *)
Counted ==
  "Attempts" \in Wired =>
    \A i \in Jobs : calls[i] = IF pc[i] \in Reported THEN 1 ELSE 0

-----------------------------------------------------------------------------
LEMMA LimitType == Limit \in Nat \ {0}
BY ConcurrencyAssumption DEF Limit

(* Batches are sequences of providers no longer than MaxBatch. *)
LEMMA BatchType ==
  ASSUME NEW b \in Batches \cup {<<>>}
  PROVE  /\ b \in Seq(Providers) /\ Len(b) \in 0 .. MaxBatch
         /\ DOMAIN b = 1 .. Len(b) /\ DOMAIN b \subseteq Jobs
         /\ \A i \in DOMAIN b : b[i] \in Providers
<1>1. b \in Seq(Providers)
  <2>1. CASE b = <<>>
    BY <2>1
  <2>2. CASE b \in Batches
    BY <2>2, BatchesAssumption
  <2> QED BY <2>1, <2>2
<1>2. Len(b) \in Nat /\ DOMAIN b = 1 .. Len(b)
  BY <1>1
<1>3. Len(b) <= MaxBatch
  <2>1. CASE b = <<>>
    BY <2>1, BatchesAssumption
  <2>2. CASE b \in Batches
    BY <2>2, BatchesAssumption
  <2> QED BY <2>1, <2>2
<1>4. \A i \in DOMAIN b : b[i] \in Providers
  BY <1>1, <1>2
<1> QED BY <1>1, <1>2, <1>3, <1>4, BatchesAssumption DEF Jobs

LEMMA BaseInit == Init => Base
<1> SUFFICES ASSUME Init PROVE Base
  OBVIOUS
<1>1. batch = <<>> /\ Len(batch) = 0
  BY DEF Init
<1>2. /\ now \in Time /\ probed \in [Providers -> Time \cup {Absent}]
      /\ lastMark \in [Providers -> Time \cup {Absent}]
  BY MaxTimeAssumption DEF Init, Time
<1>3. sum \in Summary
  BY DEF Init, NoSummary, Summary
<1>4. /\ pc \in [Jobs -> Stages] /\ loc \in [Jobs -> LocateResults]
      /\ failure \in [Jobs -> Failures \cup {Success}] /\ calls \in [Jobs -> Nat]
  BY DEF Init, Stages, LocateResults
<1>5. next \in 1 .. Len(batch) + 1 /\ sem \in Int /\ wg \in Int
  BY <1>1 DEF Init
<1>6. TypeBase
  BY <1>2, <1>3, <1>4, <1>5 DEF Init, TypeBase
<1>7. Walked
  BY DEF Init, Walked, OpenStages
<1> QED BY <1>6, <1>7 DEF Base

(* A count stays a count. *)
LEMMA SummaryType ==
  ASSUME NEW s \in Summary
  PROVE  /\ [s EXCEPT !.attempted = @ + 1] \in Summary
         /\ [s EXCEPT !.submitted = @ + 1] \in Summary
         /\ [s EXCEPT !.skipped = @ + 1] \in Summary
         /\ [s EXCEPT !.failed = @ + 1] \in Summary
BY DEF Summary

LEMMA BaseMain == Base /\ Main => Base'
<1> SUFFICES ASSUME Base, Main PROVE Base'
  OBVIOUS
<1> USE DEF Base, envVars, mainVars, poolVars, workVars, serverVars, cacheVars
<1>0. /\ Len(batch) \in 0 .. MaxBatch /\ DOMAIN batch = 1 .. Len(batch)
      /\ DOMAIN batch \subseteq Jobs
  BY BatchType DEF TypeBase
<1>1. CASE SkipCached
  <2>1. next' \in 1 .. Len(batch) + 1
    BY <1>0, <1>1 DEF SkipCached, TypeBase
  <2>2. sum' \in Summary
    BY <1>1, SummaryType DEF SkipCached, TypeBase
  <2>3. TypeBase'
    BY <1>1, <2>1, <2>2 DEF SkipCached, TypeBase
  <2>4. Walked'
    BY <1>0, <1>1 DEF SkipCached, Walked, TypeBase
  <2> QED BY <2>3, <2>4
<1>2. CASE Admit
  BY <1>2 DEF Admit, TypeBase, Walked
<1>3. CASE Spawn
  <2>1. next \in DOMAIN batch /\ next \in Jobs
    BY <1>0, <1>3 DEF Spawn, TypeBase, Walked
  <2>2. pc' \in [Jobs -> Stages] /\ sem' \in Int /\ next' \in 1 .. Len(batch) + 1
    BY <1>0, <1>3, <2>1 DEF Spawn, Stages, TypeBase
  <2>3. TypeBase'
    BY <1>3, <2>2 DEF Spawn, TypeBase
  <2>4. pc[next] = "none" /\ next \notin tunnels
    BY <2>1 DEF TypeBase, Walked, OpenStages
  <2>5. \A i \in Jobs : pc'[i] = IF i = next THEN "start" ELSE pc[i]
    BY <1>3, <2>1 DEF Spawn, TypeBase
  <2>6. \A i \in Jobs : pc'[i] # "none" => i < next' /\ i \in DOMAIN batch'
    BY <1>0, <1>3, <2>1, <2>5 DEF Spawn, TypeBase, Walked
  <2>7. \A i \in Jobs : i \in tunnels' <=> pc'[i] \in OpenStages
    BY <1>3, <2>4, <2>5 DEF Spawn, Walked, OpenStages
  <2>8. Walked'
    BY <1>3, <2>6, <2>7 DEF Spawn, Walked
  <2> QED BY <2>3, <2>8
<1>4. CASE EndOfBatch
  BY <1>4 DEF EndOfBatch, TypeBase, Walked
<1>5. CASE Return
  BY <1>5 DEF Return, TypeBase, Walked
<1> QED BY <1>1, <1>2, <1>3, <1>4, <1>5 DEF Main

(* A job that has started has a provider, and Run stands past it. *)
LEMMA Started ==
  ASSUME Base, NEW i \in Jobs, pc[i] # "none"
  PROVE  batch[i] \in Providers /\ i < next /\ i \in DOMAIN batch
BY BatchType DEF Base, TypeBase, Walked

(* Leaving probeOne closes the tunnel exactly when there is one. *)
LEMMA AfterProbeStage ==
  ASSUME Base, NEW i \in Jobs
  PROVE  AfterProbe(i) = IF pc[i] \in OpenStages THEN "close" ELSE "report"
BY DEF Base, Walked, AfterProbe

(* Each step moves its job from one stage to another and nothing else, and  *)
(* leaves it with a tunnel exactly at the stages that use one.              *)
JobMoves(i) ==
  /\ UNCHANGED <<envVars, mainVars>>
  /\ pc[i] # "none" /\ pc' \in [Jobs -> Stages] /\ pc'[i] # "none"
  /\ \A j \in Jobs \ {i} : pc'[j] = pc[j]
  /\ tunnels' \subseteq Jobs
  /\ \A j \in Jobs : j \in tunnels' <=> pc'[j] \in OpenStages

LEMMA JobStepMoves ==
  ASSUME Base, NEW i \in Jobs, Job(i)
  PROVE  JobMoves(i)
<1> USE AfterProbeStage DEF JobMoves, Goto, Base, TypeBase, Walked, Stages,
        OpenStages, envVars, mainVars, workVars
<1>1. CASE CountAttempt(i)    BY <1>1 DEF CountAttempt
<1>2. CASE OpenFails(i)       BY <1>2 DEF OpenFails
<1>3. CASE OpenTunnel(i)      BY <1>3 DEF OpenTunnel
<1>4. CASE Locate(i)          BY <1>4 DEF Locate
<1>5. CASE SkipHealth(i)      BY <1>5 DEF SkipHealth
<1>6. CASE StartHealth(i)     BY <1>6 DEF StartHealth
<1>7. CASE RunHealth(i)       BY <1>7 DEF RunHealth
<1>8. CASE SubmitHealth(i)    BY <1>8 DEF SubmitHealth
<1>9. CASE NothingToSubmit(i) BY <1>9 DEF NothingToSubmit
<1>10. CASE Submit(i)         BY <1>10 DEF Submit, AfterSubmit
<1>11. CASE SampleBandwidth(i) BY <1>11 DEF SampleBandwidth
<1>12. CASE CloseTunnel(i)    BY <1>12 DEF CloseTunnel
<1>13. CASE ReportAttempt(i)  BY <1>13 DEF ReportAttempt
<1>14. CASE TallyFailure(i)   BY <1>14 DEF TallyFailure
<1>15. CASE TallySuccess(i)   BY <1>15 DEF TallySuccess
<1>16. CASE MarkProbed(i)     BY <1>16 DEF MarkProbed
<1>17. CASE Release(i)        BY <1>17 DEF Release
<1>18. CASE WgDone(i)         BY <1>18 DEF WgDone
<1> QED
  BY <1>1, <1>2, <1>3, <1>4, <1>5, <1>6, <1>7, <1>8, <1>9, <1>10, <1>11,
     <1>12, <1>13, <1>14, <1>15, <1>16, <1>17, <1>18 DEF Job

(* Each step assigns values of the right types. *)
JobTypes ==
  /\ sem' \in Int /\ wg' \in Int /\ sum' \in Summary
  /\ loc' \in [Jobs -> LocateResults]
  /\ failure' \in [Jobs -> Failures \cup {Success}]
  /\ measured' \subseteq Jobs /\ cut' \subseteq Jobs
  /\ calls' \in [Jobs -> Nat]
  /\ stored' \subseteq Jobs /\ healthRows' \subseteq Jobs
  /\ owed' \subseteq Providers
  /\ attempts' \subseteq Jobs \X (Failures \cup {Success})
  /\ probed' \in [Providers -> Time \cup {Absent}]
  /\ lastMark' \in [Providers -> Time \cup {Absent}]

LEMMA JobStepTypes ==
  ASSUME Base, NEW i \in Jobs, Job(i)
  PROVE  JobTypes
<1> USE DEF JobTypes, Goto, Base, TypeBase, CutIf, poolVars, workVars,
        serverVars, cacheVars
<1>1. CASE CountAttempt(i)    BY <1>1, SummaryType, Started DEF CountAttempt
<1>2. CASE OpenFails(i)       BY <1>2 DEF OpenFails, Failures
<1>3. CASE OpenTunnel(i)      BY <1>3 DEF OpenTunnel
<1>4. CASE Locate(i)          BY <1>4 DEF Locate
<1>5. CASE SkipHealth(i)      BY <1>5 DEF SkipHealth
<1>6. CASE StartHealth(i)     BY <1>6 DEF StartHealth
<1>7. CASE RunHealth(i)       BY <1>7 DEF RunHealth
<1>8. CASE SubmitHealth(i)    BY <1>8 DEF SubmitHealth
<1>9. CASE NothingToSubmit(i)
  BY <1>9 DEF NothingToSubmit, Failures, LocateResults
<1>10. CASE Submit(i)
  BY <1>10, Started DEF Submit, SubmitClass, Failures
<1>11. CASE SampleBandwidth(i) BY <1>11 DEF SampleBandwidth
<1>12. CASE CloseTunnel(i)    BY <1>12 DEF CloseTunnel
<1>13. CASE ReportAttempt(i)
  <2>1. /\ attempts' \subseteq attempts \cup {<<i, failure[i]>>}
        /\ calls' \in [Jobs -> Nat] /\ cut' \subseteq Jobs
    BY <1>13 DEF ReportAttempt
  <2>2. attempts' \subseteq Jobs \X (Failures \cup {Success})
    BY <2>1
  <2>3. UNCHANGED <<loc, failure, measured, stored, healthRows, owed, poolVars, cacheVars>>
    BY <1>13 DEF ReportAttempt
  <2> QED BY <2>1, <2>2, <2>3
<1>14. CASE TallyFailure(i)   BY <1>14, SummaryType DEF TallyFailure
<1>15. CASE TallySuccess(i)   BY <1>15, SummaryType DEF TallySuccess
<1>16. CASE MarkProbed(i)     BY <1>16, Started DEF MarkProbed
<1>17. CASE Release(i)        BY <1>17 DEF Release
<1>18. CASE WgDone(i)         BY <1>18 DEF WgDone
<1> QED
  BY <1>1, <1>2, <1>3, <1>4, <1>5, <1>6, <1>7, <1>8, <1>9, <1>10, <1>11,
     <1>12, <1>13, <1>14, <1>15, <1>16, <1>17, <1>18 DEF Job

LEMMA BaseJob ==
  ASSUME Base, NEW i \in Jobs, Job(i)
  PROVE  Base'
<1>1. JobMoves(i) /\ JobTypes
  BY JobStepMoves, JobStepTypes
<1>2. TypeBase'
  BY <1>1 DEF JobMoves, JobTypes, Base, TypeBase, envVars, mainVars
<1>3. Walked'
  BY <1>1 DEF JobMoves, Base, Walked, mainVars
<1> QED BY <1>2, <1>3 DEF Base

LEMMA BaseBegin ==
  ASSUME Base, NEW b \in Batches, BeginRun(b)
  PROVE  Base'
<1>1. /\ batch' \in Batches \cup {<<>>} /\ next' \in 1 .. Len(batch') + 1
      /\ sem' \in Int /\ wg' \in Int
      /\ main' \in {"idle", "check", "acquire", "wait"}
  BY BatchType DEF BeginRun
<1>2. probed' \in [Providers -> Time \cup {Absent}]
  BY DEF BeginRun, Pruned, Base, TypeBase
<1>3. sum' \in Summary
  BY DEF BeginRun, NoSummary, Summary
<1>4. pc' \in [Jobs -> Stages] /\ \A i \in Jobs : pc'[i] = "none"
  BY DEF BeginRun, Stages
<1>5. loc' \in [Jobs -> LocateResults] /\ calls' \in [Jobs -> Nat]
  BY DEF BeginRun, LocateResults
<1>6. failure' \in [Jobs -> Failures \cup {Success}]
  BY DEF BeginRun
<1>7. /\ tunnels' \subseteq Jobs /\ stored' \subseteq Jobs
      /\ healthRows' \subseteq Jobs /\ measured' \subseteq Jobs
      /\ cut' \subseteq Jobs
      /\ attempts' \subseteq Jobs \X (Failures \cup {Success})
  BY DEF BeginRun
<1>8. /\ now' \in Time /\ ctxDone' \in BOOLEAN /\ owed' \subseteq Providers
      /\ lastMark' \in [Providers -> Time \cup {Absent}]
  BY DEF BeginRun, Base, TypeBase, envVars
<1>9. TypeBase'
  BY <1>1, <1>2, <1>3, <1>4, <1>5, <1>6, <1>7, <1>8 DEF TypeBase
<1>10. Walked'
  BY <1>4 DEF BeginRun, Walked, OpenStages
<1> QED BY <1>9, <1>10 DEF Base

LEMMA BaseNext == Base /\ [Next]_vars => Base'
<1> SUFFICES ASSUME Base, [Next]_vars PROVE Base'
  OBVIOUS
<1> USE DEF envVars, mainVars, poolVars, workVars, serverVars, cacheVars
<1>1. ASSUME NEW b \in Batches, BeginRun(b) PROVE Base'
  BY <1>1, BaseBegin
<1>2. CASE Main
  BY <1>2, BaseMain
<1>3. ASSUME NEW i \in Jobs, Job(i) PROVE Base'
  BY <1>3, BaseJob
<1>4. CASE Tick
  <2>1. now' \in Time
    BY <1>4, MaxTimeAssumption DEF Tick, Time, Base, TypeBase
  <2> QED BY <1>4, <2>1 DEF Tick, Base, TypeBase, Walked
<1>5. CASE Signal
  BY <1>5 DEF Signal, Base, TypeBase, Walked
<1>6. CASE Stopped \/ UNCHANGED vars
  BY <1>6 DEF Stopped, vars, Base, TypeBase, Walked
<1> QED BY <1>1, <1>2, <1>3, <1>4, <1>5, <1>6 DEF Next

LEMMA BaseInvariant == Spec => []Base
BY BaseInit, BaseNext, PTL DEF Spec

-----------------------------------------------------------------------------
(* The slots. *)

LEMMA JobsFinite ==
  ASSUME NEW S \in SUBSET Jobs
  PROVE  IsFiniteSet(S) /\ Cardinality(S) \in Nat
<1>1. 1 \in Int /\ MaxBatch \in Int
  BY BatchesAssumption
<1>2. IsFiniteSet(Jobs)
  BY <1>1, FS_Interval DEF Jobs
<1>3. IsFiniteSet(S)
  BY <1>2, FS_Subset
<1> QED BY <1>3, FS_CardinalityType

LEMMA SlotsInit == Init => Slots
<1> SUFFICES ASSUME Init PROVE Slots
  OBVIOUS
<1>1. Holders = {} /\ Running = {}
  BY DEF Init, Holders, Running
<1> QED BY <1>1, LimitType, FS_EmptySet DEF Init, Slots

LEMMA SlotsBegin ==
  ASSUME Base, NEW b \in Batches, BeginRun(b)
  PROVE  Slots'
<1>1. Holders' = {} /\ Running' = {}
  BY DEF BeginRun, Holders, Running
<1>2. sem' = 0 /\ wg' = 0 /\ main' = "check"
  BY DEF BeginRun
<1> QED BY <1>1, <1>2, LimitType, FS_EmptySet DEF Slots

LEMMA SlotsMain ==
  ASSUME Base, Slots, Main
  PROVE  Slots'
<1> USE DEF Slots, poolVars, mainVars
<1>0. /\ Cardinality(Holders) \in Nat /\ Cardinality(Running) \in Nat
      /\ IsFiniteSet(Holders) /\ IsFiniteSet(Running)
  BY JobsFinite DEF Holders, Running
<1>1. CASE SkipCached
  BY <1>1 DEF SkipCached, Holders, Running
<1>2. CASE Admit
  <2>1. Holders' = Holders /\ Running' = Running
    BY <1>2 DEF Admit, Holders, Running
  <2> QED BY <1>0, <1>2, <2>1 DEF Admit
<1>3. CASE Spawn
  <2>1. next \in Jobs /\ pc[next] = "none"
    BY <1>3, BatchType DEF Spawn, Base, TypeBase, Walked
  <2>2. \A i \in Jobs : pc'[i] = IF i = next THEN "start" ELSE pc[i]
    BY <1>3 DEF Spawn, Base, TypeBase
  <2>3. Holders' = Holders \cup {next} /\ next \notin Holders
    BY <2>1, <2>2 DEF Holders
  <2>4. Running' = Running \cup {next} /\ next \notin Running
    BY <2>1, <2>2 DEF Running
  <2>5. /\ Cardinality(Holders') = Cardinality(Holders) + 1
        /\ Cardinality(Running') = Cardinality(Running) + 1
    BY <1>0, <2>3, <2>4, FS_AddElement
  <2>6. sem' = sem + 1 /\ sem' <= Limit /\ wg' = wg /\ main' = "check"
        /\ main = "acquire"
    BY <1>0, <1>3, LimitType DEF Spawn, SlotFree
  <2> QED BY <1>0, <2>5, <2>6
<1>4. CASE EndOfBatch
  BY <1>4 DEF EndOfBatch, Holders, Running
<1>5. CASE Return
  <2>1. Cardinality(Running) = 0
    BY <1>0, <1>5 DEF Return, Waited
  <2>2. Running = {}
    BY <1>0, <2>1, FS_EmptySet
  <2>3. Holders' = Holders /\ Running' = Running
    BY <1>5 DEF Return, Holders, Running
  <2> QED BY <1>0, <1>5, <2>2, <2>3 DEF Return
<1> QED BY <1>1, <1>2, <1>3, <1>4, <1>5 DEF Main

(* Every step but Release and WgDone leaves its job the owner of its slot. *)
KeepsSlot(i) ==
  /\ sem' = sem /\ wg' = wg
  /\ pc[i] \notin {"none", "release", "wgdone", "done"}
  /\ pc'[i] \notin {"none", "wgdone", "done"}

LEMMA JobKeepsSlot ==
  ASSUME Base, NEW i \in Jobs, Job(i)
  PROVE  KeepsSlot(i) \/ Release(i) \/ WgDone(i)
<1> USE AfterProbeStage DEF KeepsSlot, Goto, Base, TypeBase, poolVars
<1>1. CASE CountAttempt(i)    BY <1>1 DEF CountAttempt
<1>2. CASE OpenFails(i)       BY <1>2 DEF OpenFails
<1>3. CASE OpenTunnel(i)      BY <1>3 DEF OpenTunnel
<1>4. CASE Locate(i)          BY <1>4 DEF Locate
<1>5. CASE SkipHealth(i)      BY <1>5 DEF SkipHealth
<1>6. CASE StartHealth(i)     BY <1>6 DEF StartHealth
<1>7. CASE RunHealth(i)       BY <1>7 DEF RunHealth
<1>8. CASE SubmitHealth(i)    BY <1>8 DEF SubmitHealth
<1>9. CASE NothingToSubmit(i) BY <1>9 DEF NothingToSubmit
<1>10. CASE Submit(i)         BY <1>10 DEF Submit, AfterSubmit
<1>11. CASE SampleBandwidth(i) BY <1>11 DEF SampleBandwidth
<1>12. CASE CloseTunnel(i)    BY <1>12 DEF CloseTunnel
<1>13. CASE ReportAttempt(i)  BY <1>13 DEF ReportAttempt
<1>14. CASE TallyFailure(i)   BY <1>14 DEF TallyFailure
<1>15. CASE TallySuccess(i)   BY <1>15 DEF TallySuccess
<1>16. CASE MarkProbed(i)     BY <1>16 DEF MarkProbed
<1> QED
  BY <1>1, <1>2, <1>3, <1>4, <1>5, <1>6, <1>7, <1>8, <1>9, <1>10, <1>11,
     <1>12, <1>13, <1>14, <1>15, <1>16 DEF Job

LEMMA SlotsJob ==
  ASSUME Base, Slots, NEW i \in Jobs, Job(i)
  PROVE  Slots'
<1>0. /\ Cardinality(Holders) \in Nat /\ Cardinality(Running) \in Nat
      /\ IsFiniteSet(Holders) /\ IsFiniteSet(Running)
  BY JobsFinite DEF Holders, Running
<1>1. JobMoves(i)
  BY JobStepMoves
<1>2. \A j \in Jobs \ {i} : pc'[j] = pc[j]
  BY <1>1 DEF JobMoves
<1>3. main' = main /\ pc[i] # "none" /\ pc'[i] # "none"
  BY <1>1 DEF JobMoves, mainVars
<1>4. CASE KeepsSlot(i)
  <2>1. Holders' = Holders /\ Running' = Running
    BY <1>2, <1>4 DEF KeepsSlot, Holders, Running
  <2> QED BY <1>3, <1>4, <2>1 DEF KeepsSlot, Slots
<1>5. CASE Release(i)
  <2>1. pc[i] = "release" /\ pc'[i] = "wgdone" /\ sem' = sem - 1 /\ wg' = wg
    BY <1>5 DEF Release, Goto, Base, TypeBase
  <2>2. Holders' = Holders \ {i} /\ i \in Holders
    BY <1>2, <2>1 DEF Holders
  <2>3. Running' = Running
    BY <1>2, <2>1 DEF Running
  <2>4. Cardinality(Holders') = Cardinality(Holders) - 1
    BY <1>0, <2>2, FS_RemoveElement
  <2> QED BY <1>0, <1>3, <2>1, <2>3, <2>4, LimitType DEF Slots
<1>6. CASE WgDone(i)
  <2>1. pc[i] = "wgdone" /\ pc'[i] = "done" /\ wg' = wg - 1 /\ sem' = sem
    BY <1>6 DEF WgDone, Goto, Base, TypeBase
  <2>2. Running' = Running \ {i} /\ i \in Running
    BY <1>2, <2>1 DEF Running
  <2>3. Holders' = Holders
    BY <1>2, <2>1 DEF Holders
  <2>4. Cardinality(Running') = Cardinality(Running) - 1
    BY <1>0, <2>2, FS_RemoveElement
  <2> QED BY <1>0, <1>3, <2>1, <2>2, <2>3, <2>4 DEF Slots
<1> QED BY <1>4, <1>5, <1>6, JobKeepsSlot

LEMMA SlotsNext == Base /\ Slots /\ [Next]_vars => Slots'
<1> SUFFICES ASSUME Base, Slots, [Next]_vars PROVE Slots'
  OBVIOUS
<1>1. ASSUME NEW b \in Batches, BeginRun(b) PROVE Slots'
  BY <1>1, SlotsBegin
<1>2. CASE Main
  BY <1>2, SlotsMain
<1>3. ASSUME NEW i \in Jobs, Job(i) PROVE Slots'
  BY <1>3, SlotsJob
<1>4. CASE Tick \/ Signal \/ Stopped \/ UNCHANGED vars
  BY <1>4 DEF Tick, Signal, Stopped, vars, mainVars, poolVars, Slots, Holders,
     Running
<1> QED BY <1>1, <1>2, <1>3, <1>4 DEF Next

LEMMA SlotsInvariant == Spec => [](Base /\ Slots)
<1>1. Init => Base /\ Slots
  BY BaseInit, SlotsInit
<1>2. Base /\ Slots /\ [Next]_vars => (Base /\ Slots)'
  BY BaseNext, SlotsNext
<1> QED BY <1>1, <1>2, PTL DEF Spec

(* Every variable keeps its type; in particular the semaphore never holds   *)
(* more than Limit and the WaitGroup counter never goes below zero, which   *)
(* would panic.                                                             *)
THEOREM TypeCorrect == Spec => []TypeOK
<1>1. Base /\ Slots => TypeOK
  <2> SUFFICES ASSUME Base, Slots PROVE TypeOK
    OBVIOUS
  <2>1. Cardinality(Holders) \in Nat /\ Cardinality(Running) \in Nat
    BY JobsFinite DEF Holders, Running
  <2>2. sem \in 0 .. Limit /\ wg \in Nat
    BY <2>1, LimitType DEF Slots
  <2> QED BY <2>2 DEF Base, TypeBase, TypeOK
<1> QED BY <1>1, SlotsInvariant, PTL

(* Run never has more than Limit tunnels open: a tunnel is open only while  *)
(* its job holds a slot.                                                    *)
THEOREM TunnelLimit == Spec => []TunnelsWithinLimit
<1>1. Base /\ Slots => TunnelsWithinLimit
  <2> SUFFICES ASSUME Base, Slots PROVE TunnelsWithinLimit
    OBVIOUS
  <2>1. tunnels \subseteq Holders
    BY DEF Base, TypeBase, Walked, OpenStages, Holders
  <2>2. IsFiniteSet(Holders)
    BY JobsFinite DEF Holders
  <2>3. /\ Cardinality(tunnels) \in Nat /\ Cardinality(Holders) \in Nat
        /\ Cardinality(tunnels) <= Cardinality(Holders)
    BY <2>1, <2>2, FS_Subset, FS_CardinalityType
  <2> QED BY <2>3, LimitType DEF Slots, TunnelsWithinLimit
<1> QED BY <1>1, SlotsInvariant, PTL

(* When Run has returned, nothing it started is left: wg.Wait really waits  *)
(* for every goroutine, and each has closed its tunnel and given back its   *)
(* slot before it is done.                                                  *)
THEOREM RunLeavesNothing == Spec => []NothingOutlivesRun
<1>1. Base /\ Slots => NothingOutlivesRun
  <2> SUFFICES ASSUME Base, Slots, main = "idle"
               PROVE  /\ tunnels = {} /\ sem = 0
                      /\ \A i \in Jobs : pc[i] \in {"none", "done"}
    BY DEF NothingOutlivesRun
  <2>1. Running = {}
    BY DEF Slots
  <2>2. \A i \in Jobs : pc[i] \in {"none", "done"}
    BY <2>1 DEF Running
  <2>3. tunnels = {}
    BY <2>2 DEF Base, TypeBase, Walked, OpenStages
  <2>4. Holders = {}
    BY <2>2 DEF Holders
  <2> QED BY <2>2, <2>3, <2>4, FS_EmptySet DEF Slots
<1> QED BY <1>1, SlotsInvariant, PTL

-----------------------------------------------------------------------------
(* The success cache. *)

(* No job step but MarkProbed touches the cache. *)
LEMMA JobKeepsCache ==
  ASSUME NEW i \in Jobs, Job(i)
  PROVE  UNCHANGED cacheVars \/ MarkProbed(i)
BY DEF Job, CountAttempt, OpenFails, OpenTunnel, Locate, SkipHealth,
       StartHealth, RunHealth, SubmitHealth, NothingToSubmit, Submit,
       SampleBandwidth, CloseTunnel, ReportAttempt, TallyFailure, TallySuccess,
       Release, WgDone

LEMMA ForgetsNext == Base /\ Forgets /\ [Next]_vars => Forgets'
<1> SUFFICES ASSUME Base, Forgets, [Next]_vars PROVE Forgets'
  OBVIOUS
<1>0. now \in Int /\ CacheTTL \in Int /\ \A p \in Providers : lastMark[p] \in Int
  BY TTLAssumption, MaxTimeAssumption DEF Base, TypeBase, Time, Absent
<1>1. ASSUME NEW b \in Batches, BeginRun(b) PROVE Forgets'
  BY <1>0, <1>1 DEF BeginRun, Pruned, Forgets, envVars
<1>2. ASSUME NEW i \in Jobs, MarkProbed(i) PROVE Forgets'
  <2>1. now' = now
    BY <1>2 DEF MarkProbed, envVars
  <2>2. \A p \in Providers :
          /\ probed'[p] = IF p = batch[i] THEN now ELSE probed[p]
          /\ lastMark'[p] = IF p = batch[i] THEN now ELSE lastMark[p]
    BY <1>2 DEF MarkProbed, Base, TypeBase
  <2> QED BY <2>1, <2>2 DEF Forgets
<1>3. CASE Tick
  <2>1. now' = now + 1 /\ probed' = probed /\ lastMark' = lastMark
    BY <1>3 DEF Tick, cacheVars
  <2> QED BY <1>0, <2>1 DEF Forgets
<1>4. CASE UNCHANGED <<now, cacheVars>>
  BY <1>4 DEF Forgets, cacheVars
<1>5. ASSUME NEW i \in Jobs, Job(i) PROVE Forgets'
  <2>1. now' = now
    BY <1>5, JobStepMoves DEF JobMoves, envVars
  <2> QED BY <1>2, <1>4, <1>5, <2>1, JobKeepsCache
<1>6. CASE Main \/ Signal \/ Stopped \/ UNCHANGED vars
  <2>1. UNCHANGED <<now, cacheVars>>
    BY <1>6 DEF Main, SkipCached, Admit, Spawn, EndOfBatch, Return, Signal,
       Stopped, vars, envVars
  <2> QED BY <1>4, <2>1
<1> QED BY <1>1, <1>3, <1>5, <1>6 DEF Next

LEMMA ForgetsInvariant == Spec => [](Base /\ Forgets)
<1>1. Init => Base /\ Forgets
  <2>1. Init => Forgets
    BY DEF Init, Forgets
  <2> QED BY <2>1, BaseInit
<1>2. Base /\ Forgets /\ [Next]_vars => (Base /\ Forgets)'
  BY BaseNext, ForgetsNext
<1> QED BY <1>1, <1>2, PTL DEF Spec

(* Forgetting only the expired, the cache decides as a perfect memory does. *)
LEMMA FreshAlike ==
  ASSUME Base, Forgets, NEW p \in Providers
  PROVE  Fresh(probed, p) <=> Fresh(lastMark, p)
<1>1. now \in Int /\ CacheTTL \in Int /\ lastMark[p] \in Int
  BY TTLAssumption, MaxTimeAssumption DEF Base, TypeBase, Time, Absent
<1> QED BY <1>1 DEF Forgets, Fresh

(* Pruning is free: whatever Run prunes and whenever it does, recentlyProbed *)
(* answers as if nothing had ever been evicted.                             *)
THEOREM PruningIsFree == Spec => []PruneChangesNoDecision
<1>1. Base /\ Forgets => PruneChangesNoDecision
  BY FreshAlike DEF PruneChangesNoDecision
<1> QED BY <1>1, ForgetsInvariant, PTL

(* Time only makes a memory staler. *)
LEMMA StaysStale ==
  ASSUME Base, NEW p \in Providers, ~Fresh(lastMark, p),
         now' \in {now, now + 1}, lastMark'[p] = lastMark[p]
  PROVE  ~Fresh(lastMark, p)'
<1>1. now \in Int /\ CacheTTL \in Int /\ lastMark[p] \in Int
  BY TTLAssumption, MaxTimeAssumption DEF Base, TypeBase, Time, Absent
<1> QED BY <1>1 DEF Fresh

-----------------------------------------------------------------------------
(* No provider is probed within CacheTTL of its last success. *)

LEMMA AdmittedBegin ==
  ASSUME NEW b \in Batches, BeginRun(b)
  PROVE  Admitted'
<1>1. Holders' = {} /\ main' = "check"
  BY DEF BeginRun, Holders
<1> QED BY <1>1 DEF Admitted

LEMMA AdmittedMain ==
  ASSUME Base, Forgets, Admitted, Main
  PROVE  Admitted'
<1>0. batch' = batch /\ lastMark' = lastMark /\ now' = now
  BY DEF Main, SkipCached, Admit, Spawn, EndOfBatch, Return, envVars, cacheVars
<1>1. (Distinct' <=> Distinct) /\ \A p : Fresh(lastMark, p)' = Fresh(lastMark, p)
  BY <1>0 DEF Distinct, Fresh
<1>2. CASE SkipCached \/ EndOfBatch \/ Return
  <2>1. pc' = pc /\ main' # "acquire"
    BY <1>2 DEF SkipCached, EndOfBatch, Return
  <2>2. Holders' = Holders
    BY <2>1 DEF Holders
  <2> QED BY <1>0, <1>1, <2>1, <2>2 DEF Admitted
<1>3. CASE Admit
  <2>1. pc' = pc /\ next' = next /\ next <= Len(batch) /\ ~Fresh(probed, batch[next])
    BY <1>3 DEF Admit
  <2>2. batch[next] \in Providers
    BY <2>1, BatchType DEF Base, TypeBase
  <2>3. ~Fresh(lastMark, batch[next])
    BY <2>1, <2>2, FreshAlike
  <2>4. Holders' = Holders
    BY <2>1 DEF Holders
  <2> QED BY <1>0, <1>1, <2>1, <2>3, <2>4 DEF Admitted
<1>4. CASE Spawn
  <2>1. main = "acquire" /\ main' = "check"
    BY <1>4 DEF Spawn
  <2>2. \A i \in Jobs : pc'[i] = IF i = next THEN "start" ELSE pc[i]
    BY <1>4 DEF Spawn, Base, TypeBase
  <2>3. Holders' \subseteq Holders \cup {next}
    BY <2>2 DEF Holders
  <2>4. \A i \in Holders' : i # next => i \in Holders /\ pc'[i] = pc[i]
    BY <2>2, <2>3 DEF Holders
  <2> QED BY <1>0, <1>1, <2>1, <2>3, <2>4 DEF Admitted
<1> QED BY <1>2, <1>3, <1>4 DEF Main

(* Marking one provider spares the others: no other job has it, and Run     *)
(* stands at a later one.                                                   *)
LEMMA MarkSparesOthers ==
  ASSUME Base, Distinct, NEW i \in Jobs, MarkProbed(i),
         NEW j \in DOMAIN batch, j # i
  PROVE  lastMark'[batch[j]] = lastMark[batch[j]]
<1>1. batch[j] \in Providers
  BY BatchType DEF Base, TypeBase
<1>2. i \in DOMAIN batch
  BY Started DEF MarkProbed, Goto
<1>3. batch[j] # batch[i]
  BY <1>2 DEF Distinct
<1> QED BY <1>1, <1>3 DEF MarkProbed, Base, TypeBase

LEMMA AdmittedJob ==
  ASSUME Base, Admitted, NEW i \in Jobs, Job(i)
  PROVE  Admitted'
<1>1. JobMoves(i)
  BY JobStepMoves
<1>2. /\ now' = now /\ batch' = batch /\ next' = next /\ main' = main
      /\ \A j \in Jobs \ {i} : pc'[j] = pc[j]
  BY <1>1 DEF JobMoves, envVars, mainVars
<1>3. SUFFICES ASSUME Distinct
               PROVE  /\ main = "acquire" => ~Fresh(lastMark, batch[next])'
                      /\ \A j \in Holders' : pc'[j] # "release"
                                           => ~Fresh(lastMark, batch[j])'
  BY <1>2 DEF Admitted, Distinct
<1>4. /\ main = "acquire" => ~Fresh(lastMark, batch[next])
      /\ \A j \in Holders : pc[j] # "release" => ~Fresh(lastMark, batch[j])
  BY <1>3 DEF Admitted
<1>5. CASE UNCHANGED cacheVars
  <2>1. lastMark' = lastMark
    BY <1>5 DEF cacheVars
  <2>2. \A p : Fresh(lastMark, p)' = Fresh(lastMark, p)
    BY <1>2, <2>1 DEF Fresh
  <2>3. pc'[i] # "release" /\ i \in Holders' => i \in Holders /\ pc[i] # "release"
    <3>1. CASE KeepsSlot(i)
      BY <3>1 DEF KeepsSlot, Holders
    <3>2. CASE Release(i) \/ WgDone(i)
      BY <3>2 DEF Release, WgDone, Goto, Holders, Base, TypeBase
    <3> QED BY <3>1, <3>2, JobKeepsSlot
  <2>4. \A j \in Holders' : pc'[j] # "release" => j \in Holders /\ pc[j] # "release"
    BY <1>2, <2>3 DEF Holders
  <2> QED BY <1>2, <1>4, <2>2, <2>4
<1>6. CASE MarkProbed(i)
  <2>1. pc[i] = "mark" /\ pc'[i] = "release"
    BY <1>6 DEF MarkProbed, Goto, Base, TypeBase
  <2>2. \A j \in DOMAIN batch : j # i /\ ~Fresh(lastMark, batch[j])
                                => ~Fresh(lastMark, batch[j])'
    BY <1>2, <1>3, <1>6, MarkSparesOthers DEF Fresh
  <2>3. ASSUME main = "acquire" PROVE ~Fresh(lastMark, batch[next])'
    <3>1. next \in DOMAIN batch /\ next # i
      <4>1. i < next /\ next \in Int
        BY <2>1, Started DEF Base, TypeBase
      <4>2. next \in DOMAIN batch
        BY <2>3, BatchType DEF Base, TypeBase, Walked
      <4> QED BY <4>1, <4>2 DEF Jobs
    <3> QED BY <1>2, <1>4, <2>2, <2>3, <3>1
  <2>4. ASSUME NEW j \in Holders', pc'[j] # "release"
        PROVE  ~Fresh(lastMark, batch[j])'
    <3>1. j \in Jobs /\ j # i
      BY <2>1, <2>4 DEF Holders
    <3>2. pc'[j] = pc[j] /\ j \in Holders /\ pc[j] # "release"
      BY <1>2, <2>4, <3>1 DEF Holders
    <3>3. j \in DOMAIN batch
      BY <3>1, <3>2, Started DEF Holders
    <3> QED BY <1>2, <1>4, <2>2, <3>1, <3>2, <3>3
  <2> QED BY <1>2, <2>3, <2>4
<1> QED BY <1>5, <1>6, JobKeepsCache

LEMMA AdmittedTick ==
  ASSUME Base, Admitted, Tick
  PROVE  Admitted'
<1>1. /\ now' = now + 1 /\ UNCHANGED <<lastMark, batch, next, main, pc>>
  BY DEF Tick, mainVars, cacheVars
<1>2. \A p \in Providers : ~Fresh(lastMark, p) => ~Fresh(lastMark, p)'
  BY <1>1, StaysStale
<1>3. \A i \in Holders : batch[i] \in Providers
  BY Started DEF Holders
<1>4. main = "acquire" => batch[next] \in Providers
  BY BatchType DEF Base, TypeBase, Walked
<1>5. Holders' = Holders /\ (Distinct' <=> Distinct)
  BY <1>1 DEF Holders, Distinct
<1> QED BY <1>1, <1>2, <1>3, <1>4, <1>5 DEF Admitted

LEMMA AdmittedNext == Base /\ Forgets /\ Admitted /\ [Next]_vars => Admitted'
<1> SUFFICES ASSUME Base, Forgets, Admitted, [Next]_vars PROVE Admitted'
  OBVIOUS
<1>1. ASSUME NEW b \in Batches, BeginRun(b) PROVE Admitted'
  BY <1>1, AdmittedBegin
<1>2. CASE Main
  BY <1>2, AdmittedMain
<1>3. ASSUME NEW i \in Jobs, Job(i) PROVE Admitted'
  BY <1>3, AdmittedJob
<1>4. CASE Tick
  BY <1>4, AdmittedTick
<1>5. CASE Signal \/ Stopped \/ UNCHANGED vars
  <2>1. UNCHANGED <<now, lastMark, batch, next, main, pc>>
    BY <1>5 DEF Signal, Stopped, vars, envVars, mainVars, cacheVars
  <2> QED BY <2>1 DEF Admitted, Distinct, Holders, Fresh
<1> QED BY <1>1, <1>2, <1>3, <1>4, <1>5 DEF Next

(* For a list that names nobody twice: from the moment Run decides to probe *)
(* a provider to the moment its success is marked, the provider's last      *)
(* success is no younger than CacheTTL, whatever the other jobs do while    *)
(* Run waits for a slot.                                                    *)
THEOREM CacheHonoured == Spec => []NoProbeWithinTTL
<1>1. Init => Base /\ Forgets /\ Admitted
  <2>1. Init => Forgets
    BY DEF Init, Forgets
  <2>2. Init => Admitted
    BY DEF Init, Admitted, Holders
  <2> QED BY <2>1, <2>2, BaseInit
<1>2. Base /\ Forgets /\ Admitted /\ [Next]_vars => (Base /\ Forgets /\ Admitted)'
  BY BaseNext, ForgetsNext, AdmittedNext
<1>3. Admitted => NoProbeWithinTTL
  BY DEF Admitted, Distinct, NoProbeWithinTTL
<1> QED BY <1>1, <1>2, <1>3, PTL DEF Spec

-----------------------------------------------------------------------------
(* What reaches the server. *)

(* A step of one job leaves the record of every other as it is.             *)
Spares(i) ==
  \A j \in Jobs \ {i} :
    /\ loc'[j] = loc[j] /\ failure'[j] = failure[j]
    /\ j \in stored' <=> j \in stored
    /\ j \in measured' <=> j \in measured
    /\ \A c : <<j, c>> \in attempts' <=> <<j, c>> \in attempts

LEMMA JobSpares ==
  ASSUME Base, NEW i \in Jobs, Job(i)
  PROVE  Spares(i)
<1> USE DEF Spares, Base, TypeBase, workVars, serverVars
<1>1. CASE CountAttempt(i)    BY <1>1 DEF CountAttempt
<1>2. CASE OpenFails(i)       BY <1>2 DEF OpenFails
<1>3. CASE OpenTunnel(i)      BY <1>3 DEF OpenTunnel
<1>4. CASE Locate(i)          BY <1>4 DEF Locate
<1>5. CASE SkipHealth(i)      BY <1>5 DEF SkipHealth
<1>6. CASE StartHealth(i)     BY <1>6 DEF StartHealth
<1>7. CASE RunHealth(i)       BY <1>7 DEF RunHealth
<1>8. CASE SubmitHealth(i)    BY <1>8 DEF SubmitHealth
<1>9. CASE NothingToSubmit(i) BY <1>9 DEF NothingToSubmit
<1>10. CASE Submit(i)         BY <1>10 DEF Submit
<1>11. CASE SampleBandwidth(i) BY <1>11 DEF SampleBandwidth
<1>12. CASE CloseTunnel(i)    BY <1>12 DEF CloseTunnel
<1>13. CASE ReportAttempt(i)  BY <1>13 DEF ReportAttempt
<1>14. CASE TallyFailure(i)   BY <1>14 DEF TallyFailure
<1>15. CASE TallySuccess(i)   BY <1>15 DEF TallySuccess
<1>16. CASE MarkProbed(i)     BY <1>16 DEF MarkProbed
<1>17. CASE Release(i)        BY <1>17 DEF Release
<1>18. CASE WgDone(i)         BY <1>18 DEF WgDone
<1> QED
  BY <1>1, <1>2, <1>3, <1>4, <1>5, <1>6, <1>7, <1>8, <1>9, <1>10, <1>11,
     <1>12, <1>13, <1>14, <1>15, <1>16, <1>17, <1>18 DEF Job

(* The record of the job that takes the step. *)
LEMMA OwnRecord ==
  ASSUME Base, NEW i \in Jobs, JobRecord(i), Job(i)
  PROVE  JobRecord(i)'
<1> USE AfterProbeStage, Started
    DEF JobRecord, Goto, Base, TypeBase, Judged, Reported, OpenStages, Failures,
        Success, mainVars, workVars, serverVars
<1>1. CASE CountAttempt(i)    BY <1>1 DEF CountAttempt
<1>2. CASE OpenFails(i)       BY <1>2 DEF OpenFails
<1>3. CASE OpenTunnel(i)      BY <1>3 DEF OpenTunnel
<1>4. CASE Locate(i)          BY <1>4 DEF Locate
<1>5. CASE SkipHealth(i)      BY <1>5 DEF SkipHealth
<1>6. CASE StartHealth(i)     BY <1>6 DEF StartHealth
<1>7. CASE RunHealth(i)       BY <1>7 DEF RunHealth
<1>8. CASE SubmitHealth(i)    BY <1>8 DEF SubmitHealth
<1>9. CASE NothingToSubmit(i)
  <2>1. /\ pc[i] = "submit" /\ pc'[i] = "close"
        /\ UNCHANGED <<loc, stored, measured, attempts, batch>>
    BY <1>9 DEF NothingToSubmit
  <2>2. failure'[i] \in {"no_consensus", "locate_failed", "not_confident"}
    BY <1>9 DEF NothingToSubmit, LocateResults
  <2> QED BY <2>1, <2>2
<1>10. CASE Submit(i)
  BY <1>10 DEF Submit, AfterSubmit, SubmitClass, Deliveries, Delivery
<1>11. CASE SampleBandwidth(i) BY <1>11 DEF SampleBandwidth
<1>12. CASE CloseTunnel(i)    BY <1>12 DEF CloseTunnel
<1>13. CASE ReportAttempt(i)
  <2>1. /\ pc[i] = "report" /\ pc'[i] = "tally"
        /\ UNCHANGED <<loc, failure, stored, measured, batch>>
    BY <1>13 DEF ReportAttempt
  <2>2. attempts' \subseteq attempts \cup {<<i, failure[i]>>}
    BY <1>13 DEF ReportAttempt
  <2>3. \A c : <<i, c>> \in attempts' => c = failure[i]
    BY <2>1, <2>2
  <2> QED BY <2>1, <2>3
<1>14. CASE TallyFailure(i)   BY <1>14 DEF TallyFailure
<1>15. CASE TallySuccess(i)   BY <1>15 DEF TallySuccess
<1>16. CASE MarkProbed(i)     BY <1>16 DEF MarkProbed
<1>17. CASE Release(i)        BY <1>17 DEF Release
<1>18. CASE WgDone(i)         BY <1>18 DEF WgDone
<1> QED
  BY <1>1, <1>2, <1>3, <1>4, <1>5, <1>6, <1>7, <1>8, <1>9, <1>10, <1>11,
     <1>12, <1>13, <1>14, <1>15, <1>16, <1>17, <1>18 DEF Job

LEMMA RecordsNext == Base /\ Records /\ [Next]_vars => Records'
<1> SUFFICES ASSUME Base, Records, [Next]_vars PROVE Records'
  OBVIOUS
<1>1. ASSUME NEW b \in Batches, BeginRun(b) PROVE Records'
  <2>2. /\ stored' = {} /\ measured' = {} /\ attempts' = {}
        /\ \A i \in Jobs : pc'[i] = "none"
    BY <1>1 DEF BeginRun
  <2>3. \A i \in Jobs : JobRecord(i)'
    BY <2>2 DEF JobRecord, Judged, Reported
  <2> QED BY <2>3 DEF Records
<1>2. CASE Spawn
  <2>1. /\ next \in Jobs /\ pc[next] = "none"
    BY <1>2, BatchType DEF Spawn, Base, TypeBase, Walked
  <2>2. \A i \in Jobs : pc'[i] = IF i = next THEN "start" ELSE pc[i]
    BY <1>2 DEF Spawn, Base, TypeBase
  <2>3. UNCHANGED <<batch, workVars, serverVars, cacheVars>>
    BY <1>2 DEF Spawn
  <2>4. \A i \in Jobs : JobRecord(i)'
    BY <2>1, <2>2, <2>3 DEF Records, JobRecord, Judged, Reported, workVars,
       serverVars
  <2> QED BY <2>4 DEF Records
<1>3. ASSUME NEW i \in Jobs, Job(i) PROVE Records'
  <2>1. JobMoves(i) /\ Spares(i) /\ batch' = batch
    BY <1>3, JobStepMoves, JobSpares DEF JobMoves, mainVars
  <2>2. JobRecord(i)'
    BY <1>3, OwnRecord DEF Records
  <2>3. \A j \in Jobs \ {i} : JobRecord(j)'
    BY <2>1 DEF JobMoves, Spares, Records, JobRecord
  <2> QED BY <2>2, <2>3 DEF Records
<1>4. CASE SkipCached \/ Admit \/ EndOfBatch \/ Return \/ Tick \/ Signal
           \/ Stopped \/ UNCHANGED vars
  <2>1. UNCHANGED <<batch, pc, workVars, serverVars, cacheVars>>
    BY <1>4 DEF SkipCached, Admit, EndOfBatch, Return, Tick, Signal, Stopped,
       vars, mainVars
  <2> QED
    BY <2>1 DEF Records, JobRecord, workVars, serverVars, cacheVars
<1> QED BY <1>1, <1>2, <1>3, <1>4 DEF Next, Main

LEMMA RecordsInvariant == Spec => [](Base /\ Records)
<1>1. Init => Base /\ Records
  <2>1. Init => Records
    BY DEF Init, Records, JobRecord, Judged, Reported
  <2> QED BY <2>1, BaseInit
<1>2. Base /\ Records /\ [Next]_vars => (Base /\ Records)'
  BY BaseNext, RecordsNext
<1> QED BY <1>1, <1>2, PTL DEF Spec

(* An attempt row is true of its job: the class the probe ended with, the   *)
(* tunnel already closed, and a location stored exactly when the class does *)
(* not rule it out.  Bandwidth is measured only behind a stored location,   *)
(* and leaves the probe a success.                                          *)
THEOREM RowsAreTrue == Spec => []AttemptRowsAreTrue
<1>1. Base /\ Records => AttemptRowsAreTrue
  <2> SUFFICES ASSUME Base, Records PROVE AttemptRowsAreTrue
    OBVIOUS
  <2>1. \A i \in stored : loc[i] = "confident"
    BY DEF Base, TypeBase, Records, JobRecord
  <2>2. ASSUME NEW a \in attempts
        PROVE  /\ a[2] = failure[a[1]] /\ a[1] \notin tunnels
               /\ a[2] = Success => a[1] \in stored
               /\ a[1] \in stored => a[2] \in {Success, "submit_failed"}
    <3>1. a[1] \in Jobs /\ a = <<a[1], a[2]>>
      BY DEF Base, TypeBase
    <3>2. pc[a[1]] \in Reported /\ a[2] = failure[a[1]]
      BY <3>1 DEF Records, JobRecord
    <3>3. a[1] \notin tunnels
      BY <3>1, <3>2 DEF Base, Walked, OpenStages, Reported
    <3> QED BY <3>1, <3>2, <3>3 DEF Records, JobRecord, Judged
  <2>3. \A i \in measured : i \in stored /\ failure[i] = Success
    BY DEF Base, TypeBase, Records, JobRecord
  <2> QED BY <2>1, <2>2, <2>3 DEF AttemptRowsAreTrue
<1> QED BY <1>1, RecordsInvariant, PTL

-----------------------------------------------------------------------------
(* Who is put off by the cache.                                             *)

LEMMA EachOnce ==
  ASSUME OneJobEach, Base
  PROVE  Distinct
BY DEF OneJobEach, Distinct, Base, TypeBase

(* A probe is owed something from its first step, and no longer once its    *)
(* submission is acknowledged; nothing else changes that.                   *)
OwesMore(i) ==
  \/ owed' = owed
  \/ pc'[i] = "open" /\ pc[i] = "start" /\ owed' = owed \cup {batch[i]}
  \/ owed' = owed \ {batch[i]}

LEMMA JobOwes ==
  ASSUME Base, NEW i \in Jobs, Job(i)
  PROVE  OwesMore(i)
<1> USE DEF OwesMore, serverVars
<1>1. CASE CountAttempt(i)
  BY <1>1 DEF CountAttempt, Goto, Base, TypeBase
<1>2. CASE OpenFails(i)       BY <1>2 DEF OpenFails
<1>3. CASE OpenTunnel(i)      BY <1>3 DEF OpenTunnel
<1>4. CASE Locate(i)          BY <1>4 DEF Locate
<1>5. CASE SkipHealth(i)      BY <1>5 DEF SkipHealth
<1>6. CASE StartHealth(i)     BY <1>6 DEF StartHealth
<1>7. CASE RunHealth(i)       BY <1>7 DEF RunHealth
<1>8. CASE SubmitHealth(i)    BY <1>8 DEF SubmitHealth
<1>9. CASE NothingToSubmit(i) BY <1>9 DEF NothingToSubmit
<1>10. CASE Submit(i)         BY <1>10 DEF Submit
<1>11. CASE SampleBandwidth(i) BY <1>11 DEF SampleBandwidth
<1>12. CASE CloseTunnel(i)    BY <1>12 DEF CloseTunnel
<1>13. CASE ReportAttempt(i)  BY <1>13 DEF ReportAttempt
<1>14. CASE TallyFailure(i)   BY <1>14 DEF TallyFailure
<1>15. CASE TallySuccess(i)   BY <1>15 DEF TallySuccess
<1>16. CASE MarkProbed(i)     BY <1>16 DEF MarkProbed
<1>17. CASE Release(i)        BY <1>17 DEF Release
<1>18. CASE WgDone(i)         BY <1>18 DEF WgDone
<1> QED
  BY <1>1, <1>2, <1>3, <1>4, <1>5, <1>6, <1>7, <1>8, <1>9, <1>10, <1>11,
     <1>12, <1>13, <1>14, <1>15, <1>16, <1>17, <1>18 DEF Job

(* The job that takes the step is owed unless it succeeds: every way out of *)
(* probeOne but an acknowledged submission leaves it a failure.             *)
LEMMA SuccessIsPaid ==
  ASSUME Base, NEW i \in Jobs, Job(i),
         pc[i] \in Judged /\ failure[i] = Success => batch[i] \notin owed,
         pc'[i] \in Judged, failure'[i] = Success
  PROVE  batch[i] \notin owed'
<1> USE AfterProbeStage
    DEF Goto, Base, TypeBase, Judged, Reported, OpenStages, Failures, Success,
        workVars, serverVars
<1>1. CASE CountAttempt(i)    BY <1>1 DEF CountAttempt
<1>2. CASE OpenFails(i)       BY <1>2 DEF OpenFails
<1>3. CASE OpenTunnel(i)      BY <1>3 DEF OpenTunnel
<1>4. CASE Locate(i)          BY <1>4 DEF Locate
<1>5. CASE SkipHealth(i)      BY <1>5 DEF SkipHealth
<1>6. CASE StartHealth(i)     BY <1>6 DEF StartHealth
<1>7. CASE RunHealth(i)       BY <1>7 DEF RunHealth
<1>8. CASE SubmitHealth(i)    BY <1>8 DEF SubmitHealth
<1>9. CASE NothingToSubmit(i)
  <2>1. failure'[i] \in {"no_consensus", "locate_failed", "not_confident"}
    BY <1>9 DEF NothingToSubmit, LocateResults
  <2> QED BY <2>1
<1>10. CASE Submit(i)         BY <1>10 DEF Submit, SubmitClass
<1>11. CASE SampleBandwidth(i) BY <1>11 DEF SampleBandwidth
<1>12. CASE CloseTunnel(i)    BY <1>12 DEF CloseTunnel
<1>13. CASE ReportAttempt(i)  BY <1>13 DEF ReportAttempt
<1>14. CASE TallyFailure(i)   BY <1>14 DEF TallyFailure
<1>15. CASE TallySuccess(i)   BY <1>15 DEF TallySuccess
<1>16. CASE MarkProbed(i)     BY <1>16 DEF MarkProbed
<1>17. CASE Release(i)        BY <1>17 DEF Release
<1>18. CASE WgDone(i)         BY <1>18 DEF WgDone
<1> QED
  BY <1>1, <1>2, <1>3, <1>4, <1>5, <1>6, <1>7, <1>8, <1>9, <1>10, <1>11,
     <1>12, <1>13, <1>14, <1>15, <1>16, <1>17, <1>18 DEF Job

LEMMA OwingJob ==
  ASSUME Base, Admitted, Records, Distinct, Owing, NEW i \in Jobs, Job(i)
  PROVE  Owing'
<1>1. /\ JobMoves(i) /\ Spares(i) /\ OwesMore(i)
      /\ batch' = batch /\ now' = now
  BY JobStepMoves, JobSpares, JobOwes DEF JobMoves, mainVars, envVars
<1>2. /\ i \in DOMAIN batch /\ batch[i] \in Providers
      /\ \A j \in Jobs \ {i} : pc[j] # "none" => batch[j] # batch[i]
  BY <1>1, Started DEF JobMoves, Distinct
<1>3. ASSUME NEW p \in owed' PROVE ~Fresh(lastMark, p)'
  <2>1. CASE UNCHANGED cacheVars
    <3>1. Fresh(lastMark, p)' <=> Fresh(lastMark, p)
      BY <1>1, <2>1 DEF Fresh, cacheVars
    <3>2. CASE p \in owed
      BY <3>1, <3>2 DEF Owing
    <3>3. CASE p \notin owed
      <4>1. p = batch[i] /\ pc[i] = "start"
        BY <1>1, <1>3, <3>3 DEF OwesMore
      <4>2. ~Fresh(lastMark, batch[i])
        BY <4>1 DEF Admitted, Holders
      <4> QED BY <3>1, <4>1, <4>2
    <3> QED BY <3>2, <3>3
  <2>2. CASE MarkProbed(i)
    <3>1. /\ owed' = owed /\ pc[i] = "mark"
          /\ lastMark' = [lastMark EXCEPT ![batch[i]] = now]
      BY <2>2 DEF MarkProbed, Goto, serverVars
    <3>2. batch[i] \notin owed
      BY <3>1 DEF Records, JobRecord, Owing, Judged, Reported
    <3>3. p \in Providers /\ p # batch[i] /\ ~Fresh(lastMark, p)
      BY <3>1, <3>2, <1>3 DEF Owing, Base, TypeBase
    <3>4. lastMark'[p] = lastMark[p]
      BY <3>1, <3>3 DEF Base, TypeBase
    <3> QED BY <1>1, <3>3, <3>4 DEF Fresh
  <2> QED BY <2>1, <2>2, JobKeepsCache
<1>4. ASSUME NEW j \in Jobs, pc'[j] \in Judged, failure'[j] = Success
      PROVE  batch[j] \notin owed'
  <2>1. CASE j = i
    BY <1>4, <2>1, SuccessIsPaid DEF Owing
  <2>2. CASE j # i
    <3>1. pc[j] \in Judged /\ failure[j] = Success
      BY <1>1, <1>4, <2>2 DEF JobMoves, Spares
    <3>2. batch[j] \notin owed /\ batch[j] # batch[i]
      BY <1>2, <2>2, <3>1 DEF Owing, Judged, Reported
    <3> QED BY <1>1, <3>2 DEF OwesMore
  <2> QED BY <2>1, <2>2
<1> QED BY <1>1, <1>3, <1>4 DEF Owing

LEMMA OwingNext ==
  ASSUME OneJobEach, Base, Admitted, Records, Owing, [Next]_vars
  PROVE  Owing'
<1>1. ASSUME NEW b \in Batches, BeginRun(b) PROVE Owing'
  <2>1. /\ UNCHANGED <<now, owed, lastMark>>
        /\ \A i \in Jobs : pc'[i] = "none"
    BY <1>1 DEF BeginRun, envVars
  <2>2. \A i \in Jobs : pc'[i] \notin Judged
    BY <2>1 DEF Judged, Reported
  <2> QED BY <2>1, <2>2 DEF Owing, Fresh
<1>2. CASE Spawn
  <2>1. UNCHANGED <<now, owed, lastMark, failure, batch>>
    BY <1>2 DEF Spawn, envVars, workVars, serverVars, cacheVars
  <2>2. \A i \in Jobs : pc'[i] \in Judged => pc'[i] = pc[i]
    BY <1>2 DEF Spawn, Base, TypeBase, Judged, Reported
  <2> QED BY <2>1, <2>2 DEF Owing, Fresh
<1>3. ASSUME NEW i \in Jobs, Job(i) PROVE Owing'
  BY <1>3, EachOnce, OwingJob
<1>4. CASE Tick
  <2>1. /\ now' = now + 1
        /\ UNCHANGED <<owed, lastMark, failure, batch, pc>>
    BY <1>4 DEF Tick, mainVars, workVars, serverVars, cacheVars
  <2>2. \A p \in owed : p \in Providers
    BY DEF Base, TypeBase
  <2>3. \A p \in owed : ~Fresh(lastMark, p)'
    BY <2>1, <2>2, StaysStale DEF Owing
  <2> QED BY <2>1, <2>3 DEF Owing
<1>5. CASE SkipCached \/ Admit \/ EndOfBatch \/ Return \/ Signal \/ Stopped
           \/ UNCHANGED vars
  <2>1. UNCHANGED <<now, owed, lastMark, failure, batch, pc>>
    BY <1>5 DEF SkipCached, Admit, EndOfBatch, Return, Signal, Stopped, vars,
       envVars, mainVars, workVars, serverVars, cacheVars
  <2> QED BY <2>1 DEF Owing, Fresh
<1> QED BY <1>1, <1>2, <1>3, <1>4, <1>5 DEF Next, Main

(* A provider whose probe has failed, however it did and whatever the       *)
(* server made of it, is probed again by the next Run that is given it, for *)
(* any fleet, batches, concurrency, TTL and clock.                          *)
THEOREM FailuresAreRetried == Spec => []FailedIsRetried
<1>1. Init => (OneJobEach => Owing)
  BY DEF Init, Owing, Judged, Reported
<1>2. Base /\ Forgets /\ Admitted /\ Records /\ (OneJobEach => Owing) /\ [Next]_vars
        => (OneJobEach => Owing)'
  BY OwingNext DEF OneJobEach
<1>3. Base /\ Forgets /\ (OneJobEach => Owing) => FailedIsRetried
  <2> SUFFICES ASSUME Base, Forgets, OneJobEach, Owing, NEW p \in owed
               PROVE  ~Fresh(probed, p)
    BY DEF FailedIsRetried
  <2>1. p \in Providers /\ ~Fresh(lastMark, p)
    BY DEF Base, TypeBase, Owing
  <2> QED BY <2>1, FreshAlike
<1>4. Init => Base /\ Forgets /\ Admitted /\ Records
  BY BaseInit DEF Init, Forgets, Admitted, Holders, Records, JobRecord, Judged, Reported
<1>5. Base /\ Forgets /\ Admitted /\ Records /\ [Next]_vars
        => (Base /\ Forgets /\ Admitted /\ Records)'
  BY BaseNext, ForgetsNext, AdmittedNext, RecordsNext
<1> QED BY <1>1, <1>2, <1>3, <1>4, <1>5, PTL DEF Spec

-----------------------------------------------------------------------------
(* Every probe makes its report, once. *)

LEMMA OwnCount ==
  ASSUME Base, "Attempts" \in Wired, NEW i \in Jobs,
         calls[i] = IF pc[i] \in Reported THEN 1 ELSE 0, Job(i)
  PROVE  /\ calls'[i] = IF pc'[i] \in Reported THEN 1 ELSE 0
         /\ \A j \in Jobs \ {i} : calls'[j] = calls[j]
<1> USE AfterProbeStage DEF Goto, Base, TypeBase, Reported, workVars
<1>1. CASE CountAttempt(i)    BY <1>1 DEF CountAttempt
<1>2. CASE OpenFails(i)       BY <1>2 DEF OpenFails
<1>3. CASE OpenTunnel(i)      BY <1>3 DEF OpenTunnel
<1>4. CASE Locate(i)          BY <1>4 DEF Locate
<1>5. CASE SkipHealth(i)      BY <1>5 DEF SkipHealth
<1>6. CASE StartHealth(i)     BY <1>6 DEF StartHealth
<1>7. CASE RunHealth(i)       BY <1>7 DEF RunHealth
<1>8. CASE SubmitHealth(i)    BY <1>8 DEF SubmitHealth
<1>9. CASE NothingToSubmit(i) BY <1>9 DEF NothingToSubmit
<1>10. CASE Submit(i)         BY <1>10 DEF Submit, AfterSubmit
<1>11. CASE SampleBandwidth(i) BY <1>11 DEF SampleBandwidth
<1>12. CASE CloseTunnel(i)    BY <1>12 DEF CloseTunnel
<1>13. CASE ReportAttempt(i)  BY <1>13 DEF ReportAttempt
<1>14. CASE TallyFailure(i)   BY <1>14 DEF TallyFailure
<1>15. CASE TallySuccess(i)   BY <1>15 DEF TallySuccess
<1>16. CASE MarkProbed(i)     BY <1>16 DEF MarkProbed
<1>17. CASE Release(i)        BY <1>17 DEF Release
<1>18. CASE WgDone(i)         BY <1>18 DEF WgDone
<1> QED
  BY <1>1, <1>2, <1>3, <1>4, <1>5, <1>6, <1>7, <1>8, <1>9, <1>10, <1>11,
     <1>12, <1>13, <1>14, <1>15, <1>16, <1>17, <1>18 DEF Job

LEMMA CountedNext == Base /\ Counted /\ [Next]_vars => Counted'
<1> SUFFICES ASSUME Base, Counted, [Next]_vars, "Attempts" \in Wired
             PROVE  \A i \in Jobs : calls'[i] = IF pc'[i] \in Reported THEN 1 ELSE 0
  BY DEF Counted
<1>0. \A i \in Jobs : calls[i] = IF pc[i] \in Reported THEN 1 ELSE 0
  BY DEF Counted
<1>1. ASSUME NEW b \in Batches, BeginRun(b)
      PROVE  \A i \in Jobs : calls'[i] = 0 /\ pc'[i] = "none"
  BY <1>1 DEF BeginRun
<1>2. CASE Spawn
  <2>1. calls' = calls /\ pc[next] \notin Reported
    BY <1>2, BatchType DEF Spawn, Base, TypeBase, Walked, Reported, workVars
  <2>2. \A i \in Jobs : pc'[i] = IF i = next THEN "start" ELSE pc[i]
    BY <1>2 DEF Spawn, Base, TypeBase
  <2> QED BY <1>0, <2>1, <2>2 DEF Reported
<1>3. ASSUME NEW i \in Jobs, Job(i)
      PROVE  \A j \in Jobs : calls'[j] = IF pc'[j] \in Reported THEN 1 ELSE 0
  <2>1. \A j \in Jobs \ {i} : pc'[j] = pc[j]
    BY <1>3, JobStepMoves DEF JobMoves
  <2> QED BY <1>0, <1>3, <2>1, OwnCount
<1>4. CASE SkipCached \/ Admit \/ EndOfBatch \/ Return \/ Tick \/ Signal
           \/ Stopped \/ UNCHANGED vars
  <2>1. UNCHANGED <<pc, calls>>
    BY <1>4 DEF SkipCached, Admit, EndOfBatch, Return, Tick, Signal, Stopped,
       vars, workVars
  <2> QED BY <1>0, <2>1
<1> QED BY <1>1, <1>2, <1>3, <1>4 DEF Next, Main, Reported

(* "No path through this function can forget": every probe calls            *)
(* ReportAttempt once, after its tunnel is closed and before it is counted. *)
THEOREM EveryProbeReports == Spec => []ReportedOnce
<1>1. Init => Base /\ Counted
  <2>1. Init => Counted
    BY DEF Init, Counted, Reported
  <2> QED BY <2>1, BaseInit
<1>2. Base /\ Counted /\ [Next]_vars => (Base /\ Counted)'
  BY BaseNext, CountedNext
<1>3. Counted => ReportedOnce
  BY DEF Counted, ReportedOnce, Reported
<1> QED BY <1>1, <1>2, <1>3, PTL DEF Spec

-----------------------------------------------------------------------------
(* What shutdown cuts short is not recorded. *)

LEMMA CutNext == CutOnlyWhenDone /\ [Next]_vars => CutOnlyWhenDone'
<1> SUFFICES ASSUME CutOnlyWhenDone, [Next]_vars PROVE CutOnlyWhenDone'
  OBVIOUS
<1> USE DEF CutOnlyWhenDone
<1>1. ASSUME NEW b \in Batches, BeginRun(b) PROVE CutOnlyWhenDone'
  BY <1>1 DEF BeginRun
<1>2. ASSUME NEW i \in Jobs, Job(i) PROVE CutOnlyWhenDone'
  <2>1. ctxDone' = ctxDone
    BY <1>2 DEF Job, CountAttempt, OpenFails, OpenTunnel, Locate, SkipHealth,
       StartHealth, RunHealth, SubmitHealth, NothingToSubmit, Submit,
       SampleBandwidth, CloseTunnel, ReportAttempt, TallyFailure, TallySuccess,
       MarkProbed, Release, WgDone, envVars
  <2>2. cut' = cut \/ ctxDone
    BY <1>2 DEF Job, CountAttempt, OpenFails, OpenTunnel, Locate, SkipHealth,
       StartHealth, RunHealth, SubmitHealth, NothingToSubmit, Submit,
       SampleBandwidth, CloseTunnel, ReportAttempt, TallyFailure, TallySuccess,
       MarkProbed, Release, WgDone, workVars, CutIf
  <2> QED BY <2>1, <2>2
<1>3. CASE Main \/ Tick \/ Signal \/ Stopped \/ UNCHANGED vars
  BY <1>3 DEF Main, SkipCached, Admit, Spawn, EndOfBatch, Return, Tick, Signal,
     Stopped, vars, envVars, workVars
<1> QED BY <1>1, <1>2, <1>3 DEF Next

(* Under a done context no call carries anything to the server. *)
LEMMA NothingSentWhenDone ==
  ASSUME ctxDone, NEW i \in Jobs, Job(i)
  PROVE  UNCHANGED <<stored, healthRows, attempts>>
<1>1. \A d \in Deliveries : ~d.reached
  BY DEF Deliveries
<1> QED
  BY <1>1 DEF Job, CountAttempt, OpenFails, OpenTunnel, Locate, SkipHealth,
     StartHealth, RunHealth, SubmitHealth, NothingToSubmit, Submit,
     SampleBandwidth, CloseTunnel, ReportAttempt, TallyFailure, TallySuccess,
     MarkProbed, Release, WgDone, serverVars

(* A probe that shutdown cuts short accuses nobody: none of the verdicts    *)
(* its crippled steps reach is recorded against the provider.               *)
THEOREM ShutdownAccusesNobody == Spec => NothingRecordedOnceCut
<1>1. Init => CutOnlyWhenDone
  BY DEF Init, CutOnlyWhenDone
<1>2. CutOnlyWhenDone /\ [Next]_vars
        => [\A i \in cut : RowsOf(i)' = RowsOf(i)]_vars
  <2> SUFFICES ASSUME CutOnlyWhenDone, Next, NEW i \in cut
               PROVE  RowsOf(i)' = RowsOf(i)
    OBVIOUS
  <2>1. ctxDone
    BY DEF CutOnlyWhenDone
  <2>2. UNCHANGED <<stored, healthRows, attempts>>
    <3>1. ASSUME NEW b \in Batches, BeginRun(b) PROVE FALSE
      BY <2>1, <3>1 DEF BeginRun, MayBegin
    <3>2. ASSUME NEW k \in Jobs, Job(k)
          PROVE  UNCHANGED <<stored, healthRows, attempts>>
      BY <2>1, <3>2, NothingSentWhenDone
    <3>3. CASE Main \/ Tick \/ Signal \/ Stopped
      BY <3>3 DEF Main, SkipCached, Admit, Spawn, EndOfBatch, Return, Tick,
         Signal, Stopped, vars, serverVars
    <3> QED BY <3>1, <3>2, <3>3 DEF Next
  <2> QED BY <2>2 DEF RowsOf
<1> QED BY <1>1, <1>2, CutNext, PTL DEF Spec, NothingRecordedOnceCut

-----------------------------------------------------------------------------
(* The Summary. *)

(* A job is counted as attempted when it leaves "start", and as its outcome *)
(* when it leaves "tally"; what Run has walked past and not started, it has *)
(* skipped.                                                                 *)
Begun   == {i \in Jobs : pc[i] # "none"}
Tried   == {i \in Jobs : pc[i] \notin {"none", "start"}}
Settled == {"mark", "release", "wgdone", "done"}
Won     == {i \in Jobs : pc[i] \in Settled /\ failure[i] = Success}
Failed  == {i \in Jobs : pc[i] \in Settled /\ failure[i] # Success}
Tallies ==
  /\ sum.attempted = Cardinality(Tried)
  /\ sum.submitted = Cardinality(Won) /\ sum.failed = Cardinality(Failed)
  /\ sum.skipped + Cardinality(Begun) = next - 1
  /\ main \in {"wait", "idle"} => next = Len(batch) + 1

LEMMA CountsFinite ==
  /\ IsFiniteSet(Begun) /\ IsFiniteSet(Tried)
  /\ IsFiniteSet(Won) /\ IsFiniteSet(Failed)
  /\ Cardinality(Begun) \in Nat /\ Cardinality(Tried) \in Nat
  /\ Cardinality(Won) \in Nat /\ Cardinality(Failed) \in Nat
BY JobsFinite DEF Begun, Tried, Won, Failed

LEMMA TalliesInit == Init => Tallies
<1> SUFFICES ASSUME Init PROVE Tallies
  OBVIOUS
<1>1. Begun = {} /\ Tried = {} /\ Won = {} /\ Failed = {}
  BY DEF Init, Begun, Tried, Won, Failed, Settled
<1>2. Len(batch) = 0 /\ next = 1 /\ sum = NoSummary
  BY DEF Init
<1> QED BY <1>1, <1>2, FS_EmptySet DEF Tallies, NoSummary

LEMMA TalliesBegin ==
  ASSUME NEW b \in Batches, BeginRun(b)
  PROVE  Tallies'
<1>1. Begun' = {} /\ Tried' = {} /\ Won' = {} /\ Failed' = {}
  BY DEF BeginRun, Begun, Tried, Won, Failed, Settled
<1>2. next' = 1 /\ sum' = NoSummary /\ main' = "check"
  BY DEF BeginRun
<1> QED BY <1>1, <1>2, FS_EmptySet DEF Tallies, NoSummary

LEMMA TalliesMain ==
  ASSUME Base, Tallies, Main
  PROVE  Tallies'
<1> USE DEF Tallies
<1>0. next \in Nat /\ sum \in Summary /\ Len(batch) \in Nat
      /\ next <= Len(batch) + 1
  BY BatchType DEF Base, TypeBase
<1>1. ASSUME UNCHANGED <<pc, failure>>
      PROVE  Begun' = Begun /\ Tried' = Tried /\ Won' = Won /\ Failed' = Failed
  BY <1>1 DEF Begun, Tried, Won, Failed
<1>2. CASE SkipCached
  <2>1. UNCHANGED <<main, batch, pc, failure>> /\ next' = next + 1
    BY <1>2 DEF SkipCached, workVars
  <2>2. /\ sum'.skipped = sum.skipped + 1 /\ sum'.attempted = sum.attempted
        /\ sum'.submitted = sum.submitted /\ sum'.failed = sum.failed
    BY <1>0, <1>2 DEF SkipCached, Summary
  <2>3. main \notin {"wait", "idle"}
    BY <1>2 DEF SkipCached
  <2> QED BY <1>0, <1>1, <2>1, <2>2, <2>3, CountsFinite DEF Summary
<1>3. CASE Admit
  BY <1>1, <1>3 DEF Admit, workVars
<1>4. CASE Spawn
  <2>1. next \in Jobs /\ pc[next] = "none"
    BY <1>4, BatchType DEF Spawn, Base, TypeBase, Walked
  <2>2. \A i \in Jobs : pc'[i] = IF i = next THEN "start" ELSE pc[i]
    BY <1>4 DEF Spawn, Base, TypeBase
  <2>3. UNCHANGED <<sum, failure, batch>> /\ next' = next + 1 /\ main' = "check"
    BY <1>4 DEF Spawn, workVars
  <2>4. Begun' = Begun \cup {next} /\ next \notin Begun
    BY <2>1, <2>2 DEF Begun
  <2>5. Tried' = Tried /\ Won' = Won /\ Failed' = Failed
    BY <2>1, <2>2, <2>3 DEF Tried, Won, Failed, Settled
  <2>6. Cardinality(Begun') = Cardinality(Begun) + 1
    BY <2>4, CountsFinite, FS_AddElement
  <2> QED BY <1>0, <2>3, <2>5, <2>6, CountsFinite DEF Summary
<1>5. CASE EndOfBatch
  <2>1. UNCHANGED <<batch, next, sum, pc, failure>> /\ next > Len(batch)
    BY <1>5 DEF EndOfBatch, poolVars, workVars
  <2> QED BY <1>0, <1>1, <2>1
<1>6. CASE Return
  <2>1. UNCHANGED <<batch, next, sum, pc, failure>> /\ main = "wait"
    BY <1>6 DEF Return, poolVars, workVars
  <2> QED BY <1>1, <2>1
<1> QED BY <1>2, <1>3, <1>4, <1>5, <1>6 DEF Main

(* Every step but these three leaves the Summary alone, and the job as well *)
(* counted as it was.                                                       *)
KeepsCount(i) ==
  /\ sum' = sum
  /\ pc[i] \notin {"none", "start"} /\ pc'[i] \notin {"none", "start"}
  /\ pc'[i] \in Settled <=> pc[i] \in Settled
  /\ pc[i] \in Settled => failure'[i] = failure[i]

LEMMA JobKeepsCount ==
  ASSUME Base, NEW i \in Jobs, Job(i)
  PROVE  KeepsCount(i) \/ CountAttempt(i) \/ TallyFailure(i) \/ TallySuccess(i)
<1> USE AfterProbeStage
    DEF KeepsCount, Settled, Goto, Base, TypeBase, poolVars, workVars
<1>2. CASE OpenFails(i)       BY <1>2 DEF OpenFails
<1>3. CASE OpenTunnel(i)      BY <1>3 DEF OpenTunnel
<1>4. CASE Locate(i)          BY <1>4 DEF Locate
<1>5. CASE SkipHealth(i)      BY <1>5 DEF SkipHealth
<1>6. CASE StartHealth(i)     BY <1>6 DEF StartHealth
<1>7. CASE RunHealth(i)       BY <1>7 DEF RunHealth
<1>8. CASE SubmitHealth(i)    BY <1>8 DEF SubmitHealth
<1>9. CASE NothingToSubmit(i) BY <1>9 DEF NothingToSubmit
<1>10. CASE Submit(i)         BY <1>10 DEF Submit, AfterSubmit
<1>11. CASE SampleBandwidth(i) BY <1>11 DEF SampleBandwidth
<1>12. CASE CloseTunnel(i)    BY <1>12 DEF CloseTunnel
<1>13. CASE ReportAttempt(i)  BY <1>13 DEF ReportAttempt
<1>16. CASE MarkProbed(i)     BY <1>16 DEF MarkProbed
<1>17. CASE Release(i)        BY <1>17 DEF Release
<1>18. CASE WgDone(i)         BY <1>18 DEF WgDone
<1> QED
  BY <1>2, <1>3, <1>4, <1>5, <1>6, <1>7, <1>8, <1>9, <1>10, <1>11, <1>12,
     <1>13, <1>16, <1>17, <1>18 DEF Job

LEMMA TalliesJob ==
  ASSUME Base, Tallies, NEW i \in Jobs, Job(i)
  PROVE  Tallies'
<1> USE DEF Tallies
<1>0. /\ sum \in Summary
      /\ \A j \in Jobs \ {i} : pc'[j] = pc[j] /\ failure'[j] = failure[j]
      /\ UNCHANGED <<main, batch, next>> /\ pc[i] # "none" /\ pc'[i] # "none"
  BY JobStepMoves, JobSpares DEF JobMoves, Spares, Base, TypeBase, mainVars
<1>1. Begun' = Begun
  BY <1>0 DEF Begun
<1>2. CASE KeepsCount(i)
  <2>1. Tried' = Tried /\ Won' = Won /\ Failed' = Failed
    BY <1>0, <1>2 DEF KeepsCount, Tried, Won, Failed
  <2> QED BY <1>0, <1>1, <1>2, <2>1 DEF KeepsCount
<1>3. CASE CountAttempt(i)
  <2>1. pc[i] = "start" /\ pc'[i] = "open" /\ failure' = failure
    BY <1>3 DEF CountAttempt, Goto, Base, TypeBase, workVars
  <2>2. /\ sum'.attempted = sum.attempted + 1 /\ sum'.skipped = sum.skipped
        /\ sum'.submitted = sum.submitted /\ sum'.failed = sum.failed
    BY <1>0, <1>3 DEF CountAttempt, Summary
  <2>3. Tried' = Tried \cup {i} /\ i \notin Tried
    BY <1>0, <2>1 DEF Tried
  <2>4. Won' = Won /\ Failed' = Failed
    BY <1>0, <2>1 DEF Won, Failed, Settled
  <2>5. Cardinality(Tried') = Cardinality(Tried) + 1
    BY <2>3, CountsFinite, FS_AddElement
  <2> QED BY <1>0, <1>1, <2>2, <2>4, <2>5
<1>4. CASE TallyFailure(i)
  <2>1. /\ pc[i] = "tally" /\ pc'[i] = "release" /\ failure' = failure
        /\ failure[i] # Success
    BY <1>4 DEF TallyFailure, Goto, Base, TypeBase, workVars
  <2>2. /\ sum'.attempted = sum.attempted /\ sum'.skipped = sum.skipped
        /\ sum'.submitted = sum.submitted /\ sum'.failed = sum.failed + 1
    BY <1>0, <1>4 DEF TallyFailure, Summary
  <2>3. Failed' = Failed \cup {i} /\ i \notin Failed
    BY <1>0, <2>1 DEF Failed, Settled
  <2>4. Tried' = Tried /\ Won' = Won
    BY <1>0, <2>1 DEF Tried, Won, Settled
  <2>5. Cardinality(Failed') = Cardinality(Failed) + 1
    BY <2>3, CountsFinite, FS_AddElement
  <2> QED BY <1>0, <1>1, <2>2, <2>4, <2>5
<1>5. CASE TallySuccess(i)
  <2>1. /\ pc[i] = "tally" /\ pc'[i] = "mark" /\ failure' = failure
        /\ failure[i] = Success
    BY <1>5 DEF TallySuccess, Goto, Base, TypeBase, workVars
  <2>2. /\ sum'.attempted = sum.attempted /\ sum'.skipped = sum.skipped
        /\ sum'.submitted = sum.submitted + 1 /\ sum'.failed = sum.failed
    BY <1>0, <1>5 DEF TallySuccess, Summary
  <2>3. Won' = Won \cup {i} /\ i \notin Won
    BY <1>0, <2>1 DEF Won, Settled
  <2>4. Tried' = Tried /\ Failed' = Failed
    BY <1>0, <2>1 DEF Tried, Failed, Settled
  <2>5. Cardinality(Won') = Cardinality(Won) + 1
    BY <2>3, CountsFinite, FS_AddElement
  <2> QED BY <1>0, <1>1, <2>2, <2>4, <2>5
<1> QED BY <1>2, <1>3, <1>4, <1>5, JobKeepsCount

LEMMA TalliesNext == Base /\ Tallies /\ [Next]_vars => Tallies'
<1> SUFFICES ASSUME Base, Tallies, [Next]_vars PROVE Tallies'
  OBVIOUS
<1>1. ASSUME NEW b \in Batches, BeginRun(b) PROVE Tallies'
  BY <1>1, TalliesBegin
<1>2. CASE Main
  BY <1>2, TalliesMain
<1>3. ASSUME NEW i \in Jobs, Job(i) PROVE Tallies'
  BY <1>3, TalliesJob
<1>4. CASE Tick \/ Signal \/ Stopped \/ UNCHANGED vars
  BY <1>4 DEF Tick, Signal, Stopped, vars, mainVars, poolVars, workVars, Tallies,
     Begun, Tried, Won, Failed
<1> QED BY <1>1, <1>2, <1>3, <1>4 DEF Next

(* The Summary Run returns counts every provider of the batch once, as      *)
(* skipped or attempted, and every attempt once, as what became of it:      *)
(* nothing is counted while a goroutine may still be running.               *)
THEOREM SummaryExact == Spec => []SummaryIsExact
<1>1. Init => Base /\ Slots /\ Tallies
  BY BaseInit, SlotsInit, TalliesInit
<1>2. Base /\ Slots /\ Tallies /\ [Next]_vars => (Base /\ Slots /\ Tallies)'
  BY BaseNext, SlotsNext, TalliesNext
<1>3. Base /\ Slots /\ Tallies => SummaryIsExact
  <2> SUFFICES ASSUME Base, Slots, Tallies, main = "idle" PROVE SummaryIsExact
    BY DEF SummaryIsExact
  <2> DEFINE ran == {i \in Jobs : pc[i] = "done"}
             won == {i \in ran : failure[i] = Success}
  <2>1. \A i \in Jobs : pc[i] \in {"none", "done"}
    BY DEF Slots, Running
  <2>2. ran = Tried /\ ran = Begun
    BY <2>1 DEF Tried, Begun
  <2>3. won = Won /\ ran \ won = Failed
    BY <2>1 DEF Won, Failed, Settled
  <2>4. sum.skipped = Len(batch) - Cardinality(Begun)
    BY CountsFinite, BatchType DEF Tallies, Base, TypeBase, Summary
  <2> HIDE DEF ran, won
  <2>5. /\ sum.attempted = Cardinality(ran) /\ sum.submitted = Cardinality(won)
        /\ sum.failed = Cardinality(ran \ won)
        /\ sum.skipped = Len(batch) - Cardinality(ran)
    BY <2>2, <2>3, <2>4 DEF Tallies
  <2> QED BY <2>5 DEF SummaryIsExact, ran, won
<1> QED BY <1>1, <1>2, <1>3, PTL DEF Spec

-----------------------------------------------------------------------------
(* Why a Run returns: it has only so many steps to take, and somebody can   *)
(* always take one of them.                                                 *)

(* The steps a goroutine has ahead of it at most, by where it stands.       *)
StepsAhead(stage) ==
  CASE stage = "none"         -> 15 [] stage = "start"     -> 14
    [] stage = "open"         -> 13 [] stage = "locate"    -> 12
    [] stage = "health"       -> 11 [] stage = "healthRun" -> 10
    [] stage = "healthSubmit" -> 9  [] stage = "submit"    -> 8
    [] stage = "bandwidth"    -> 7  [] stage = "close"     -> 6
    [] stage = "report"       -> 5  [] stage = "tally"     -> 4
    [] stage = "mark"         -> 3  [] stage = "release"   -> 2
    [] stage = "wgdone"       -> 1  [] stage = "done"      -> 0

JobsAheadAt(st) == Amount([i \in Jobs |-> StepsAhead(st[i])], Jobs, 15)
JobsAhead == JobsAheadAt(pc)

(* Two for each provider that is left, and two to leave the loop and wait.  *)
MainAheadAt(at, left) ==
  CASE at = "check"   -> 2 * left + 2
    [] at = "acquire" -> 2 * left + 1
    [] at = "wait"    -> 1
    [] at = "idle"    -> 0
MainAhead == MainAheadAt(main, Len(batch) + 1 - next)

StepsLeft == MainAhead + JobsAhead

(* Everything but the clock and the context.                                *)
Work == <<mainVars, poolVars, pc, workVars, serverVars, cacheVars>>

(* Whatever main and the goroutines do while a Run is in progress, fails or *)
(* not, brings its end nearer, and no tick and no signal puts it off: there *)
(* is no retry and no second walk.                                          *)
EveryStepCounts ==
  [][main # "idle" => StepsLeft' < StepsLeft \/ UNCHANGED <<StepsLeft, Work>>]_vars

(* Where main, and where a goroutine, is not blocked.                       *)
MainMayStep == \/ main = "check"
               \/ main = "acquire" /\ SlotFree
               \/ main = "wait" /\ Waited
JobMayStep(i) == pc[i] \notin {"none", "done"}

(* While main waits for a slot or for the group, there is a goroutine that  *)
(* will give it one: no slot is lost, and no Done.                          *)
SomebodyMayStep == main # "idle" => MainMayStep \/ \E i \in Jobs : JobMayStep(i)

LEMMA JobsAheadType ==
  ASSUME NEW st \in [Jobs -> Stages]
  PROVE  /\ [i \in Jobs |-> StepsAhead(st[i])] \in [Jobs -> 0 .. 15]
         /\ JobsAheadAt(st) \in Nat /\ JobsAheadAt(st) <= 15 * MaxBatch
<1>1. ASSUME NEW i \in Jobs PROVE StepsAhead(st[i]) \in 0 .. 15
  <2>1. st[i] \in Stages
    OBVIOUS
  <2> QED BY <2>1 DEF StepsAhead, Stages
<1>2. IsFiniteSet(Jobs)
  BY JobsFinite
<1>3. Cardinality(Jobs) = MaxBatch
  <2>1. 1 \in Int /\ MaxBatch \in Nat
    BY BatchesAssumption
  <2> QED BY <2>1, FS_Interval DEF Jobs
<1>4. JobsAheadAt(st) \in Nat /\ JobsAheadAt(st) <= Cardinality(Jobs) * 15
  BY <1>2, CellsAreFinite DEF JobsAheadAt
<1> QED BY <1>1, <1>3, <1>4, BatchesAssumption

(* A goroutine that has moved has fewer steps ahead, and the others as many. *)
LEMMA FewerAhead ==
  ASSUME NEW st \in [Jobs -> Stages], NEW to \in [Jobs -> Stages], NEW i \in Jobs,
         StepsAhead(to[i]) < StepsAhead(st[i]),
         \A j \in Jobs \ {i} : to[j] = st[j]
  PROVE  JobsAheadAt(to) < JobsAheadAt(st)
<1> DEFINE f == [j \in Jobs |-> StepsAhead(st[j])]
           h == [j \in Jobs |-> StepsAhead(to[j])]
<1>1. /\ f \in [Jobs -> 0 .. 15] /\ h \in [Jobs -> 0 .. 15]
      /\ JobsAheadAt(st) \in Nat /\ JobsAheadAt(to) \in Nat
  BY JobsAheadType
<1>2. JobsAheadAt(st) = Amount(f, Jobs, 15) /\ JobsAheadAt(to) = Amount(h, Jobs, 15)
  BY DEF JobsAheadAt
<1>3. h[i] < f[i] /\ \A j \in Jobs : j # i => h[j] = f[j]
  OBVIOUS
<1>4. IsFiniteSet(Jobs)
  BY JobsFinite
<1> HIDE DEF f, h
<1>5. Amount(h, Jobs, 15) = Amount(f, Jobs, 15) + h[i] - f[i]
  BY <1>1, <1>3, <1>4, AmountChanges
<1>6. h[i] \in Nat /\ f[i] \in Nat
  BY <1>1
<1> QED BY <1>1, <1>2, <1>3, <1>5, <1>6

LEMMA JobGoesForward ==
  ASSUME Base, NEW i \in Jobs, Job(i)
  PROVE  StepsAhead(pc'[i]) < StepsAhead(pc[i])
<1> USE AfterProbeStage DEF Goto, Base, TypeBase, StepsAhead, OpenStages
<1>1. CASE CountAttempt(i)    BY <1>1 DEF CountAttempt
<1>2. CASE OpenFails(i)       BY <1>2 DEF OpenFails
<1>3. CASE OpenTunnel(i)      BY <1>3 DEF OpenTunnel
<1>4. CASE Locate(i)          BY <1>4 DEF Locate
<1>5. CASE SkipHealth(i)      BY <1>5 DEF SkipHealth
<1>6. CASE StartHealth(i)     BY <1>6 DEF StartHealth
<1>7. CASE RunHealth(i)       BY <1>7 DEF RunHealth
<1>8. CASE SubmitHealth(i)    BY <1>8 DEF SubmitHealth
<1>9. CASE NothingToSubmit(i) BY <1>9 DEF NothingToSubmit
<1>10. CASE Submit(i)         BY <1>10 DEF Submit, AfterSubmit
<1>11. CASE SampleBandwidth(i) BY <1>11 DEF SampleBandwidth
<1>12. CASE CloseTunnel(i)    BY <1>12 DEF CloseTunnel
<1>13. CASE ReportAttempt(i)  BY <1>13 DEF ReportAttempt
<1>14. CASE TallyFailure(i)   BY <1>14 DEF TallyFailure
<1>15. CASE TallySuccess(i)   BY <1>15 DEF TallySuccess
<1>16. CASE MarkProbed(i)     BY <1>16 DEF MarkProbed
<1>17. CASE Release(i)        BY <1>17 DEF Release
<1>18. CASE WgDone(i)         BY <1>18 DEF WgDone
<1> QED
  BY <1>1, <1>2, <1>3, <1>4, <1>5, <1>6, <1>7, <1>8, <1>9, <1>10, <1>11,
     <1>12, <1>13, <1>14, <1>15, <1>16, <1>17, <1>18 DEF Job

LEMMA MainAheadType ==
  ASSUME NEW b \in Batches \cup {<<>>}, NEW n \in 1 .. Len(b) + 1,
         NEW at \in {"check", "acquire", "wait", "idle"}
  PROVE  /\ Len(b) \in Nat /\ n \in Nat /\ n <= Len(b) + 1
         /\ MainAheadAt(at, Len(b) + 1 - n) \in Nat
         /\ MainAheadAt(at, Len(b) + 1 - n) <= 2 * MaxBatch + 2
<1>1. Len(b) \in Nat /\ Len(b) <= MaxBatch /\ n \in Nat /\ 1 <= n /\ n <= Len(b) + 1
  BY BatchType, BatchesAssumption
<1> QED BY <1>1, BatchesAssumption DEF MainAheadAt

LEMMA MainGoesForward ==
  ASSUME Base, Base', Main
  PROVE  MainAhead' < MainAhead /\ JobsAhead' <= JobsAhead
<1>1. /\ Len(batch) \in Nat /\ next \in Nat /\ next <= Len(batch) + 1
      /\ JobsAhead \in Nat /\ JobsAhead' \in Nat
  BY MainAheadType, JobsAheadType DEF Base, TypeBase, JobsAhead
<1>2. CASE Spawn
  <2>1. /\ main = "acquire" /\ main' = "check" /\ next' = next + 1 /\ batch' = batch
        /\ pc' = [pc EXCEPT ![next] = "start"] /\ next <= Len(batch)
    BY <1>2 DEF Spawn, Base, Walked
  <2>2. next \in Jobs /\ pc[next] = "none" /\ pc \in [Jobs -> Stages]
    <3>1. next \in 1 .. Len(batch)
      BY <2>1 DEF Base, TypeBase
    <3>2. next \in Jobs
      BY <3>1, BatchType DEF Base, TypeBase
    <3>3. ~(next < next)
      BY <1>1
    <3> QED BY <3>2, <3>3 DEF Base, Walked, TypeBase
  <2>3. StepsAhead(pc'[next]) < StepsAhead(pc[next])
    BY <2>1, <2>2 DEF StepsAhead
  <2>4. JobsAhead' < JobsAhead
    BY <2>1, <2>2, <2>3, FewerAhead DEF JobsAhead, Base, TypeBase
  <2>5. MainAhead' < MainAhead
    BY <1>1, <2>1 DEF MainAhead, MainAheadAt
  <2> QED BY <1>1, <2>4, <2>5
<1>3. CASE SkipCached \/ Admit \/ EndOfBatch \/ Return
  <2>1. JobsAhead' = JobsAhead /\ batch' = batch
    BY <1>3 DEF SkipCached, Admit, EndOfBatch, Return, JobsAhead, mainVars
  <2> DEFINE left == Len(batch) + 1 - next
  <2>2. left \in Nat /\ MainAhead = MainAheadAt(main, left)
    BY <1>1 DEF MainAhead
  <2>3. CASE SkipCached
    <3>1. main = "check" /\ main' = "check" /\ left - 1 = Len(batch') + 1 - next'
      BY <1>1, <2>1, <2>3 DEF SkipCached
    <3>2. MainAhead' = MainAheadAt("check", left - 1) /\ MainAhead = MainAheadAt("check", left)
      BY <3>1 DEF MainAhead
    <3> HIDE DEF left
    <3>3. MainAheadAt("check", left - 1) < MainAheadAt("check", left)
      BY <2>2 DEF MainAheadAt
    <3> QED BY <1>1, <2>1, <3>2, <3>3
  <2>4. CASE Admit \/ EndOfBatch \/ Return
    <3>1. left = Len(batch') + 1 - next'
      BY <2>1, <2>4 DEF Admit, EndOfBatch, Return, mainVars
    <3>2. \/ main = "check" /\ main' \in {"acquire", "wait"}
          \/ main = "wait" /\ main' = "idle"
      BY <2>4 DEF Admit, EndOfBatch, Return
    <3>3. MainAhead' = MainAheadAt(main', left)
      BY <3>1 DEF MainAhead
    <3> HIDE DEF left
    <3> QED BY <1>1, <2>1, <2>2, <3>2, <3>3 DEF MainAheadAt
  <2> QED BY <1>1, <1>3, <2>1, <2>3, <2>4
<1> QED BY <1>2, <1>3 DEF Main

(* Every step of main and of every goroutine, on whatever path through      *)
(* ProbeOne, leaves a Run fewer steps to take.                              *)
THEOREM RunGoesForward == Spec => EveryStepCounts
<1>1. ASSUME Base, Base', [Next]_vars, main # "idle"
      PROVE  StepsLeft' < StepsLeft \/ UNCHANGED <<StepsLeft, Work>>
  <2>0. /\ MainAhead \in Nat /\ MainAhead' \in Nat
        /\ JobsAhead \in Nat /\ JobsAhead' \in Nat
        /\ StepsLeft = MainAhead + JobsAhead /\ StepsLeft' = MainAhead' + JobsAhead'
    BY <1>1, MainAheadType, JobsAheadType DEF Base, TypeBase, MainAhead, JobsAhead, StepsLeft
  <2>1. CASE Main
    <3>1. MainAhead' < MainAhead /\ JobsAhead' <= JobsAhead
      BY <1>1, <2>1, MainGoesForward
    <3>2. MainAhead' + JobsAhead' < MainAhead + JobsAhead
      BY <2>0, <3>1, LessTogether
    <3> QED BY <2>0, <3>2
  <2>2. ASSUME NEW i \in Jobs, Job(i) PROVE StepsLeft' < StepsLeft
    <3>1. StepsAhead(pc'[i]) < StepsAhead(pc[i])
      BY <1>1, <2>2, JobGoesForward
    <3>2. UNCHANGED mainVars /\ \A j \in Jobs \ {i} : pc'[j] = pc[j]
      BY <1>1, <2>2, JobStepMoves DEF JobMoves
    <3>3. JobsAhead' < JobsAhead
      BY <1>1, <3>1, <3>2, FewerAhead DEF JobsAhead, Base, TypeBase
    <3>4. MainAhead' = MainAhead
      BY <3>2 DEF MainAhead, mainVars
    <3>5. MainAhead' <= MainAhead
      BY <2>0, <3>4
    <3>6. MainAhead' + JobsAhead' < MainAhead + JobsAhead
      BY <2>0, <3>3, <3>5, LessTogether
    <3> QED BY <2>0, <3>6
  <2>3. CASE Tick \/ Signal \/ Stopped \/ UNCHANGED vars
    <3>1. UNCHANGED Work
      BY <2>3 DEF Tick, Signal, Stopped, vars, Work
    <3>2. UNCHANGED <<pc, mainVars>>
      BY <3>1 DEF Work
    <3>3. UNCHANGED <<JobsAhead, MainAhead>>
      BY <3>2 DEF JobsAhead, MainAhead, mainVars
    <3> QED BY <3>1, <3>3 DEF StepsLeft
  <2>4. ~ \E b \in Batches : BeginRun(b)
    BY <1>1 DEF BeginRun, MayBegin
  <2> QED BY <1>1, <2>1, <2>2, <2>3, <2>4 DEF Next
<1>2. Base /\ Base' /\ [Next]_vars =>
        [main # "idle" => StepsLeft' < StepsLeft \/ UNCHANGED <<StepsLeft, Work>>]_vars
  BY <1>1
<1> QED BY <1>2, BaseInvariant, PTL DEF Spec, EveryStepCounts

(* A Run takes at most 17 steps for each provider of the longest list, and  *)
(* two more, whatever fails and whenever the signal comes.                  *)
THEOREM RunIsBounded == Spec => [](StepsLeft \in 0 .. 17 * MaxBatch + 2)
<1>1. Base => StepsLeft \in 0 .. 17 * MaxBatch + 2
  <2> SUFFICES ASSUME Base PROVE StepsLeft \in 0 .. 17 * MaxBatch + 2
    OBVIOUS
  <2>1. /\ MainAhead \in Nat /\ MainAhead <= 2 * MaxBatch + 2
        /\ JobsAhead \in Nat /\ JobsAhead <= 15 * MaxBatch
    BY MainAheadType, JobsAheadType DEF Base, TypeBase, MainAhead, JobsAhead
  <2> QED BY <2>1, BatchesAssumption DEF StepsLeft
<1> QED BY <1>1, BaseInvariant, PTL

(* A Run that has not returned is never stuck: main waits for a slot only   *)
(* while a goroutine holds one, and for the group only while one runs.      *)
THEOREM RunIsNeverStuck == Spec => []SomebodyMayStep
<1>1. Base /\ Slots => SomebodyMayStep
  <2> SUFFICES ASSUME Base, Slots, main # "idle", ~MainMayStep
               PROVE  \E i \in Jobs : JobMayStep(i)
    BY DEF SomebodyMayStep
  <2>1. main \in {"acquire", "wait"}
    BY DEF Base, TypeBase, MainMayStep
  <2>2. CASE main = "acquire"
    <3>1. ~(Cardinality(Holders) < Limit)
      BY <2>2 DEF MainMayStep, SlotFree, Slots
    <3>2. Holders # {}
      BY <3>1, LimitType, FS_EmptySet
    <3> QED BY <3>2 DEF Holders, JobMayStep
  <2>3. CASE main = "wait"
    <3>1. Cardinality(Running) # 0
      BY <2>3, JobsFinite DEF MainMayStep, Waited, Slots, Running
    <3>2. Running # {}
      BY <3>1, FS_EmptySet
    <3> QED BY <3>2 DEF Running, JobMayStep
  <2> QED BY <2>1, <2>2, <2>3
<1> QED BY <1>1, SlotsInvariant, PTL

-----------------------------------------------------------------------------
(* Run keeps its promise, for every fleet, every concurrency and cache      *)
(* window, provided no list names a provider twice.  Init maps to Init, and *)
(* each step to a step or to a stutter.                                     *)

Invariants == Base /\ Slots /\ Forgets /\ Admitted /\ Records /\ Tallies

LEMMA InvariantsHold == Spec => []Invariants
<1>1. Init => Invariants
  <2>1. Init => Forgets /\ Admitted /\ Records
    BY DEF Init, Forgets, Admitted, Holders, Records, JobRecord, Judged, Reported
  <2> QED BY <2>1, BaseInit, SlotsInit, TalliesInit DEF Invariants
<1>2. Invariants /\ [Next]_vars => Invariants'
  BY BaseNext, SlotsNext, ForgetsNext, AdmittedNext, RecordsNext, TalliesNext
     DEF Invariants
<1> QED BY <1>1, <1>2, PTL DEF Spec

-----------------------------------------------------------------------------
(* What the promise sees of a state: how a step of the pass shows there.    *)

LEMMA SameStatus ==
  ASSUME NEW j \in Jobs, UNCHANGED <<batch, next>>, pc'[j] = pc[j],
         failure'[j] = failure[j]
  PROVE  statusOf(j)' = statusOf(j)
BY DEF statusOf

LEMMA JobsAreNat == \A j \in Jobs : j \in Nat
BY BatchesAssumption DEF Jobs

(* One operator by two names: the promise instantiates FiniteSets itself. *)
LEMMA SameCardinality == \A s : Abs!Cardinality(s) = Cardinality(s)
BY DEF Cardinality, Abs!Cardinality

LEMMA StatusInit ==
  ASSUME Init
  PROVE  Abs!Init
BY DEF Init, Abs!Init, Abs!Jobs, Jobs, statusOf, Absent, Abs!Absent, NoSummary,
   Abs!NoSummary

LEMMA RefinesBegin ==
  ASSUME NEW b \in Batches, BeginRun(b)
  PROVE  Abs!Begin(b)
<1>1. \A i \in Jobs : statusOf(i)' = "unseen"
  BY DEF BeginRun, statusOf, Jobs
<1> QED
  BY <1>1 DEF BeginRun, MayBegin, Abs!Begin, Abs!Jobs, Jobs, NoSummary,
     Abs!NoSummary, envVars

-----------------------------------------------------------------------------
(* The main goroutine. *)

(* A pass that skips a provider skips it for good reason: the pruned cache  *)
(* answers as the memory would.                                             *)
LEMMA RefinesSkip ==
  ASSUME Invariants, SkipCached
  PROVE  \E i \in Jobs : Abs!Skip(i)
<1>1. /\ next \in DOMAIN batch /\ next \in Jobs /\ pc[next] = "none"
      /\ batch[next] \in Providers
  BY BatchType DEF Invariants, Base, TypeBase, Walked, SkipCached
<1>2. PICK i \in Jobs : i = next
  BY <1>1
<1>3. Abs!Fresh(batch[i])
  <2>1. Fresh(lastMark, batch[i])
    BY <1>1, <1>2, FreshAlike DEF Invariants, SkipCached
  <2> QED BY <2>1 DEF Fresh, Abs!Fresh, Absent, Abs!Absent
<1>4. /\ UNCHANGED <<now, main, batch, pc, failure, lastMark>>
      /\ main = "check" /\ next' = i + 1
  BY <1>2 DEF SkipCached, envVars, workVars, cacheVars
<1>5. statusOf(i) = "unseen" /\ statusOf(i)' = "skipped"
  BY <1>1, <1>2, <1>4, JobsAreNat DEF statusOf
<1>6. \A j \in Jobs \ {i} : statusOf(j)' = statusOf(j)
  BY <1>2, <1>4, JobsAreNat DEF statusOf
<1>7. Abs!Skip(i)
  BY <1>1, <1>2, <1>3, <1>4, <1>5, <1>6 DEF Abs!Skip, Abs!Become
<1> QED BY <1>7

(* The jobs that are probing hold the slots, so that one free slot in the   *)
(* channel is room in the promise.                                          *)
LEMMA RefinesSpawn ==
  ASSUME Invariants, Distinct, Spawn
  PROVE  \E i \in Jobs : Abs!Probe(i)
<1>1. /\ next \in DOMAIN batch /\ next \in Jobs /\ pc[next] = "none"
      /\ batch[next] \in Providers
  BY BatchType DEF Invariants, Base, TypeBase, Walked, Spawn
<1>2. PICK i \in Jobs : i = next
  BY <1>1
<1>3. ~Abs!Fresh(batch[i])
  <2>1. ~Fresh(lastMark, batch[i])
    BY <1>2 DEF Invariants, Admitted, Spawn
  <2> QED BY <2>1 DEF Fresh, Abs!Fresh, Absent, Abs!Absent
<1>4. /\ UNCHANGED <<now, batch, failure, lastMark>> /\ next' = i + 1
      /\ main = "acquire" /\ main' = "check"
      /\ \A j \in Jobs : pc'[j] = IF j = i THEN "start" ELSE pc[j]
  BY <1>2 DEF Spawn, envVars, workVars, cacheVars, Invariants, Base, TypeBase
<1>5. statusOf(i) = "unseen" /\ statusOf(i)' = "probing"
  BY <1>1, <1>2, <1>4, JobsAreNat DEF statusOf
<1>6. \A j \in Jobs \ {i} : statusOf(j)' = statusOf(j)
  BY <1>2, <1>4, JobsAreNat DEF statusOf
<1>7. Abs!With({"probing", "remembered"}) = Holders
  BY DEF Abs!With, Abs!Jobs, Jobs, Holders, statusOf
<1>8. Abs!Cardinality(Abs!With({"probing", "remembered"})) < Limit
  BY <1>7, SameCardinality DEF Invariants, Slots, Spawn, SlotFree
<1>9. Abs!Probe(i)
  BY <1>1, <1>2, <1>3, <1>4, <1>5, <1>6, <1>8 DEF Abs!Probe, Abs!Become
<1> QED BY <1>9

(* wg.Wait, and what Run returns then. *)
LEMMA RefinesReturn ==
  ASSUME Invariants, Return
  PROVE  Abs!Return
<1>1. /\ UNCHANGED <<now, batch, next, sum, pc, failure, lastMark>>
      /\ main = "wait" /\ main' = "idle" /\ next = Len(batch) + 1
  BY DEF Return, envVars, poolVars, workVars, cacheVars, Invariants, Tallies
<1>2. \A i \in Jobs : pc[i] \in {"none", "done"}
  <2>1. IsFiniteSet(Running) /\ Cardinality(Running) = 0
    BY <1>1, JobsFinite DEF Invariants, Slots, Return, Waited, Running
  <2> QED BY <2>1, FS_EmptySet DEF Running
<1>3. DOMAIN batch = 1 .. Len(batch) /\ Len(batch) \in Nat
      /\ DOMAIN batch \subseteq Jobs
  BY BatchType DEF Invariants, Base, TypeBase
<1>4. \A i \in Jobs : statusOf(i)' = statusOf(i)
  BY <1>1, SameStatus
<1>5. \A i \in DOMAIN batch : statusOf(i) \in {"skipped", "succeeded", "failed"}
  BY <1>1, <1>2, <1>3 DEF statusOf
<1>6. /\ Abs!With({"succeeded", "failed"}) = Tried
      /\ Abs!With({"succeeded"}) = Won /\ Abs!With({"failed"}) = Failed
  BY <1>2 DEF Abs!With, Abs!Jobs, Jobs, statusOf, Tried, Won, Failed, Settled
<1>7. Cardinality(Abs!With({"skipped"})) = sum.skipped
  <2>1. Abs!With({"skipped"}) = DOMAIN batch \ Begun
    BY <1>1, <1>2, <1>3 DEF Abs!With, Abs!Jobs, Jobs, statusOf, Begun
  <2>2. Begun \subseteq DOMAIN batch
    BY DEF Begun, Invariants, Base, Walked
  <2>3. IsFiniteSet(DOMAIN batch) /\ Cardinality(DOMAIN batch) = Len(batch)
    BY <1>3, FS_Interval
  <2>4. Cardinality(DOMAIN batch \ Begun)
          = Cardinality(DOMAIN batch) - Cardinality(DOMAIN batch \cap Begun)
    BY <2>3, FS_Difference, CountsFinite
  <2>5. DOMAIN batch \cap Begun = Begun
    BY <2>2
  <2>6. sum.skipped \in Nat /\ sum.skipped + Cardinality(Begun) = next - 1
    BY DEF Invariants, Tallies, Base, TypeBase, Summary
  <2>7. Cardinality(Abs!With({"skipped"})) = Len(batch) - Cardinality(Begun)
    BY <2>1, <2>3, <2>4, <2>5
  <2> QED BY <1>1, <1>3, <2>6, <2>7, CountsFinite
<1>8. sum' = [attempted |-> Cardinality(Abs!With({"succeeded", "failed"})),
              submitted |-> Cardinality(Abs!With({"succeeded"})),
              skipped   |-> Cardinality(Abs!With({"skipped"})),
              failed    |-> Cardinality(Abs!With({"failed"}))]
  BY <1>1, <1>6, <1>7 DEF Invariants, Tallies, Base, TypeBase, Summary
<1> QED
  BY <1>1, <1>3, <1>4, <1>5, <1>8, SameCardinality DEF Abs!Return

LEMMA RefinesMain ==
  ASSUME Invariants, Distinct, Main
  PROVE  [Abs!Next]_(Abs!vars)
<1>1. CASE SkipCached
  BY <1>1, RefinesSkip DEF Abs!Next, Abs!Jobs, Jobs
<1>2. CASE Spawn
  BY <1>2, RefinesSpawn DEF Abs!Next, Abs!Jobs, Jobs
<1>3. CASE Return
  BY <1>3, RefinesReturn DEF Abs!Next
<1>4. CASE Admit \/ EndOfBatch
  <2>1. /\ UNCHANGED <<now, batch, next, pc, failure, lastMark>>
        /\ main # "idle" /\ main' # "idle"
    BY <1>4 DEF Admit, EndOfBatch, envVars, workVars, cacheVars
  <2>2. \A i \in Jobs : statusOf(i)' = statusOf(i)
    BY <2>1, SameStatus
  <2> QED BY <2>1, <2>2 DEF Abs!vars
<1> QED BY <1>1, <1>2, <1>3, <1>4 DEF Main

-----------------------------------------------------------------------------
(* The probe goroutines. *)

(* Only two steps of a job show: the mark, and the slot given back. *)
LEMMA JobShows ==
  ASSUME Base, NEW i \in Jobs, Job(i)
  PROVE  \/ statusOf(i)' = statusOf(i) /\ lastMark' = lastMark
         \/ MarkProbed(i) \/ Release(i)
<1> USE AfterProbeStage DEF statusOf, Goto, Base, TypeBase, workVars, cacheVars
<1>1. CASE CountAttempt(i)    BY <1>1 DEF CountAttempt
<1>2. CASE OpenFails(i)       BY <1>2 DEF OpenFails
<1>3. CASE OpenTunnel(i)      BY <1>3 DEF OpenTunnel
<1>4. CASE Locate(i)          BY <1>4 DEF Locate
<1>5. CASE SkipHealth(i)      BY <1>5 DEF SkipHealth
<1>6. CASE StartHealth(i)     BY <1>6 DEF StartHealth
<1>7. CASE RunHealth(i)       BY <1>7 DEF RunHealth
<1>8. CASE SubmitHealth(i)    BY <1>8 DEF SubmitHealth
<1>9. CASE NothingToSubmit(i) BY <1>9 DEF NothingToSubmit
<1>10. CASE Submit(i)         BY <1>10 DEF Submit, AfterSubmit
<1>11. CASE SampleBandwidth(i) BY <1>11 DEF SampleBandwidth
<1>12. CASE CloseTunnel(i)    BY <1>12 DEF CloseTunnel
<1>13. CASE ReportAttempt(i)  BY <1>13 DEF ReportAttempt
<1>14. CASE TallyFailure(i)   BY <1>14 DEF TallyFailure
<1>15. CASE TallySuccess(i)   BY <1>15 DEF TallySuccess
<1>16. CASE WgDone(i)         BY <1>16 DEF WgDone
<1> QED
  BY <1>1, <1>2, <1>3, <1>4, <1>5, <1>6, <1>7, <1>8, <1>9, <1>10, <1>11,
     <1>12, <1>13, <1>14, <1>15, <1>16 DEF Job

LEMMA RefinesJob ==
  ASSUME Invariants, NEW i \in Jobs, Job(i)
  PROVE  [Abs!Next]_(Abs!vars)
<1>1. /\ UNCHANGED <<now, batch, next, main>> /\ pc[i] # "none"
      /\ \A j \in Jobs \ {i} : pc'[j] = pc[j] /\ failure'[j] = failure[j]
  BY JobStepMoves, JobSpares
     DEF JobMoves, Spares, Invariants, envVars, mainVars
<1>2. \A j \in Jobs \ {i} : statusOf(j)' = statusOf(j)
  BY <1>1, SameStatus
<1>3. CASE statusOf(i)' = statusOf(i) /\ lastMark' = lastMark /\ main # "idle"
  BY <1>1, <1>2, <1>3 DEF Abs!vars
<1>4. CASE MarkProbed(i) /\ main # "idle"
  <2>1. /\ pc[i] = "mark" /\ pc'[i] = "release" /\ failure' = failure
        /\ failure[i] = Success
        /\ lastMark' = [lastMark EXCEPT ![batch[i]] = now]
    BY <1>4 DEF MarkProbed, Goto, workVars, Invariants, Base, TypeBase, Records,
       JobRecord
  <2>2. statusOf(i) = "probing" /\ statusOf(i)' = "remembered"
    BY <2>1 DEF statusOf
  <2>3. Abs!Remember(i)
    BY <1>1, <1>2, <1>4, <2>1, <2>2 DEF Abs!Remember, Abs!Become
  <2> QED BY <2>3 DEF Abs!Next, Abs!Jobs, Jobs
<1>5. CASE Release(i) /\ main # "idle"
  <2>1. /\ pc[i] = "release" /\ pc'[i] = "wgdone"
        /\ UNCHANGED <<failure, lastMark>>
    BY <1>5 DEF Release, Goto, workVars, cacheVars, Invariants, Base, TypeBase
  <2>2. CASE failure[i] = Success
    <3>1. statusOf(i) = "remembered" /\ statusOf(i)' = "succeeded"
      BY <2>1, <2>2 DEF statusOf
    <3>2. Abs!Succeed(i)
      BY <1>1, <1>2, <1>5, <2>1, <3>1 DEF Abs!Succeed, Abs!Become
    <3> QED BY <3>2 DEF Abs!Next, Abs!Jobs, Jobs
  <2>3. CASE failure[i] # Success
    <3>1. statusOf(i) = "probing" /\ statusOf(i)' = "failed"
      BY <2>1, <2>3 DEF statusOf
    <3>2. Abs!Fail(i)
      BY <1>1, <1>2, <1>5, <2>1, <3>1 DEF Abs!Fail, Abs!Become
    <3> QED BY <3>2 DEF Abs!Next, Abs!Jobs, Jobs
  <2> QED BY <2>2, <2>3
<1>6. main # "idle"
  <2>1. pc[i] # "done"
    BY DEF Job, Goto, CountAttempt, OpenFails, OpenTunnel, Locate, SkipHealth,
       StartHealth, RunHealth, SubmitHealth, NothingToSubmit, Submit,
       SampleBandwidth, CloseTunnel, ReportAttempt, TallyFailure, TallySuccess,
       MarkProbed, Release, WgDone
  <2> QED BY <1>1, <2>1 DEF Invariants, Slots, Running
<1> QED BY <1>3, <1>4, <1>5, <1>6, JobShows DEF Invariants

-----------------------------------------------------------------------------
LEMMA RefinesNext ==
  ASSUME OneJobEach
  PROVE  Invariants /\ [Next]_vars => [Abs!Next]_(Abs!vars)
<1> SUFFICES ASSUME Invariants, [Next]_vars PROVE [Abs!Next]_(Abs!vars)
  OBVIOUS
<1>0. Distinct
  BY EachOnce DEF Invariants
<1>1. ASSUME NEW b \in Batches, BeginRun(b) PROVE [Abs!Next]_(Abs!vars)
  BY <1>1, RefinesBegin DEF Abs!Next
<1>2. CASE Main
  BY <1>0, <1>2, RefinesMain
<1>3. ASSUME NEW i \in Jobs, Job(i) PROVE [Abs!Next]_(Abs!vars)
  BY <1>3, RefinesJob
<1>4. CASE Tick
  <2>1. UNCHANGED <<main, batch, next, sum, pc, failure, lastMark>>
    BY <1>4 DEF Tick, mainVars, poolVars, workVars, cacheVars
  <2>2. \A i \in Jobs : statusOf(i)' = statusOf(i)
    BY <2>1, SameStatus
  <2>3. Abs!Tick
    BY <1>4, <2>1, <2>2 DEF Tick, Abs!Tick
  <2> QED BY <2>3 DEF Abs!Next
<1>5. CASE Signal \/ Stopped \/ UNCHANGED vars
  <2>1. UNCHANGED <<now, main, batch, next, sum, pc, failure, lastMark>>
    BY <1>5 DEF Signal, Stopped, vars, envVars, mainVars, poolVars, workVars,
       cacheVars
  <2>2. \A i \in Jobs : statusOf(i)' = statusOf(i)
    BY <2>1, SameStatus
  <2> QED BY <2>1, <2>2 DEF Abs!vars
<1> QED BY <1>1, <1>2, <1>3, <1>4, <1>5 DEF Next

(* Run does what it promises its caller, whatever the goroutines, the       *)
(* semaphore and the pruned cache do underneath: with lists that name each  *)
(* provider once, as both of the code's do, every provider is skipped for a *)
(* recent success or probed once, at most Limit at a time, only successes   *)
(* are remembered, and the Summary counts that.                             *)
THEOREM PassImplementsSpec ==
  ASSUME OneJobEach
  PROVE  Spec => ImplementsPassSpec
<1>1. Init => Abs!Init
  BY StatusInit
<1>2. Invariants /\ [Next]_vars => [Abs!Next]_(Abs!vars)
  BY RefinesNext
<1> QED BY <1>1, <1>2, InvariantsHold, PTL DEF Spec, ImplementsPassSpec, Abs!Spec
-----------------------------------------------------------------------------
(* A Run is what main's own model takes it for.                             *)

(* What main sees of a Run, and what none of its steps changes there.       *)
Seen == <<Phase, Told, Todo, Ages, Outcomes>>

LEMMA NothingToSee ==
  ASSUME UNCHANGED Seen
  PROVE  UNCHANGED Process!vars
BY DEF Seen, Process!vars, Process!serverVars, Process!gateVars, Process!pinVars,
   Process!passVars

(* An age is below the TTL exactly if the entry is fresh.                   *)
LEMMA FreshByAge ==
  ASSUME Base, NEW p \in Providers
  PROVE  Process!Fresh(p) <=> Fresh(lastMark, p)
<1>1. now \in Int /\ CacheTTL \in Int /\ lastMark[p] \in Int
  BY TTLAssumption, MaxTimeAssumption DEF Base, TypeBase, Time, Absent
<1>2. Ages["enum"][p] = IF Fresh(lastMark, p) THEN now - lastMark[p] ELSE CacheTTL
  BY DEF Ages
<1> QED
  BY <1>1, <1>2 DEF Process!Fresh, Process!Scheduler, Process!TTL, Fresh

(* Time passes for the ages as it does for the clock.                       *)
LEMMA AgesTick ==
  ASSUME Base, now' = now + 1, lastMark' = lastMark
  PROVE  Ages' = [s \in Process!Schedulers |-> [p \in Providers |->
                    Process!Older(Ages[s][p], CacheTTL)]]
<1>1. \A p \in Providers : now \in Int /\ CacheTTL \in Int /\ lastMark[p] \in Int
  BY TTLAssumption, MaxTimeAssumption DEF Base, TypeBase, Time, Absent
<1>2. ASSUME NEW s \in {"due", "enum"}, NEW p \in Providers
      PROVE  (IF s = "enum" /\ Fresh(lastMark, p)'
              THEN now' - lastMark'[p] ELSE CacheTTL)
               = Process!Older(Ages[s][p], CacheTTL)
  <2>1. Ages[s][p] = IF s = "enum" /\ Fresh(lastMark, p)
                     THEN now - lastMark[p] ELSE CacheTTL
    BY DEF Ages
  <2> QED BY <1>1, <2>1 DEF Process!Older, Fresh
<1> QED BY <1>2 DEF Ages, Process!Schedulers

LEMMA AgesKept ==
  ASSUME UNCHANGED <<now, lastMark>>
  PROVE  Ages' = Ages
BY DEF Ages, Fresh

-----------------------------------------------------------------------------
(* The main goroutine, as main sees it.                                     *)

LEMMA SameSeen ==
  ASSUME UNCHANGED <<ctxDone, batch, next, pc, failure, sum, now, lastMark>>,
         main = "idle" <=> main' = "idle"
  PROVE  UNCHANGED Process!vars
<1>1. Ages' = Ages
  BY AgesKept
<1>2. Decided' = Decided /\ Passed' = Passed /\ Uncounted' = Uncounted
  BY DEF Decided, Passed, Uncounted
<1>3. UNCHANGED <<Phase, Told, Todo, Outcomes>>
  BY <1>2 DEF Phase, Told, Todo, Outcomes
<1> QED BY <1>1, <1>3, NothingToSee DEF Seen

LEMMA SeenBegin ==
  ASSUME NEW b \in Batches, BeginRun(b)
  PROVE  /\ Process!StartRun({batch'[i] : i \in DOMAIN batch'})
         /\ UNCHANGED <<Ages, Told>>
<1>1. /\ batch' = b /\ next' = 1 /\ main' = "check" /\ sum' = NoSummary
      /\ ~ctxDone /\ ctxDone' = ctxDone /\ now' = now /\ lastMark' = lastMark
      /\ pc' = [i \in Jobs |-> "none"]
  BY DEF BeginRun, MayBegin, envVars
<1>2. Decided' = {} /\ Passed' = {}
  <2>1. \A i \in DOMAIN b : ~(i < 1)
    BY BatchType
  <2> QED BY <1>1, <2>1 DEF Decided, Passed
<1>3. Todo' = {batch'[i] : i \in DOMAIN batch'}
  BY <1>2 DEF Todo
<1>4. Outcomes' = Process!NoSummary
  <2>1. {i \in Decided' : failure'[i] = Success} = {}
        /\ {i \in Decided' : failure'[i] # Success} = {}
    BY <1>2
  <2>2. Cardinality({}) = 0
    BY FS_EmptySet
  <2> QED BY <1>1, <1>2, <2>1, <2>2 DEF Outcomes, NoSummary, Process!NoSummary
<1>5. Phase' = "run" /\ UNCHANGED <<Ages, Told>>
  BY <1>1, AgesKept DEF Phase, Told
<1> QED BY <1>3, <1>4, <1>5 DEF Process!StartRun, Process!GoOn

(* One more in one field of the counts. *)
LEMMA CountMore ==
  ASSUME NEW x \in Summary
  PROVE  /\ [x EXCEPT !.skipped = @ + 1] =
              [attempted |-> x.attempted, submitted |-> x.submitted,
               skipped |-> x.skipped + 1, failed |-> x.failed]
         /\ [[x EXCEPT !.attempted = @ + 1] EXCEPT !.submitted = @ + 1] =
              [attempted |-> x.attempted + 1, submitted |-> x.submitted + 1,
               skipped |-> x.skipped, failed |-> x.failed]
         /\ [[x EXCEPT !.attempted = @ + 1] EXCEPT !.failed = @ + 1] =
              [attempted |-> x.attempted + 1, submitted |-> x.submitted,
               skipped |-> x.skipped, failed |-> x.failed + 1]
<1>1. [x EXCEPT !.skipped = @ + 1] =
        [attempted |-> x.attempted, submitted |-> x.submitted,
         skipped |-> x.skipped + 1, failed |-> x.failed]
  <2> DEFINE n == x.skipped + 1
  <2>1. n \in Nat
    BY DEF Summary
  <2> HIDE DEF n
  <2>2. [x EXCEPT !.skipped = n] =
          [attempted |-> x.attempted, submitted |-> x.submitted,
           skipped |-> n, failed |-> x.failed]
    BY <2>1 DEF Summary
  <2> QED BY <2>2 DEF n
<1> DEFINE y == [x EXCEPT !.attempted = @ + 1]
<1>2. y \in Summary /\ y.attempted = x.attempted + 1 /\ y.submitted = x.submitted
      /\ y.skipped = x.skipped /\ y.failed = x.failed
  BY DEF Summary
<1> HIDE DEF y
<1>3. [y EXCEPT !.submitted = @ + 1] =
        [attempted |-> x.attempted + 1, submitted |-> x.submitted + 1,
         skipped |-> x.skipped, failed |-> x.failed]
  BY <1>2 DEF Summary
<1>4. [y EXCEPT !.failed = @ + 1] =
        [attempted |-> x.attempted + 1, submitted |-> x.submitted,
         skipped |-> x.skipped, failed |-> x.failed + 1]
  BY <1>2 DEF Summary
<1> QED BY <1>1, <1>3, <1>4 DEF y

LEMMA OutcomesType ==
  ASSUME Base
  PROVE  Outcomes \in Summary
<1>1. /\ IsFiniteSet(Decided)
      /\ IsFiniteSet({i \in Decided : failure[i] = Success})
      /\ IsFiniteSet({i \in Decided : failure[i] # Success})
  BY JobsFinite DEF Decided
<1>2. /\ Cardinality(Decided) \in Nat
      /\ Cardinality({i \in Decided : failure[i] = Success}) \in Nat
      /\ Cardinality({i \in Decided : failure[i] # Success}) \in Nat
  BY <1>1, FS_CardinalityType
<1> QED BY <1>2 DEF Outcomes, Base, TypeBase, Summary

(* The provider that Run walks past leaves main's list as one skipped.      *)
LEMMA SeenSkip ==
  ASSUME Invariants, Distinct, SkipCached
  PROVE  \E p \in Providers : Process!Skip(p)
<1>1. /\ next \in DOMAIN batch /\ next \in Jobs /\ pc[next] = "none"
      /\ batch[next] \in Providers
  BY BatchType DEF Invariants, Base, TypeBase, Walked, SkipCached
<1>2. PICK k \in Jobs : k = next
  BY <1>1
<1>3. /\ UNCHANGED <<ctxDone, now, main, batch, pc, failure, lastMark>>
      /\ main = "check" /\ next' = k + 1
      /\ sum' = [sum EXCEPT !.skipped = @ + 1]
  BY <1>2 DEF SkipCached, envVars, workVars, cacheVars
<1>4. k \notin Decided \cup Passed /\ Decided' = Decided /\ Uncounted' = Uncounted
  BY <1>1, <1>2, <1>3, JobsAreNat DEF Decided, Passed, Uncounted
<1>5. Passed' = Passed \cup {k}
  <2>1. \A i \in DOMAIN batch : i \in Nat
    BY BatchType DEF Invariants, Base, TypeBase
  <2> QED BY <1>1, <1>2, <1>3, <2>1, JobsAreNat DEF Passed
<1>6. Todo' = Todo \ {batch[k]} /\ batch[k] \in Todo
  BY <1>1, <1>2, <1>3, <1>4, <1>5 DEF Todo, Distinct
<1>7. Outcomes' = [Outcomes EXCEPT !.skipped = @ + 1]
  <2>1. sum'.skipped = sum.skipped + 1
    BY <1>3 DEF Invariants, Base, TypeBase, Summary
  <2>2. Outcomes' = [attempted |-> Outcomes.attempted,
                     submitted |-> Outcomes.submitted,
                     skipped   |-> Outcomes.skipped + 1,
                     failed    |-> Outcomes.failed]
    BY <1>3, <1>4, <2>1 DEF Outcomes
  <2> QED BY <2>2, CountMore, OutcomesType DEF Invariants
<1>8. UNCHANGED <<Phase, Told, Ages>> /\ Phase = "run"
  BY <1>3, <1>4, AgesKept DEF Phase, Told
<1>9. Process!Fresh(batch[k])
  BY <1>1, <1>2, FreshAlike, FreshByAge DEF Invariants, SkipCached
<1>10. Process!Skip(batch[k])
  BY <1>6, <1>7, <1>8, <1>9
     DEF Process!Skip, Process!serverVars, Process!gateVars, Process!pinVars
<1> QED BY <1>1, <1>2, <1>10

(* A job that is only started changes nothing for main.                     *)
LEMMA SeenSpawn ==
  ASSUME Invariants, Spawn
  PROVE  UNCHANGED Process!vars
<1>1. next \in DOMAIN batch /\ next \in Jobs /\ pc[next] = "none"
  BY BatchType DEF Invariants, Base, TypeBase, Walked, Spawn
<1>2. PICK k \in Jobs : k = next
  BY <1>1
<1>3. /\ UNCHANGED <<ctxDone, now, batch, failure, lastMark, sum>> /\ next' = k + 1
      /\ main = "acquire" /\ main' = "check"
      /\ \A j \in Jobs : pc'[j] = IF j = k THEN "start" ELSE pc[j]
  BY <1>2 DEF Spawn, envVars, workVars, cacheVars, Invariants, Base, TypeBase
<1>4. Decided' = Decided /\ Uncounted' = Uncounted
  BY <1>1, <1>2, <1>3 DEF Decided, Uncounted
<1>5. Passed' = Passed
  <2>1. \A i \in DOMAIN batch : i \in Nat /\ i \in Jobs
    BY BatchType DEF Invariants, Base, TypeBase
  <2> QED BY <1>1, <1>2, <1>3, <2>1, JobsAreNat DEF Passed
<1>6. UNCHANGED <<Phase, Told, Todo, Outcomes>>
  BY <1>3, <1>4, <1>5 DEF Phase, Told, Todo, Outcomes
<1> QED BY <1>3, <1>6, AgesKept, NothingToSee DEF Seen

(* wg.Wait: nobody of the list is left.                                     *)
LEMMA SeenReturn ==
  ASSUME Invariants, Return
  PROVE  Process!RunReturns
<1>1. /\ UNCHANGED <<ctxDone, now, batch, next, sum, pc, failure, lastMark>>
      /\ main = "wait" /\ main' = "idle" /\ next = Len(batch) + 1
  BY DEF Return, envVars, poolVars, workVars, cacheVars, Invariants, Tallies
<1>2. \A i \in Jobs : pc[i] \in {"none", "done"}
  <2>1. IsFiniteSet(Running) /\ Cardinality(Running) = 0
    BY <1>1, JobsFinite DEF Invariants, Slots, Return, Waited, Running
  <2> QED BY <2>1, FS_EmptySet DEF Running
<1>3. DOMAIN batch = 1 .. Len(batch) /\ Len(batch) \in Nat
      /\ DOMAIN batch \subseteq Jobs
  BY BatchType DEF Invariants, Base, TypeBase
<1>4. DOMAIN batch \ (Decided \cup Passed) = {}
  BY <1>1, <1>2, <1>3 DEF Decided, Passed
<1>5. Todo = {}
  BY <1>4 DEF Todo
<1>6. Decided' = Decided /\ Passed' = Passed /\ Uncounted' = Uncounted
  BY <1>1 DEF Decided, Passed, Uncounted
<1>7. UNCHANGED <<Told, Todo, Ages, Outcomes>>
  BY <1>1, <1>6, AgesKept DEF Told, Todo, Outcomes
<1>8. Phase = "run" /\ Phase' = "returned"
  BY <1>1 DEF Phase
<1> QED
  BY <1>5, <1>7, <1>8 DEF Process!RunReturns, Process!GoOn, Process!serverVars,
     Process!gateVars, Process!pinVars, Process!passVars

LEMMA SeenMain ==
  ASSUME Invariants, Distinct, Main
  PROVE  main # "idle" /\ [Process!Pass]_(Process!vars)
<1>0. main # "idle"
  BY DEF Main, SkipCached, Admit, Spawn, EndOfBatch, Return
<1>1. CASE SkipCached
  BY <1>0, <1>1, SeenSkip DEF Process!Pass
<1>2. CASE Spawn
  BY <1>0, <1>2, SeenSpawn
<1>3. CASE Return
  BY <1>0, <1>3, SeenReturn DEF Process!Pass
<1>4. CASE Admit \/ EndOfBatch
  <2>1. UNCHANGED <<ctxDone, batch, next, pc, failure, sum, now, lastMark>>
        /\ main' # "idle"
    BY <1>4 DEF Admit, EndOfBatch, envVars, poolVars, workVars, cacheVars
  <2> QED BY <1>0, <2>1, SameSeen
<1> QED BY <1>1, <1>2, <1>3, <1>4 DEF Main


-----------------------------------------------------------------------------
(* The probe goroutines, as main sees them.                                 *)

(* All of a job but three steps is hidden from main: it decides nobody, and *)
(* a location it stores, only a live context lets it store.                 *)
LEMMA JobHides ==
  ASSUME Base, NEW i \in Jobs, Job(i)
  PROVE  \/ TallyFailure(i) \/ MarkProbed(i) \/ Release(i)
         \/ /\ lastMark' = lastMark /\ sum'.skipped = sum.skipped
            /\ i \in Decided' <=> i \in Decided
            /\ i \in Decided => failure'[i] = failure[i]
            /\ i \in Uncounted => i \in Uncounted'
            /\ i \in Uncounted' => i \in Uncounted \/ ~ctxDone
<1> USE AfterProbeStage
    DEF Decided, Uncounted, Goto, Base, TypeBase, workVars, poolVars, cacheVars,
        Success
<1>1. CASE CountAttempt(i)    BY <1>1 DEF CountAttempt, Summary
<1>2. CASE OpenFails(i)       BY <1>2 DEF OpenFails
<1>3. CASE OpenTunnel(i)      BY <1>3 DEF OpenTunnel
<1>4. CASE Locate(i)          BY <1>4 DEF Locate
<1>5. CASE SkipHealth(i)      BY <1>5 DEF SkipHealth
<1>6. CASE StartHealth(i)     BY <1>6 DEF StartHealth
<1>7. CASE RunHealth(i)       BY <1>7 DEF RunHealth
<1>8. CASE SubmitHealth(i)    BY <1>8 DEF SubmitHealth
<1>9. CASE NothingToSubmit(i) BY <1>9 DEF NothingToSubmit, LocateResults
<1>10. CASE Submit(i)
  <2>1. PICK d \in Deliveries :
          /\ failure' = [failure EXCEPT ![i] = SubmitClass(d)]
          /\ pc[i] = "submit" /\ pc' = [pc EXCEPT ![i] = AfterSubmit(i, d)]
    BY <1>10 DEF Submit
  <2>2. SubmitClass(d) = Success => ~ctxDone
    BY DEF SubmitClass, Deliveries, Delivery
  <2>3. AfterSubmit(i, d) \in {"bandwidth", "close", "report"}
    BY DEF AfterSubmit
  <2>4. lastMark' = lastMark /\ sum' = sum
    BY <1>10 DEF Submit
  <2> QED BY <2>1, <2>2, <2>3, <2>4
<1>11. CASE SampleBandwidth(i) BY <1>11 DEF SampleBandwidth
<1>12. CASE CloseTunnel(i)    BY <1>12 DEF CloseTunnel
<1>13. CASE ReportAttempt(i)  BY <1>13 DEF ReportAttempt
<1>14. CASE TallySuccess(i)   BY <1>14 DEF TallySuccess, Summary
<1>15. CASE WgDone(i)         BY <1>15 DEF WgDone
<1> QED
  BY <1>1, <1>2, <1>3, <1>4, <1>5, <1>6, <1>7, <1>8, <1>9, <1>10, <1>11,
     <1>12, <1>13, <1>14, <1>15 DEF Job

(* What a job's step leaves alone of what main sees. *)
LEMMA JobAlone ==
  ASSUME Invariants, NEW i \in Jobs, Job(i)
  PROVE  /\ UNCHANGED <<now, ctxDone, batch, next, main>> /\ main # "idle"
         /\ pc[i] # "none" /\ pc'[i] # "none" /\ i \in DOMAIN batch
         /\ \A j \in Jobs \ {i} : pc'[j] = pc[j] /\ failure'[j] = failure[j]
         /\ UNCHANGED <<Passed, Phase>>
<1>1. /\ UNCHANGED <<now, ctxDone, batch, next, main>>
      /\ pc[i] # "none" /\ pc'[i] # "none"
      /\ \A j \in Jobs \ {i} : pc'[j] = pc[j] /\ failure'[j] = failure[j]
  BY JobStepMoves, JobSpares
     DEF JobMoves, Spares, Invariants, envVars, mainVars
<1>2. main # "idle"
  <2>1. pc[i] # "done"
    BY DEF Job, Goto, CountAttempt, OpenFails, OpenTunnel, Locate, SkipHealth,
       StartHealth, RunHealth, SubmitHealth, NothingToSubmit, Submit,
       SampleBandwidth, CloseTunnel, ReportAttempt, TallyFailure, TallySuccess,
       MarkProbed, Release, WgDone
  <2> QED BY <1>1, <2>1 DEF Invariants, Slots, Running
<1>3. i \in DOMAIN batch
  BY <1>1 DEF Invariants, Base, Walked
<1>4. \A j \in DOMAIN batch : j \in Jobs
  BY BatchType DEF Invariants, Base, TypeBase
<1>5. UNCHANGED <<Passed, Phase>>
  BY <1>1, <1>4 DEF Passed, Phase
<1> QED BY <1>1, <1>2, <1>3, <1>5

LEMMA SeenQuiet ==
  ASSUME Invariants, NEW i \in Jobs, Job(i), ~TallyFailure(i), ~MarkProbed(i),
         ~Release(i)
  PROVE  UNCHANGED Process!vars
<1>1. /\ UNCHANGED <<now, ctxDone, batch, lastMark, Passed, Phase>>
      /\ sum'.skipped = sum.skipped
  BY JobAlone, JobHides DEF Invariants
<1>2. Decided' = Decided /\ \A j \in Decided : failure'[j] = failure[j]
  BY JobAlone, JobHides DEF Invariants, Decided
<1>3. ctxDone => Uncounted' = Uncounted
  BY JobAlone, JobHides DEF Invariants, Uncounted
<1>4. UNCHANGED <<Told, Todo, Outcomes>>
  BY <1>1, <1>2, <1>3 DEF Told, Todo, Outcomes
<1> QED BY <1>1, <1>4, AgesKept, NothingToSee DEF Seen

(* A job that is decided leaves main's list, and is counted once.           *)
LEMMA Decides ==
  ASSUME Invariants, Distinct, NEW i \in Jobs, Job(i), i \notin Decided,
         pc'[i] = "release", UNCHANGED <<failure, sum.skipped>>
  PROVE  /\ batch[i] \in Todo /\ Todo' = Todo \ {batch[i]}
         /\ Outcomes'.attempted = Outcomes.attempted + 1
         /\ Outcomes'.submitted = Outcomes.submitted
                + IF failure[i] = Success THEN 1 ELSE 0
         /\ Outcomes'.failed = Outcomes.failed
                + IF failure[i] = Success THEN 0 ELSE 1
         /\ Outcomes'.skipped = Outcomes.skipped
<1>1. Decided' = Decided \cup {i}
  BY JobAlone DEF Decided
<1>2. i \in DOMAIN batch /\ i \notin Passed /\ Passed' = Passed
      /\ batch' = batch
  BY JobAlone DEF Passed
<1>3. batch[i] \in Todo /\ Todo' = Todo \ {batch[i]}
  BY <1>1, <1>2 DEF Todo, Distinct
<1> DEFINE won  == {j \in Decided : failure[j] = Success}
           lost == {j \in Decided : failure[j] # Success}
<1>4. /\ IsFiniteSet(Decided) /\ IsFiniteSet(won) /\ IsFiniteSet(lost)
      /\ i \notin won /\ i \notin lost
  BY JobsFinite DEF Decided
<1>5. /\ Cardinality(Decided \cup {i}) = Cardinality(Decided) + 1
      /\ Cardinality(won \cup {i}) = Cardinality(won) + 1
      /\ Cardinality(lost \cup {i}) = Cardinality(lost) + 1
      /\ Cardinality(won) \in Nat /\ Cardinality(lost) \in Nat
  BY <1>4, FS_AddElement, FS_CardinalityType
<1>6. /\ won' = IF failure[i] = Success THEN won \cup {i} ELSE won
      /\ lost' = IF failure[i] = Success THEN lost ELSE lost \cup {i}
  BY <1>1
<1>7. /\ Outcomes.attempted = Cardinality(Decided)
      /\ Outcomes.submitted = Cardinality(won)
      /\ Outcomes.failed = Cardinality(lost)
      /\ Outcomes'.attempted = Cardinality(Decided')
      /\ Outcomes'.submitted = Cardinality(won')
      /\ Outcomes'.failed = Cardinality(lost')
      /\ Outcomes.skipped = sum.skipped /\ Outcomes'.skipped = sum'.skipped
  BY DEF Outcomes
<1> HIDE DEF won, lost
<1> QED BY <1>1, <1>3, <1>5, <1>6, <1>7

(* A provider whose probe stands where it holds its slot and is not yet     *)
(* remembered is not fresh to main either.                                  *)
LEMMA StaleByAge ==
  ASSUME Invariants, Distinct, NEW i \in Jobs, pc[i] \in {"tally", "mark"}
  PROVE  batch[i] \in Providers /\ ~Process!Fresh(batch[i])
<1>1. i \in DOMAIN batch /\ batch[i] \in Providers
  BY BatchType DEF Invariants, Base, TypeBase, Walked
<1>2. ~Fresh(lastMark, batch[i])
  BY DEF Invariants, Admitted, Holders
<1> QED BY <1>1, <1>2, FreshByAge DEF Invariants

LEMMA SeenFailure ==
  ASSUME Invariants, Distinct, NEW i \in Jobs, TallyFailure(i)
  PROVE  \E p \in Providers : Process!FailProvider(p)
<1>0. Job(i)
  BY DEF Job
<1>1. /\ pc[i] = "tally" /\ pc'[i] = "release" /\ failure[i] # Success
      /\ UNCHANGED <<failure, lastMark>> /\ sum'.skipped = sum.skipped
  BY DEF TallyFailure, Goto, workVars, cacheVars, Invariants, Base, TypeBase,
     Summary
<1>2. i \notin Decided /\ Uncounted' = Uncounted
  BY <1>0, <1>1, JobAlone DEF Decided, Uncounted
<1>3. UNCHANGED <<Told, Ages, Phase>> /\ Phase = "run"
  BY <1>0, <1>1, <1>2, JobAlone, AgesKept DEF Told, Phase
<1>4. /\ batch[i] \in Todo /\ Todo' = Todo \ {batch[i]}
      /\ Outcomes' = [attempted |-> Outcomes.attempted + 1,
                      submitted |-> Outcomes.submitted,
                      skipped   |-> Outcomes.skipped,
                      failed    |-> Outcomes.failed + 1]
  <2>1. Outcomes.submitted + 0 = Outcomes.submitted
    BY OutcomesType DEF Invariants, Summary
  <2> QED BY <1>0, <1>1, <1>2, <2>1, Decides DEF Outcomes
<1>5. Outcomes' = [[Outcomes EXCEPT !.attempted = @ + 1] EXCEPT !.failed = @ + 1]
  BY <1>4, OutcomesType, CountMore DEF Invariants
<1>6. Process!FailProvider(batch[i])
  BY <1>1, <1>3, <1>4, <1>5, StaleByAge
     DEF Process!FailProvider, Process!Attempted, Process!serverVars,
         Process!gateVars, Process!pinVars
<1> QED BY <1>1, <1>6, StaleByAge

LEMMA SeenMark ==
  ASSUME Invariants, Distinct, NEW i \in Jobs, MarkProbed(i)
  PROVE  \E p \in Providers : Process!LocateProvider(p)
<1>0. Job(i)
  BY DEF Job
<1>1. /\ pc[i] = "mark" /\ pc'[i] = "release" /\ failure[i] = Success
      /\ UNCHANGED <<failure, sum>>
      /\ lastMark' = [lastMark EXCEPT ![batch[i]] = now]
  BY DEF MarkProbed, Goto, workVars, poolVars, Invariants, Base, TypeBase,
     Records, JobRecord
<1>2. i \notin Decided /\ i \in Uncounted /\ i \in Uncounted'
  BY <1>1 DEF Decided, Uncounted
<1>3. ~Told /\ ~Told' /\ Phase' = Phase /\ Phase = "run"
  BY <1>0, <1>2, JobAlone DEF Told, Phase
<1>4. /\ batch[i] \in Todo /\ Todo' = Todo \ {batch[i]}
      /\ Outcomes' = [attempted |-> Outcomes.attempted + 1,
                      submitted |-> Outcomes.submitted + 1,
                      skipped   |-> Outcomes.skipped,
                      failed    |-> Outcomes.failed]
  <2>1. Outcomes.failed + 0 = Outcomes.failed
    BY OutcomesType DEF Invariants, Summary
  <2> QED BY <1>0, <1>1, <1>2, <2>1, Decides DEF Outcomes
<1>5. Ages' = [Ages EXCEPT !["enum"][batch[i]] = 0]
  <2>1. now' = now /\ now - now = 0 /\ CacheTTL \in Nat /\ now \in Nat
        /\ batch[i] \in Providers
    BY <1>0, <1>1, JobAlone, StaleByAge, TTLAssumption, MaxTimeAssumption
       DEF Invariants, Base, TypeBase, Time
  <2>2. ASSUME NEW p \in Providers
        PROVE  (IF Fresh(lastMark, p)' THEN now' - lastMark'[p] ELSE CacheTTL)
                 = IF p = batch[i] THEN 0
                   ELSE IF Fresh(lastMark, p) THEN now - lastMark[p] ELSE CacheTTL
    BY <1>1, <2>1 DEF Fresh, Absent, Invariants, Base, TypeBase
  <2> QED BY <2>1, <2>2 DEF Ages
<1>6. Outcomes' = [[Outcomes EXCEPT !.attempted = @ + 1] EXCEPT !.submitted = @ + 1]
  BY <1>4, OutcomesType, CountMore DEF Invariants
<1>7. Process!LocateProvider(batch[i])
  <2>1. Process!Answers
    BY <1>3 DEF Process!Answers
  <2>2. Outcomes' = [Process!Attempted EXCEPT !.submitted = @ + 1]
    BY <1>6 DEF Process!Attempted
  <2>3. Ages' = [Ages EXCEPT ![Process!Scheduler][batch[i]] = 0]
    BY <1>5 DEF Process!Scheduler
  <2>4. /\ Phase = "run" /\ batch[i] \in Todo /\ ~Process!Fresh(batch[i])
        /\ Todo' = Todo \ {batch[i]}
    BY <1>1, <1>3, <1>4, StaleByAge
  <2>5. UNCHANGED <<Told, Phase>>
    BY <1>3 DEF Told
  <2> QED
    BY <2>1, <2>2, <2>3, <2>4, <2>5
       DEF Process!LocateProvider, Process!serverVars, Process!gateVars,
           Process!pinVars
<1> QED BY <1>1, <1>7, StaleByAge

(* The last location counted lets main see the signal. *)
LEMMA SeenRelease ==
  ASSUME Invariants, NEW i \in Jobs, Release(i)
  PROVE  Process!Signal \/ UNCHANGED Process!vars
<1>0. Job(i)
  BY DEF Job
<1>1. /\ pc[i] = "release" /\ pc'[i] = "wgdone"
      /\ UNCHANGED <<failure, sum, lastMark>>
  BY DEF Release, Goto, workVars, cacheVars, Invariants, Base, TypeBase
<1>2. Decided' = Decided /\ Uncounted' = Uncounted \ {i}
  BY <1>0, <1>1, JobAlone DEF Decided, Uncounted
<1>3. UNCHANGED <<Todo, Outcomes, Ages, Phase>> /\ Phase = "run"
  BY <1>0, <1>1, <1>2, JobAlone, AgesKept DEF Todo, Outcomes, Phase
<1>4. CASE Told' = Told
  BY <1>3, <1>4, NothingToSee DEF Seen
<1>5. CASE Told' # Told
  <2>1. ~Told /\ Told'
    BY <1>0, <1>2, <1>5, JobAlone DEF Told
  <2> QED
    BY <1>3, <2>1
       DEF Process!Signal, Process!serverVars, Process!gateVars,
           Process!pinVars, Process!passVars
<1> QED BY <1>4, <1>5

LEMMA SeenJob ==
  ASSUME Invariants, Distinct, NEW i \in Jobs, Job(i)
  PROVE  main # "idle" /\ [Process!Pass \/ Process!Signal]_(Process!vars)
BY JobAlone, SeenQuiet, SeenFailure, SeenMark, SeenRelease DEF Process!Pass

-----------------------------------------------------------------------------
LEMMA SeenNext ==
  ASSUME Invariants, Distinct, [Next]_vars
  PROVE  IF main = "idle"
         THEN \/ /\ Process!StartRun({batch'[i] : i \in DOMAIN batch'})
                 /\ UNCHANGED <<Ages, Told>>
              \/ [Process!Tick \/ Process!Signal]_(Process!vars)
         ELSE [Process!Pass \/ Process!Tick \/ Process!Signal]_(Process!vars)
<1>1. ASSUME NEW b \in Batches, BeginRun(b)
      PROVE  /\ main = "idle" /\ UNCHANGED <<Ages, Told>>
             /\ Process!StartRun({batch'[i] : i \in DOMAIN batch'})
  BY <1>1, SeenBegin DEF BeginRun, MayBegin
<1>2. CASE Main
  BY <1>2, SeenMain
<1>3. ASSUME NEW i \in Jobs, Job(i)
      PROVE  main # "idle" /\ [Process!Pass \/ Process!Signal]_(Process!vars)
  BY <1>3, SeenJob
<1>4. CASE Tick
  <2>1. /\ now' = now + 1 /\ lastMark' = lastMark
        /\ UNCHANGED <<ctxDone, main, batch, next, sum, pc, failure>>
    BY <1>4 DEF Tick, mainVars, poolVars, workVars, cacheVars
  <2>2. Decided' = Decided /\ Passed' = Passed /\ Uncounted' = Uncounted
    BY <2>1 DEF Decided, Passed, Uncounted
  <2>3. UNCHANGED <<Phase, Told, Todo, Outcomes>> /\ Phase # "exited"
    BY <2>1, <2>2 DEF Phase, Told, Todo, Outcomes
  <2>4. Process!Tick
    BY <2>1, <2>3, AgesTick
       DEF Process!Tick, Process!Older, Process!serverVars, Process!gateVars,
           Invariants
  <2> QED BY <2>4
<1>5. CASE Signal
  <2>1. /\ ctxDone' /\ ~ctxDone
        /\ UNCHANGED <<now, main, batch, next, sum, pc, failure, lastMark>>
    BY <1>5 DEF Signal, mainVars, poolVars, workVars, cacheVars
  <2>2. Decided' = Decided /\ Passed' = Passed
    BY <2>1 DEF Decided, Passed
  <2>3. /\ UNCHANGED <<Phase, Todo, Outcomes, Ages>> /\ ~Told
        /\ Phase \notin {"flags", "exited"}
    BY <2>1, <2>2, AgesKept DEF Phase, Told, Todo, Outcomes
  <2>4. CASE Told'
    BY <2>3, <2>4
       DEF Process!Signal, Process!serverVars, Process!gateVars,
           Process!pinVars, Process!passVars
  <2>5. CASE ~Told'
    BY <2>3, <2>5, NothingToSee DEF Seen, Told
  <2> QED BY <2>4, <2>5
<1>6. CASE Stopped \/ UNCHANGED vars
  BY <1>6, SameSeen
     DEF Stopped, vars, envVars, mainVars, poolVars, workVars, cacheVars
<1> QED BY <1>1, <1>2, <1>3, <1>4, <1>5, <1>6 DEF Next

(* What main's model takes for granted of a Run is so, for every fleet,     *)
(* concurrency, window and wiring: a Run starts from its list with no       *)
(* counts, every step of its goroutines skips, locates or fails one         *)
(* provider of the list or stays inside the pass, it returns with nobody    *)
(* left, and nobody is located behind the signal.                           *)
THEOREM RunIsAsMainTakesIt ==
  ASSUME OneJobEach
  PROVE  Spec => RunAsMainTakesIt
<1>1. Invariants /\ [Next]_vars =>
        IF main = "idle"
        THEN \/ /\ Process!StartRun({batch'[i] : i \in DOMAIN batch'})
                /\ UNCHANGED <<Ages, Told>>
             \/ [Process!Tick \/ Process!Signal]_(Process!vars)
        ELSE [Process!Pass \/ Process!Tick \/ Process!Signal]_(Process!vars)
  BY EachOnce, SeenNext DEF Invariants
<1> QED BY <1>1, InvariantsHold, PTL DEF Spec, RunAsMainTakesIt
=============================================================================
