# Verification of the egress prober

TLA+ models of `egress-prober`, the process that walks an operator's fleet of
providers, opens a tunnel through each, works out where the traffic comes out,
checks what the provider carries, and reports all of it to the operator's
server. The models are checked with TLC on small instances; what matters most
is proved with TLAPS for every value of the constants.

`PROJECT.json` lists the components, the runs, the mutants (one plausible bug
per property that TLC must catch), the line of code behind each definition, the
hazards and the theorems.

## The system

| Component | State | Operations | Model |
| --- | --- | --- | --- |
| `cmd/egress-prober` | flags, pin set and its age, two schedulers, exit code | flag checks, confinement check, JWT, pins at startup; per pass: refresh pins, select providers, run, sleep or exit | `EgressProber` |
| `confinement` | none | resolve the probe hosts, dial each directly, refuse on the first connection | two actions of `EgressProber` |
| `prober/schedule.go` | cache of last successes, semaphore, WaitGroup, Summary | `Run`, `prune`, `recentlyProbed`, `markProbed` | `ProbePass`, `PassSpec` |
| `prober/prober.go` | per probe: tunnel, location, failure class | `ProbeOne`: open, locate, health, submit, bandwidth, close, report | `ProbePass` (the steps of a job) |
| `egresshealth` | per run: slots, results | `Check`, `fetch`, `judge`, the arithmetic of budget and rounds | `HealthRun` |
| `ingest` | none | one HTTP call each: submit, attempt, health, bandwidth, due, pins | `Delivery` in `ProbePass`, the `...Fails` actions in `EgressProber`, `Reserve` and `Submit` in `Bandwidth` |
| `geolocate` | none | three sources in parallel, quorum, vote, groups | `Lookup` (requests and quorum), `Consensus` (vote and groups) |
| `geolocate/placename.go` | none | parentheses dropped, tokens, display, match | `PlaceNames`, composed with `Consensus` in `PlaceConsensus` |
| `bandwidth` | per measurement: streams, barrier, window | reserve, measure over 8 streams, submit | `Bandwidth`; one step of `ProbePass` |
| `providertunnel` | tunnel, pump, pins | open, dial within the allowlist, verify a pinned host, close | `Lookup`; open and close in `ProbePass` |
| operator's server | locations, attempt rows, health rows, pins, due queue | outside `src/` | external: the records it holds; the queue in `DueQueue` |

How they interact: `main` gives `Run` a list, from the server's due endpoint or
from its own enumeration, each with a scheduler of its own. `Run` starts one
goroutine per provider, at most `-concurrency` at a time, which share nothing
but the cache, the Summary and the semaphore. Every call a goroutine makes takes
the context that SIGTERM cancels. The health run starts goroutines of its own
over the probe's tunnel. The server sees calls that may be lost, or recorded and
their reply lost.

What is hard here: what a done context does to each step, and what is blamed on
the provider for it; the order of the deferred calls; a cache that is read
before a wait; budgets that are divided in one place and spent in another; a
process whose exit code is all its caller sees; streams that meet at a barrier
and share one window; votes read back in map order; a queue that the prober
empties only by what it reports; certificates that are renewed while a pin is in
force; a pump that dies without a word; and a server that changes under the
process (the endpoint is deployed, the secret is rotated).

## The modules

### `ProbePass`: a Scheduler and its probes

`main` is the program counter of `Run`, `pc[i]` that of the goroutine for the
i-th provider of the batch. Actions follow the code statement by statement where
another goroutine, the signal or the server can come between:

| Action | Code |
| --- | --- |
| `BeginRun` | `Run` up to the loop: `prune`, fresh Summary, semaphore and WaitGroup |
| `SkipCached`, `Admit`, `Spawn`, `EndOfBatch`, `Return` | the loop: `recentlyProbed`, `wg.Add`, the send on the semaphore, `wg.Wait` |
| `CountAttempt` ... `ReportAttempt` | `ProbeOne`/`probeOne` in order; `AfterProbe` is the deferred `closeTunnel`, taken on every path that opened a tunnel |
| `SkipHealth`, `StartHealth`, `RunHealth`, `SubmitHealth` | `checkEgressHealth`, with its look at the context apart from the run it protects |
| `TallyFailure`, `TallySuccess`, `MarkProbed`, `Release`, `WgDone` | the end of the goroutine and its two deferred calls, last in first out |
| `Signal`, `Tick` | SIGTERM at any moment; time |

A call to the server is a member of `Deliveries`: recorded or not, acknowledged
or not. It is never recorded under a done context, since the client then sends
nothing. The variables marked *history* are the model's own and are read by
properties only; one of them is `owed`, the providers whose latest probe has not
had its submission acknowledged. `FailedIsRetried` says that the cache puts none of
them off, whatever class the failure was given, what earlier probes achieved, and
whether the server stored what it did not acknowledge. A count of the Summary is one
step, as it is made under the mutex of `Run`: what `SummaryIsExact` can find is a way out that
is not counted, or counted twice, and not a missing lock.

`PassSpec` is what `Run` promises its caller, with no goroutine, semaphore or
pruning in it: each provider of the list is skipped, or probed once, at most
`Limit` at a time; only a success is remembered, for ever; the Summary counts
that. `ProbePassRefines` maps the one to the other. The mapping needs batches
that name a provider once, which both of the code's lists guarantee (the server's
is keyed by client id, `listProviders` de-duplicates); `NoProbeWithinTTL`
and `FailedIsRetried` state the same proviso.

### `EgressProber`: the process

`phase` is where `main` stands. Each gate of the startup, each branch of
`selectProviders`, each way out is an action. A Run is abstracted to its promise:
every provider of the list is skipped, located or failed, once. That a Run of `ProbePass`
is so is `RunAsMainTakesIt` of `ProbePassRefines`, which maps its states to those of the
phase "run": a job is decided when its failure is tallied or its success marked. A
location stored just before the signal is counted just after it, so the signal reaches
the mapped process once every such job has given its slot back. `RunAsMainTakesIt` is about
one scheduler with the secret accepted; that a refused secret locates nobody is
`EgressProber`'s own guard. The ages of
cache entries and pins are kept instead of times, capped where the code stops
telling them apart; the cap forgets what `prune` evicts, and `PruningIsFree`
(proved for `ProbePass`) says that this changes no decision. `Configs` holds the
command lines, with the flags that have the same check folded together
(`complete`, `least`). The gates and the passes are one specification and one
run, so that what a gate has established is checked in the passes behind it.

### `DueQueue`: the process and the queue it is fed from

Composes the whole of `EgressProber` with the schedule the server keeps
(external, from the comments of `ingest/schedule.go`): `Poll` is `DueAnswers`
with the list the queue holds, `ProbeLocates` and `ProbeFails` are the probes of
`EgressProber` with what they report. Reports are lost now and then, and those of
one provider always (`Lost`); `Crash` forgets everything but the queue. The
server's clock is counted in polls.

`CapacityAssumption` is what makes `NobodyIsStarved` true, and is worth
knowing: a provider whose reports never arrive keeps a place in every batch, and
the others need room beside it in the batches of one backoff. Without the
assumption, providers that can never be located starve others even when every
report arrives, because an attempt defers for a time and not behind the rest.
With it, `EgressProberProofs` proves a bound on the wait: a provider that is due is left
out of at most `Backoff` batches in a row, as long as no report is lost on the way and
the prober does not die.

### `HealthRun`: one egress-health run

One goroutine per destination over the slots of the run, each request under
the earlier of its own deadline and the run's. `provider` is one that carries
traffic, one that swallows it, or one that answers everything with a bare 200.
Time passes only when nothing is due (`Due`): a request that reached its
deadline has ended, a free slot is taken at once. Scheduling delays, which in
the program are microseconds against seconds, are thereby left out; they could
push the last round of a run past the budget by as much. `ok` is the verdict of
`judge` on each reply; the properties are about time and slots, and hold
whatever it is.

### `Consensus`: from answers to one location

`geolocate.consensus` is a sequential algorithm with one thing that is not:
it counts in Go maps and reads them back in an order that changes from run to
run. So the two loops over the maps are actions that take any entry not yet
seen (`ReadCountry`, `ReadASN`), the rest are operators named as in the code
(`agreeOnPlace`, `canonicalPlace`), and the properties state what the result
should be without either: over all votes (`MapOrderIsInvisible`), over all sets
of sources (`GroupsArePairwise`). The sources that answered are the set `ok` of
their positions, which keeps the order the code breaks its last ties by.

`Consensus` takes the tokens and the display of a name as constants.
`PlaceNames` has the functions that compute them, rune by rune; a rune is told
apart only by what the code asks of it (parenthesis, letter, mark, blank,
other). `PlaceConsensus` puts the two together, and says of every name of
the answers that the one-pass scan removes the groups its comment speaks of
(`NamesReduceAsSaid`) and that the name is shown as it is compared
(`NamesShownAsMatched`). `MCConsensus` adds every name of a few runes, as the answer
of one source.

### `Lookup`: one tunnel, its requests and their pins

| Action | Code |
| --- | --- |
| `Open`, `OpenFails`, `Close`, `PumpEnds` | `providertunnel.Open` and `Close`, and the goroutine that pumps packets, which ends at its first read error |
| `Dial`, `Handshake` | `DialTLSContext`: the allowlist, then the verified path against the pins of the host (`PinHolds`) |
| `Answered`, `Fails`, `TimesOut`, `Cancelled` | the ways out of `fetchSource` |
| `Located` | `wg.Wait` and the quorum |
| `Measure` | the other measurements, to hosts that have no pins |
| `Renew`, `ChangeIssuer`, `Observe`, `Refresh` | a certificate is replaced, the server looks at it, the prober fetches the pins (external but for `Refresh`) |

Whoever answers at the far end may present the host's chain, or a chain of
somebody else's that verifies for the name, and beside it any certificate that
the path does not need. The hosts of the sources and those of the other measurements
are disjoint (`LookupAssumption`), as the tables of the code are meant to be: a comment at
`egresshealth.go:684` leaves `ipinfo.io` out because it is pinned, and a test that it
names enforces it for all of them.

### `Bandwidth`: the sampler and its streams

| Action | Code |
| --- | --- |
| `CheckTime`, `Reserve`, `Submit` | `sampleOne` around the measurement; `Outcome` goes on to the next target |
| `Open`, `OpenFails`, `Fire`, `Withdraw` | `openStream`, the barrier, and what a ready stream does when another failed |
| `Arrive` | the link: units delivered into the receive buffer of a stream, from the moment its response has begun, read or not |
| `Read`, `ReadFails`, `ReadCut` | one turn of the loop in `readStream`, by how it came back |
| `Finish` | `done.Wait` and the aggregate |
| `Tick`, `Signal` | time, which passes when nothing is due; the pass's context |

Bytes and seconds are small integers, and a read is at the instant it completes.
A measurement that is over within one instant has no elapsed time, which the code
treats like one with no bytes. `why` of a stream is history: what ended it, beside
`err`, what the code made of that. The pass's context has no deadline, so that
`hasTimeBudget` is its `Err()`: the branch that compares what is left with `MinTimeBudget`
is never reached, as `main` passes no deadline.

## What the runs check

| Run | Question | Distinct states |
| --- | --- | --- |
| `pass_cache` | batch after batch, lossy server, signal at any moment: cache, counters and records stay true, a failure is retried; `ProbePass` implements `PassSpec`, and a Run is the phase "run" of `EgressProber` | 449 000 |
| `pass_pool` | three jobs over two slots: pool bound, nothing outlives `Run`, one report each; every Run returns, and the signal ends the passes | 314 000 |
| `pass_shutdown` | *violation*: attempts cut short are not reported | |
| `main` | every command line, firewall and pin set, then both lists in any order, endpoint deployed, secret rotated: what a pass may begin with, who is skipped, the exit code; the signal ends the process, a daemon keeps asking | 470 000 |
| `main_exit` | *violation*: exit 0 with nothing fetched | |
| `due_queue` | the whole process and the server's queue, with reports lost, a signal and a crash: nobody is starved | 233 000 |
| `lookup` | two pinned sources and one unpinned host, certificates replaced at any moment, a pump that dies: what is believed, who is refused, that the probe leaves nothing | 1 090 000 |
| `health_run` | a sample or the whole table, through each kind of provider | 89 000 |
| `health_cost` | *violation*: the whole table costs more than one timeout | |
| `consensus` | every list of answers, the maps read in every order: ties, groups, what a confident verdict asserts; every name of a few runes | 82 000 |
| `bandwidth` | two targets, two streams: bytes against budget, whose figure it is, the common window, open bodies, and that it comes back | 375 000 |
| `bandwidth_lower` | *violation*: the lower bound is not one | |

Deadlock is checked in every run: the places where the program may stop are the
actions `Stopped`, `Exited`, `Finished`, `Closed` and `Done`.

### The bounds

- `ProbePass`: batches of one to three providers and one or two slots give a
  goroutine that waits while another holds the slot, and a provider that comes
  back in a later batch; `CacheTTL` 2 with a clock up to 2 puts an entry on each
  side of the boundary and on it. `pass_cache` runs with `Concurrency` 0 to
  exercise the floor. `pass_pool` leaves the optional steps of a probe out
  (`Wired`): they follow one another and share nothing, so they neither hold a slot
  longer than the others do nor can block. `MaxBatch` and `MaxTime` are the only bounds; the theorems
  hold for all of them.
- `EgressProber`: two providers, of whom one is at both of two locations, so that
  enumeration meets a duplicate; two sources and one host besides, each with a
  whole pin, half of one or none; a probe host open or not, each. `CacheTTL` 2
  outlives one pass, and `RefreshInterval` 1 makes a refresh due at every other pass.
- `DueQueue`: three providers and batches of two, one of the three never heard of
  again: just the room that `CapacityAssumption` asks for, so that one place less
  would starve somebody. `MaxLosses` and `MaxCrashes` 1: each loss or crash puts off what
  `NobodyIsStarved` promises, and unbounded many would for ever. The process is a
  daemon that has no confinement check to pass, as a crash starts it over from its flags.
- `Lookup`: two sources, the quorum, so that either can prevent it; two leaves and two
  issuers, one of each in use at first and one to change to; two replacements, so that
  a certificate can change again after it was observed. `MCInit` fixes which key is
  called the first. `PerSource` 1 leaves a request in time and one overdue.
- `HealthRun`: four destinations, one of each contract and two of them in one
  class, over two slots (three for the whole table): two rounds of each, the last
  one partial. `ProbeTimeout` is such that it does not divide evenly among the rounds.
  `Horizon` stops the clock after every deadline, where no run of the code gets.
  `health_cost` uses one class of three and slots in the code's proportion, fewer
  for a sample than for the whole table.

- `Consensus`: the three sources of the program, with every combination of code,
  name and system, and of code, city and region; and four sources of which two are
  trusted alike, because with three no tie reaches the quorum. The cities share
  their first word, which is what makes the match not transitive; two spellings of
  one have the same tokens, one has its district in parentheses. One code has no name in the table, one is not of two
  letters.
- `Bandwidth`: two streams, so that one can fail, stall or end before the other.
  Bodies of one unit less and one more than `StreamBytes`; `Chunk` lets a last read
  overshoot; `Timeout` 3 leaves a warmup, an instant on its edge and one after.
  A `Window` holds more than the link carries in an instant, so that it fills before
  the gun.
  The clock needs no further bound, as the measurement's deadline ends it.
- `PlaceNames`: all names of up to four runes over a letter, a blank and the two
  parentheses, up to three with a mark besides, and two words with up to four runes behind
  them: two words before a group, a group within a group, one that does not close and one
  that was never opened. One rune whose
  lower case is two letters stands for the foldings that lengthen a name.

### The fairness

- `ProbePass`: weak fairness of `Run` and of each job. Every step that blocks has
  a timeout: the tunnel's HTTP client, each source, the health run, each
  bandwidth measurement, the client of the server; and a goroutine that can run
  eventually does. `Close` of a tunnel and its creation are taken to return.
  No fairness of the signal or of the server.
- `EgressProber`: weak fairness of `main` as a whole. `select` between the timer
  and the signal is random; a process that chose the timer every time would still
  end, because the next call through the done context fails.
- `HealthRun`: each goroutine's send, timeout and cancellation, the return, and
  time. Not the provider: `Answer` and `Break` need never happen.

- `Bandwidth`: the goroutines of the streams, the two calls to the server, and time.
  Not `Open` or `Arrive`: a target need not answer and a link need not carry.
- `DueQueue`: as `EgressProber`, and strong fairness of `Poll`: a server that is polled
  for ever answers one of the polls. Nobody need be located.
- `Lookup`: deadlines, cancellation, the quorum, `Measure`, `Close` and time; and a
  closed tun fails the pump's next read. Not `Dial`, `Handshake` or `Answered`.
- `Consensus` has no liveness property; its loops are finite.

### Where code and documents disagree

1. `pass_shutdown`: "The attempt is reported afterwards whatever happened"
   (`prober.go:156`) and "The prober reports **every attempt** back" (README):
   an attempt in flight at SIGTERM is reported on the context SIGTERM cancelled,
   so it is not. It is harmless in one way, and `NothingRecordedOnceCut` shows
   which: the failure would have been the prober's, not the provider's.
2. `main_exit`: a single shot "exits non-zero if the provider list could not be
   fetched at all" (README): when the locations are listed and the call for each of
   them fails, the list is empty, without an error, and the exit code is 0.
3. `health_cost`: "A full run against a completely unresponsive provider costs at
   most one extra `-probe-timeout`" (README): true of a sampled run
   (`SampleCostsOneProbeTimeout`), not of the run over the whole table, which is the default:
   14 rounds of 12 s.
4. `bandwidth_lower`: a figure with `WarmupExcluded` false "is a LOWER BOUND on the
   real throughput" (`bandwidth.go`). The clock starts when the last stream has
   its response; what the others received until then sits in their receive
   buffers, and is counted in `total` with no time of its own. A last stream that
   opens late, close to the timeout, leaves a short window for all of it. The figure
   over the steady window does not have this fault (`SteadyWithinCapacity`).

Short of a disagreement, and not a run: `placename.go` says that keeping a
parenthesis after fewer than two words "can only ever make matching STRICTER".
Compared with dropping every group that is not so when words follow the group:
kept, `A (B) C` is matched by `A B`; dropped, it is `A C` and is not.

## What is proved

`ProbePassProofs`, for any fleet, batches, concurrency, TTL and clock:

1. `Base` is type correctness and *Walked*: jobs that Run has not reached are
   untouched, the indices of the others lie within the batch. `TypeOK` by itself
   is not inductive: `sem <= Limit` needs
2. `Slots`: the semaphore and the WaitGroup are the cardinalities of the sets of
   jobs that own a slot and that are running, and a tunnel is open only while its
   job is between open and close. From these follow `TypeCorrect`, `TunnelLimit`
   and `RunLeavesNothing`.
3. `Forgets`: the pruned cache is the unpruned one except where the entry is older
   than the TTL, and time only makes entries older. Gives `PruningIsFree`.
4. `Admitted`: the entry of every provider that has been admitted is stale and
   stays so until its own job marks it, as no other job has the same provider.
   Gives `CacheHonoured`.
5. `Records`: what is stored and reported of a job, against where it stands.
   Gives `RowsAreTrue`. `Owing`: a provider whose latest probe has had no submission
   acknowledged (`owed`) is stale in a cache that never forgets, and no job that is a
   success so far has such a provider. It needs `Admitted` where a probe begins
   and `Records` where one marks; with `Forgets` it gives `FailuresAreRetried`.
6. `Counted`: the number of reports against where the job stands. Gives
   `EveryProbeReports`.
7. `CutOnlyWhenDone`, and that nothing is sent then: the action property
   `ShutdownAccusesNobody`.
8. `Tallies`: each field of the Summary is the number of jobs past the step that
   counts them, and what Run has passed without starting it has skipped. With
   `Slots`, by which no job is half way when Run returns, gives `SummaryExact`.
9. `StepsLeft`, the steps that Run and its jobs still have before them: 15 for each job
   at most, and two for each turn of the loop. Each of their steps lowers it, a
   tick or a signal leaves it alone (`RunGoesForward`), and it starts at 17 for each
   provider and 2 at most (`RunIsBounded`). `RunIsNeverStuck`: until Run has
   returned, it or a job may step, as by `Slots` Run waits for a slot only while a job holds it, and for
   the WaitGroup only while a job is running.

Then comes `PassImplementsSpec`, the refinement. `Init` maps to
`PassSpec!Init`; `SkipCached`, `Spawn`, `MarkProbed`, `Release`, `Return`,
`BeginRun` and `Tick` map to a step of the promise and every other action to a
stutter. What each step needs is one of the invariants above: a skip needs
`Forgets`, a probe `Admitted` and `Slots` (the jobs that are probing are those
that hold a slot), the mark `Records`, the return `Slots` and `Tallies`. The one
hypothesis, `OneJobEach`, is that no list names a provider twice.

The last part proves `RunIsAsMainTakesIt`, by the same hypothesis, so that what
`EgressProberProofs` says of passes rests on the code of `Run` and not on its comment.
`SkipCached` maps to `Skip`, `TallyFailure` to `FailProvider`, `MarkProbed` to
`LocateProvider`, `Return` to `RunReturns`. `JobHides` says that every other step of a job
leaves the decided jobs alone and stores nothing under a done context. `Decides` says that
a job leaves the list and is counted as it is decided; the counts of the mapped Summary
are cardinalities, since the fields of the real one move a step earlier. `FreshByAge` and
`AgesTick` relate the ages to the times.

`EgressProberProofs`, for any fleet, hosts, pins and command lines, and, from item 5 on,
for any queue, losses and crashes:

1. `Established`: what each gate of the startup has settled, kept by every action
   behind it. Gives `OnlyConfined` and `Pinned`.
2. `Tallied`: the Summary adds up to what the pass has seen to, a server-driven
   pass never skips (an age is never below a TTL of 0), and an exit code agrees
   with the last pass. Gives `DrivenSkipsNobody` and `HonestExit`.
3. `DaemonEndures` and `RefusalIsVisible` are action properties, from the actions
   alone. `RefusalIsVisible` is about the poll of the due list. A secret rotated later in
   the pass is outside of it: the enumeration does not use the secret, and the
   submissions that are then refused are failed probes, which the Summary counts.
4. `RoundsAreFinite`: between two sleeps `main` never turns back to an earlier step, and
   the lists it loops over only get shorter, whatever the server answers.
5. `RestartsAreSafe`: a step of `DueQueue` is a step of the process or a `Crash`, which
   leaves it as `Init` does; so the first three invariants hold through any number of
   crashes and restarts.
6. `PassedOverAtMostBackoffTimes`, by a history variable `missed` that counts the polls in a
   row that left a provider out though it was due, since a report was last lost or the
   prober last died. A batch that leaves it out is full,
   and at least `Room` of it are providers whose reports arrive. All of them are reported
   before the next poll, and so are deferred for the next `Backoff` polls. After `k` misses
   `k * Room` providers are therefore ahead of it (`Waited`), and
   `CapacityAssumption` leaves no room for so many when `k` is `Backoff + 1`. The order of
   the queue is not needed: the backoff alone bounds the wait.

`LookupProofs`, for any hosts, keys, quorum and timeout: `PinsAreServed` (the pins
are those of the chains served), `FreshAtOpen` (they do not change while requests
are out) and `Settled` (a request that was refused, or answered, was judged by
them). Gives `PinnedAnswers` and `RenewalIsHarmless`. `Asked` says which requests are out
in which phase. It gives `NoRequestIsLeft`, `CountedVotesStand` (an answer that was
counted does not change while the tunnel is used for the other measurements),
`ProbeIsBounded` (every step of the probe takes the phase, a request or the clock forward, and the
clock stops at the deadline) and `ProbeIsNeverStuck` (a request that nobody answers
comes to its deadline).

`BandwidthProofs`, for any targets, streams, bodies and replies:

1. `Accounted` says that what has been pulled is the number of units the streams
   have read, as a set of <<stream, place>> pairs, which is bounded by the product
   the reservation is made of. `Orderly` relates how a stream ended to what the code
   made of it: a stream is withdrawn only after another failed, and a figure needs
   all of them to end without an error. Gives `EverythingIsPaidFor`,
   `FiguresAreOfTheLink`, `BodiesAreClosed` and, with the bounds of each stream
   (`Bounded`), `BandwidthTyped`.
2. `MInv` adds `Metered`, from which `SteadyIsCarried` follows. The units that
   all the streams have counted as steady, and those they hold ready to be read, together
   with what the link may still bring in this instant (`Load`, `left`), are at most what it
   carries from the first steady read of some stream until now (`Carried`). `TypeOK` alone
   says nothing of one stream against the others, which share one link.
3. `Draining`: a stream that has not ended has room under its cap, and none is still at its
   request when the gun is fired. Gives `SampleIsBounded` (every step of a sampling takes
   the clock, the phase or a stream forward) and `SampleIsNeverStuck` (there is always a step that
   waits for no target, link or reply).

`HealthRunProofs`, for any table, classes, slots and timeout:

1. `Slots` (the semaphore counts the requests in flight) gives `HealthTyped`; `OnTime`
   (the clock has not passed the budget) gives `SampleWithinTimeout`.
2. `PackedInv` gives `NoneCutByBudget`, by the argument of list scheduling. `Packed` is
   the heart: in the time of `k` requests `k + 1` rounds of the slots have been handed
   out, or there was nothing left to hand out. So the last request of `Rounds` rounds
   begins early enough to reach its own deadline first, which `Spared` says. `Drawn`
   bounds the number of requests by the rounds, and `InPast` says that none is of the
   future. The
   theorem's one hypothesis is `all \/ Rounds <= ProbeTimeout`. For a sample the code
   divides `-probe-timeout` by the rounds, and if nothing is left gives each request the whole
   of it; a later one could then be cut. That takes a timeout of less than a nanosecond for
   each round.
3. `StepsLeft` here counts the sends and ends of requests, the ticks up to the budget, the
   end of the context and the return. Every step lowers it (`RunGoesForward`,
   `RunIsBounded`); and with `OnTime`, `RunIsNeverStuck`: a run that waits for a slot waits
   for a request whose deadline the clock will reach.

`ConsensusProofs`, for any lists of answers, ranks, codes and names: `Country` and
`System` say that the best so far beats whatever has been read back, which at the
end of the loop is everything; beating is a strict order because codes are ordered
(`CodesOrdered`). `Published` says that the verdict is that of the answers. Gives
`OrderIsInvisible`, `ConfidenceIsComplete`, `GroupsPairwise` (names that prefix one
name prefix each other; and a set that agrees pairwise lies in the group around its
longest name) and `CityIsAgreed`. The last needs that a name as it is shown compares
like the name as it came, which is a theorem about `placename.go`:

`PlaceNamesProofs`, for names of any length over any runes:

1. The scans are folds, and a fold runs through the positions of a sequence by their
   greatest members. `ScanRuns`, `SpeltRuns` and `PickedRuns` turn each into an equation
   that says what one more rune does. Everything else is induction over the
   runes, as the least length at which a claim fails (`SmallestNumber`).
2. `DepthCounted`: the depth that the code counts up and down is the greatest surplus of
   "(" over ")" in any stretch that ends here, which is what *open* means to a reader.
   `RemovedNext`: a rune outside of groups is dropped if it opens one
   behind two words, a rune inside of one if the rune before it is.
3. `Following` is the invariant of the scan, on every prefix of a name: the tokens
   counted are the words of the prefix, or both are two or more (dropped words are not
   counted); and the scan is dropping exactly while it is in a removed group that has
   not closed. A rune is then written exactly when it is not removed. Gives
   `ReducesAsSaid`.
4. `SpeltAlikeNext` and `ReadAlikeNext`: collapsing white space changes neither the words of
   a name nor what a second reduction would do to it; and a reduced name is calm
   (`ReducedIsCalm`): a second scan drops nothing of it. Gives `ShownLikeMatched`.

Both are carried to the names of all the answers by `EveryNameIsReduced` and
`EveryNameIsShown` of `ConsensusProofs`.

`SumLemmas` has what several of these share: the least number of a set; the sum over a
finite set as the community modules compute it, one member at a time; and that a sum of
sizes is the number of pairs <<member, place>>, so that a sum grows by what one of its members
grows by.

The assumptions are the named ASSUMEs of the modules: the type of each constant;
that there is a source host to pin; that the table is finite; that codes are listed once;
and, in `PlaceConsensus`, that the names are sequences of runes whose tokens and display
are those of `PlaceNames`. That tokens are words, and survive being shown, is proved.

Model-checked only: liveness, for which the prover has no ENABLED. That is `RunReturns` and
`SignalEndsThePass` of `ProbePass`, `SignalEndsTheProcess`, `DaemonKeepsPassing`,
`NobodyIsStarved`, `ProbeLeavesNothing`, `RunReturns` of `HealthRun` and `SampleReturns`. What
they say apart from fairness is proved where it could be: that the steps to the end are
finite in number (of a Run, a health run, a probe, a sampling, and of `main` between two
sleeps, whose other states wait for the server), that short of the end there is always
one to take, and how long a provider can be passed over. That fairness then gets there is
left to TLC. Every invariant that a passing run checks is proved, and so are the
refinement and the three action properties.

Some theorems state what no run of the project checks: `DaemonEndures`, as
`DaemonKeepsPassing` has its conclusion among the outcomes it allows; the type invariants
`HealthTyped`, `EgressTyped` and `LookupTyped`; the two of `PlaceNamesProofs`, which the run
of `Consensus` checks for the names in answers; and those just described, which are the
safety part of a liveness property that a run does check. TLC found no
counterexample to any of them on the instances of the runs.

## What is not modelled

- The contents of an HTTP exchange: parsing of sources, JSON bodies, status codes
  other than those a caller tells apart, what is logged. The parsers of the three
  sources and the tables of countries and accented letters are data or conversions
  without state.
- The tunnel below `Open` and `Close` (a library), DNS, the verification of a
  certificate chain itself, the normalization of host names, `PinnedTLSConfig`
  (used by tests only).
- Time within a pass beyond the clock of the cache; elapsed times that are
  reported to nobody.
- The server: it is external, and only what it may answer is modelled. Of its
  schedule, what the comments of `ingest/schedule.go` say of it.
- Which organisation goes with a system, and the hosting, proxy and mobile flags (a
  disjunction of the sources').
- The table of destinations, and the draw of a sample beyond "any such subset"; the
  tallies by class that go into the log line.
- The plain-URL `Measure` of `bandwidth`, which the prober does not call, and how a
  target's URL is built.

## The plan

Done, in this order because each is used by the next or is the next in weight:
`ProbePass` and `PassSpec`, `EgressProber` on top of `PassSpec`, the proofs of both,
`HealthRun`, `Consensus`, `Bandwidth`, `DueQueue`, `PlaceNames`, `Lookup`; then the
proofs of `Lookup`, `Bandwidth`, `HealthRun` and `Consensus`, the Summary, and the
refinement of `PassSpec`; then the sums (`SteadyIsCarried`, `NoneCutByBudget`) and the
names (`PlaceNamesProofs`), and the mapping of a Run to `EgressProber`; then what is safety
in the liveness properties (finitely many steps, never stuck, a bound on the wait), and the
process through crashes and restarts.

To come:

1. `Confinement` with its addresses and deadlines, in place of the two actions of
   `EgressProber`.
2. The mapping from one job of `ProbePass` to `Lookup` and to `Bandwidth`, whose
   outcomes it takes as any.
3. What a verdict can assert when one of the three sources is in error.
