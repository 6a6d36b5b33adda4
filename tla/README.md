# robotics-acceptance-harness: models, checks and proofs

This directory keeps TLA+ models of the harness, the TLC configurations that
check them and the proofs TLAPS checks. Paths like `ros.py:223` are relative
to `src/robotics_acceptance_harness/` in the repository. `PROJECT.json` lists
the runs, the mutations each property has to catch, the lines every definition
models, the hazards and the theorems.

## 1. The system

One harness process verifies one ROS domain of one run. It attaches a read-only
observer, waits until the expected graph is ready and stable, measures for a
fixed time, detaches, creates a *measurement-complete marker*, waits for the
recorder (not part of this repository) to publish a finalized evidence index,
evaluates the evidence and publishes `acceptance-result.json` and `junit.xml`.
Later processes qualify the transport between domains, aggregate the results of
a run, and aggregate runs into a campaign.

| Component | State it keeps | Operations | Talks to | What makes it correct |
|---|---|---|---|---|
| `ros.py` RosGraphObserver | spin thread, first messages, clock samples, GetState calls, open/closing/closed | snapshot, start/stop clock window, close, callbacks | ROS domain (callbacks on its own thread, lock) | nothing lost without an error, samples in order, fresh answers, quiet once closed |
| `readiness.py` | start of the ready window, deadlines | wait_for_readiness | polls any observer | granted only after an unbroken window, items past their deadline never forgiven, ends |
| `forbidden_graph.py` | violations so far | observe, result | every snapshot | an interface seen once stays a violation |
| `application.py` run_verification | measurement window, marker, evidence | one long sequence with a `finally` | observer, recorder (through two files), reports | marker after detach, one publisher per marker, verdict about its own window, ends |
| `application.py` evaluate_from_evidence | none | the same evaluation from recorded evidence | reports | never `passed` |
| `result.py` | temporary files, two reports | fold of the status, JSON, JUnit | contracts package | passed exactly when clean, both reports agree, files replaced whole and in order |
| `aggregate.py` aggregate_results | what it loaded | load, check, fold, hash again, write | files others may replace | the aggregate is a snapshot, passes only as a whole |
| `aggregate.py` evaluate_transport_qualification, `traces.py` | observation files | pair spans, evaluate chains, write | evidence of all domains | pairing and order, partial outputs |
| `campaign.py` | what it loaded | count runs against limits | contexts and aggregates others may replace | counts and verdict agree, a run is one run |
| `metrics.py`, `otel.py` | none | parse, select, aggregate, window coverage, percentiles, durations | evidence | coverage edges, overlaps, temporality; what passes is true of what was measured |
| `timing.py`, `hardware_timing.py`, `time_authority.py` | none | policies over samples | metrics, clock samples | thresholds, monotonicity |
| `evaluation.py`, `plugin.py`, `policy.py` | none | assertions, plugins, receipts | evaluators | unique identifiers, trusted evaluators |
| `evidence.py`, `receipts.py`, `authorization.py`, `documents.py`, `run_context.py`, `extension_schemas.py` | none | validate and link documents | files | digests and identities match |
| `cli.py`, `diagnostics.py` | none | dispatch, exit code, error file | all | exit 0 only for a passed verdict |

Hard behaviours: the spin thread against the caller; a domain that changes
between two polls; calls that never complete; deadlines met at the very poll
that decides; a marker tested early and created late, by several processes;
kills between any two steps; a recorder that is late, early or absent; files
replaced while they are read; a wall clock that is set back.

## 2. Modules

| Module | Models | State and actions |
|---|---|---|
| `Verdict` | the status fold, result document, JUnit cases, exit code | pure operators; `VerdictStatus` is the fold in the order of `build_acceptance_result` |
| `Report` | publication of one result: `write_contract_json`, `write_junit_xml`, `main` | `Begin`, `Build`, `Stage` (temporary file), `Replace` (`os.replace`), `WriteFails`, `Exit`, `ExitFails`, `Kill`, for invocations that follow each other |
| `Readiness` | `evaluate_graph`, item deadlines, `wait_for_readiness` | `TakeSnapshot`, then one of `Expire`, `Grant`, `GiveUp`, `KeepWaiting`, then `Wake` |
| `RosObserver` | `RosGraphObserver` | the spin thread's callbacks (`ClockArrives` and `ClockRecorded` are the two halves around the lock), the caller's operations (`BeginSnapshot` and `FinishSnapshot` around the graph queries), and the domain. A GetState call is made by a snapshot, served by the node (`NodeReplies`), completed by the spin thread (`AnswerArrives`) and taken over by a later snapshot: four steps with anything in between |
| `Attach` | the wait of `Readiness` on the observer of `RosObserver` | composition: `Wait == INSTANCE Readiness`, its snapshots (`Reported`) come from the observer |
| `Measurement` | abstract: what is promised about one marker | `Complete`, `Finalize`, `Publish` |
| `Verification` | `run_verification` of several processes with the recorder, the domain and two clocks | one action per step of the function, `Kill` and failures at each call |
| `Timing` | what `run_verification` keeps of the observer's clock samples, and `evaluate_timing` on it | extends `RosObserver`; `TimePolicyMet` evaluates what each closed window returned |
| `Aggregation` | `aggregate_results` while its files are replaced | `Load` and `Reread` per file, `Accept`/`Refuse`, `Publish` |
| `Campaign` | `aggregate_campaign` on what `aggregate_results` published | extends `Aggregation`; `LoadContext`, `Summarise`, `CampaignRefused` |
| `Transport` | `evaluate_transport_qualification` with `load_otlp_json_traces` and `validate_trace_set`, one invocation after another | the files (`trace`, `index`, `observations`, `result`) and the invocation's memory; `LoadIndex` and `LoadTrace` per domain, `ValidateTraceSet`, `AcceptRelation`, `Observe` per channel, `Publish`, `Refuse`, `Die` |
| `Delivery` | `evaluate_channel_delivery` | an unreliable channel writes spans (`Send`, `Receive`); `ChannelDelivery` evaluates the spans of each state |
| `Causality` | `evaluate_causal_chain` with `_relationship_matches`, `_trace_graph`, `_reachable` | domains produce, consume and work under skewed clocks; `ChainStatuses` evaluates the trace of each state |
| `Instrument` | external: the process under test, its instruments and their exporter | `Work` (an instant passes and something is counted, recorded or read), `Collect` (some points get through), `Restart` |
| `MetricWindow` | what counters and histograms share: the series of a window, baselines, delta points, `require_window_coverage` | pure operators over the points of `Instrument` |
| `DataPlane` | `counter_window_aggregate`, the loss and sequence verdicts of `evaluate_data_plane_policy` | `LossVerdict`, `SequenceVerdict` |
| `Histogram` | `_histogram_contributions`, `_merge_histograms`, `_histogram_quantile_bounds`, `_histogram_quantile_evaluation` | `QuantileBounds`, `QuantileVerdict` |
| `TimeAuthority` | `evaluate_time_authority` on such a histogram | `WithinPolicy` |
| `Duration` | `_duration_evaluation` on a sampled gauge | `DurationVerdict` |

`MC*` modules define what constants are given, and which of two situations a
behaviour is about where their product would be too large (`active` in
`MCVerification`, `traffic` in `MCTiming`); `Delivery` needs none, its run gives
plain values. `*Proofs` modules hold the theorems of the modules they extend:
`RosObserverProofs` those of `RosObserver`, `Attach` and `Timing`,
`TransportProofs` those of `Transport` and `Delivery`, `MetricsProofs` those of
`DataPlane`, `Histogram`, `TimeAuthority` and `Duration`, `ReportProofs` those
of `Report` with the lemmas about `Verdict`, `AggregationProofs` those of
`Aggregation` and `Campaign`.
`Verification` and `Report` meet in `Verdict`: both publish what
`VerdictStatus` says. `Verification` treats the readiness wait as polls that
end, which is what `Readiness` shows (`WaitEnds`), and a report as one step,
which is what `Report` looks into. `Transport` treats what a channel or a chain
comes to as any outcome; `Delivery` and `Causality` say what the outcomes mean.
`RosObserver` is composed twice: with the wait loop (`Attach`) and with the
time policies (`Timing`). `Campaign` reads the aggregate `Aggregation` wrote,
from the same files.

`Delivery`, `Causality` and the metric modules are evaluations without state. What can
go wrong with them is that the evidence is not what it seems, so each is put
behind a small model of what writes the evidence, and its properties compare
the verdict with what really happened: history the evaluation never reads
(`of`, `cause`, `history`); `Timing` likewise compares with `heard`, every
message delivered on /clock, of which the samples are a thinned part.

A definition commented "Mutation" is a plausible bug in the definition after
it; no specification uses it. For every property of every passing run a
mutation is listed that TLC finds to violate it.

### What is external

The contracts package (`robotics_runtime_contracts`) is not in the repository.
`worst_status` is the constant `WorstStatus` with the assumption
`WorstStatusAssumption` (a member of the set; an error, then a failure, hides
everything milder; a gap is never hidden by "passed"). The runs instantiate it
with the order the tests show. `collapse_cancelled` has no effect here: no
modelled document has the status "cancelled". Recorder, robot, rclpy futures,
clocks and the operating system's kill are actions modelled from how the code
uses them.

## 3. Runs

| Run | Question | Bounds, and why they are enough |
|---|---|---|
| `report` | Is the fold right for every input, do both reports agree, what is on disk and what does the exit code mean under failing writes and kills? | two assertions in any states (or absent), four sets of declared gaps (none, authority, offline, all), every observation: all combinations the fold can tell apart. The first of three invocations has any of these inputs; the other two have one per verdict (`Following`), on what the first left: the third can find files of two different earlier ones |
| `readiness` | Window, deadlines, end of the wait, for a graph that flaps at will | one topic, endpoint and node; times 1 to 5 such that each deadline falls before, on and after the others; clock until 7, beyond the last deadline and one sleep. `Snapshots` has a ready graph and one per kind of item and deadline that makes it unready |
| `observer_clock` | Lost, duplicated, early samples; close under a running callback; is a time policy that passes true of the clock? | four source times, of which a clock may stand still, go back, keep its pace and skip a step; four messages and room for three samples: the buffer repeats, alternates and overflows; three instants, every window inside them. Or (`traffic`) a topic that comes and goes beside a single clock message: they meet only in `first` and at close |
| `attach_replies` | Is readiness about the robot, and how old can an answer be, when nodes answer or do not and a reply takes any time? | one node (trackers do not interact) of two states, a window of one tick, five ticks: a reply may be on its way over several snapshots |
| `attach_stale` | The same of every node, answering or not: **violated** (see 6) | the same |
| `verification` | Several processes on one marker and refinement of `Measurement`; exposure, evidence of the right window, termination | `active` is chosen at the start: both processes in a quiet domain (every race about the marker is between the winner and one other; `VerificationProofs` covers any number), or one of them in a domain with a forbidden interface that comes and goes, under a wall clock that is set back once. The two are exclusive only to keep the run small. One tick of the edges is tolerated at most (`EdgeTolerance`), and a twentieth of the window, which at two ticks is none |
| `transport` | Is what is linked what was evaluated, what does passed mean, what does a failed invocation leave? | two domains with a channel in either direction and one chain; each trace replaced once, under either index; two invocations: the second finds the files of the first |
| `delivery` | Did a passed channel deliver, did a channel blamed for reordering reorder? | two publications and three receipts (one lost, one repeated, two swapped), two identifiers or none, a window shorter than the run |
| `causal_chain` | Did a passed chain happen, can it be taken back? | two channels, one related by links and one as parent, the middle clock ahead; five spans, one more than the shortest chain has; one span out of the ordinary (`MaxOdd`) |
| `metrics_counters` | Is a verdict about the window exact? | a window of three instants with one before and one after it, one of its instants tolerated, two restarts; cumulative and delta; the points of one counter may be lost alone |
| `metrics_window` | Are percentiles, the time authority and durations that pass true of what was measured? | a window of three instants with two before it; three values in two of the three buckets of a histogram (the middle one holds two, so that its bounds are not its values), one restart; a gauge that is on or off, gaps of two instants permitted; medians and 95th percentiles |
| `aggregation` | Is the aggregate a snapshot, what does passed mean, of one run and of a campaign? | two domains, two result files, a context and a qualification, two replacements (one before, one behind the reader); up to two other runs of any status, one failed run tolerated |

`CHECK_DEADLOCK FALSE` everywhere: every modelled process ends, and the bounded
clocks, spans and points run out. Bounds that are not in the code: `MaxTime`, `MaxSetBack`,
`MaxInvocations`, `MaxVersion`, `MaxAttempts`,
`MaxSent`, `MaxReceived`, `MaxHeard`, `MaxSpans`, `MaxOdd`, `MaxRestarts`.
In `Verification` the last instant stands for
all later ones (`Due`), so that a deadline beyond the bound still comes.

### Fairness

- `Readiness!FairSpec`: the waiting thread is scheduled and time passes.
- `RosObserver!Retrying`: a callback that has begun ends (it appends to a
  list under a lock held for moments), and a caller whose close raised calls it
  again until it does not time out; that is how `tests/test_ros.py:287` uses it,
  while `run_verification` calls it once (`application.py:307`). A close may time out
  for any reason, and as often as it likes before it succeeds.
- `Verification!FairSpec`: time passes and each process takes its next step. No
  fairness on failures, kills, the domain or the recorder. The `readiness` step
  is left eventually because `wait_for_readiness` ends.

## 4. Properties

Type invariants (`TypeOK` of `Readiness`, `Report`, `RosObserver`, `Verification`,
`Aggregation`, `Transport` and `Causality`) are proved and so not checked by the
runs. What the runs check:

- `PassedExactlyWhenClean`, `GapNeverMasksFailure`: four overrides of one
  variable amount to one clear condition. A forbidden interface does not
  count as a known failure here: when an assertion was skipped as well, the
  code says "incomplete" and the JUnit report shows the failure.
- `JUnitAgreesWithJson`, `JUnitNeverAhead`, `ExitZeroMeansPublished`,
  `NoLitter`: what a CI job that reads the files or the exit code may conclude.
- `GrantedAfterWindow`, `NoCompleteWindowRefused`, `OverdueNeverForgiven`,
  `WaitEnds`: stated over the history of polls and not over the loop's own
  variables.
- `SamplesInOrder`, `AtMostOneEarlySample`, `LossIsReported`,
  `QuietAfterClose`, `CloseCompletes`. `LossIsReported` is
  about the windows the observer returned: complete means that no source time
  heard in it is missing.
- `PassedClockIsTrue`: a time policy that passes on filtered, thinned and limited
  samples holds of every two messages delivered in the window, for every
  window `run_verification` may have read off the clock around the recording.
- `FreshWhenAnswered` (an answer that is taken over is not older than the snapshot
  that could make its call) and `RequiredIfAnswering` (when readiness is granted,
  every node no poll found without its service or with a call still open was in its
  required state during the window). `RequiredWithinWindow` says the same of every
  node and does not hold.
- `MarkedMeansDetached`, `ImplementsMeasurement` (one marker, one publisher, no
  verdict before it), `ExposureNeverPasses`, `PassedIsRecorded`, `EveryRunEnds`.
- `AggregateIsSnapshot`, `PassedMeansEveryDomain`, and for the campaign on top of
  it `CampaignLinksOneRun` (context, results and qualification it links were on
  disk at one instant) and `PassedCampaignIsEarned`.
- `SpansAreEvidence`, `PassedMeansQualified`, `ObservationsBackResult`.
- `PassedMeansDelivered`, `DisorderIsReal`, `PassedChainHappened`, `PassIsKept`,
  `VerdictsAreTrue`, `CumulativeMeansWindow`, `PassedQuantileIsTrue`,
  `PercentileMeansWindow`, `AuthorityIsWithinPolicy`, `PassedDurationHeld`: a verdict
  agrees with what really
  happened, and the evidence may be lost, repeated, reordered or of a restarted
  process.

## 5. Proofs

All for every value of the constants that satisfies the named assumptions.
Every safety invariant, every action property and the refinement the runs check
is the statement of a theorem.

### The wait, the observer and both together

- `ReadinessProofs`. Invariant: type correctness, plus a description of the
  history of polls by the loop's variables: `firstReady` is the time of the
  first poll of the current ready run, and that run was not yet long enough
  while the loop goes on. `GrantedAfterWindow` alone is not inductive: it says
  nothing before the wait ends. One lemma per action.
- `RosObserverProofs`, the observer. Of all actions only five kinds touch the
  clock (`StepIsClockStep`), so that the invariants about it are proved of these.
  The callback between its stamp and the lock is the latest thing that happened
  to the clock, and once a sample is there it began after the window did
  (`StampIsLatest`): from this the order of the samples and the single early one.
  `LossReported` is an action property: unless the buffer overflowed every source
  time heard has its sample (`NothingLost`), and nothing else returns samples.
  `ClosedIsQuiet` needs that close returns only when the thread is gone
  (`ThreadJoined`). `AnswersAreFresh` needs that a reply, on its way or
  arrived, is from after the snapshot that could make its call (`AnswersAfterCall`).
- `RosObserverProofs`, the wait on it. `AttachedObserver` and `AttachedWait` show
  that `AttachSpec` implements both `RosObserver` and `Readiness` (with the
  snapshots the observer can deliver), whether or not nodes answer: composing
  them takes nothing of what is proved of each. `ReadyNodesWereRequired` is what
  only the composition can say. Its invariant (`AttachInv`) ties the three
  histories together: a required state that a node has replied was there
  (`Remembered`); snapshots follow each other (`TakenInOrder`); where the one under
  way or being judged finds a node that answers (`Answering`) ready, the node was
  since the poll before (`SnapshotIsLatest`), because its answer is to a call made
  then (`AllCalled`); the same for the polls already judged (`PollsInOrder`); a window
  is open only after a ready poll (`WindowHasPolls`). Nothing is assumed of how long
  replies take or of the other nodes; of the nodes that miss a poll nothing is said,
  and `attach_stale` shows why. One hypothesis: `WindowRequired` (the
  graph or a node asks for some stability, `stable_for_sec`; the scenarios under
  `tests/fixtures` ask for 1 and 3 seconds). With all windows zero, which the code
  accepts and `tests/test_application.py:300` uses, a single poll grants readiness,
  and its answers are from before it: the window is empty and TLC finds the state
  that violates `RequiredIfAnswering`.
- `RosObserverProofs`, the time policies. `ClockIsHonoured` proves
  `PassedClockIsTrue`. The inductive invariant says how samples and messages
  correspond (`Thinned`): unless the buffer overflowed there is a monotone map
  from the messages heard to the samples that keeps source times, takes every
  message that changed the source time to itself, and reaches every sample.
  With it (`StandsFor`, cut to any window that begins and ends among the
  callbacks) what a policy says from sample to sample becomes, by lemmas that
  chain neighbours (`Chained`, `Telescopes`, `WholeSteps`), what it says of any two
  messages. `TimingAssumption` says source times are integers.

### Verdicts, reports, processes and files

- `ReportProofs`. First the case analysis of the fold, from
  `WorstStatusAssumption` alone (`PassedIsClean`, `FailureShows`,
  `GreenIsClean`). Then: what is on disk was built from inputs, files are numbered
  by invocation, and between the two replacements the JSON is the current one;
  the six safety properties of `Report` follow. Type correctness needs that the
  fold never says "skipped" (`VerdictTyped`).
- `VerificationProofs`. Invariant: where a process is determines who owns the
  marker, whether it is attached, what it has loaded and what its reports say.
  `Refinement` proves `Spec => Abstract!Spec` step by step: `Mark` is
  `Complete`, `RecorderFinalizes` is `Finalize`, the writes are `Publish`, all
  else stutters. `OneOwner` says the same of the state: only the process that
  created the marker has reports there. `PassedIsRecorded` needs that wall-clock
  and monotonic time run in step until the clock is set back, hence its premise; what
  may be missing at the edges is proved for every `EdgeTolerance` (`CoveredIsRecorded`).
- `AggregationProofs`. A version names its content, documents in hand are never
  newer than their file, and as long as not everything loaded has been on disk
  at once something replaced is still *ahead* of the second reading
  (`ReplacedIsAhead`): the reason why loading everything and then hashing
  everything again works, where hashing each file right after loading it would
  not. For the campaign: an aggregate, once published, is fixed with what it was
  computed from, and a version names its content; so the context with the
  linked digest is the one that was on disk with the results.
- `TransportProofs`. Invariant: what was loaded of each domain has the version
  that was verified (the reason why hashing in `load_otlp_json_traces` again is
  needed), the loops are within their orders, and while files are written they
  agree with the references so far. `WorstPassed` is all that is used of the
  order of severity.

### Evaluations against what really happened

- `TransportProofs`, one channel. Invariant (`ChannelInv`): both ends are finite
  sets of spans told apart by their keys, and a receipt has the identifier of the
  publication it is of, or none. A channel that passes has the violations of
  neither kind, so identifiers tell its messages apart, every span is in the
  window (`Plain`), and pairing by identifier is pairing by what is received:
  loss, duplicates and ages are then counted right (`PassedIsDelivered`).
  `ReorderingIsReal` needs less, distinct time stamps instead of passed limits.
- `CausalityProofs`. `TypeOK` says that a span records its cause or nothing; it
  is inductive. From it alone: an edge of the graph is a cause, so every set that
  is closed under causes is closed under edges, so what is reachable was led to
  (`ReachableIsLedTo`), so a connected chain happened, for any chain, any number
  of spans and any clock offsets. `PassedStays` is an action property: a step
  adds one span later than those of its domain (`Grown`), so the earliest valid
  pairs stay the earliest (`EarliestKept`) and what was reachable stays so.
- `MetricsProofs`, coverage. The points of a series are dated by the collections
  that exported them and belong to one incarnation of the process (`Dated`,
  `Incarnated`). Intervals that pass `require_window_coverage` miss no more
  instants of the window than are tolerated, and exceed it by no more
  (`CoverageMisses`, `CoverageExceeds`): `CountersCoverWindow` and, with the
  clipping of `histogram_window_coverage`, `PercentileCoversWindow`.
- `MetricsProofs`, counts. Every point counts exactly the instants since the
  start of its incarnation or since the point before it (`Counted`, inductive);
  a difference of two points therefore counts the instants between them, and
  contributions that do not overlap add up to what happened in their union
  (`TotalIsTrue`, `MergedCountIs`). `VerdictsTrue` follows; for percentiles the
  value of a rank lies between the bounds of the bucket the merged counts give
  (`QuantileWithin`), tightened by the smallest and largest value, and a limit is
  compared with the end that is worse for it (`WorseEndDecides`):
  `PassedQuantiles`, and `AuthorityWithinPolicy` for the points the time authority
  selects. `HistogramAssumption` says that a point of a histogram is exported
  with all its buckets or not at all, as one OTLP data point is.
- `MetricsProofs`, durations. Samples of the gauge are what it was then
  (`Gauged`); a run of samples ends where the predicate changes or a gap begins
  (`RunEnds`, `NoSampleBetween`), hence `DurationsHeld`.

Sums are `SumFunctionOnSet` of the community modules, a recursive function over a
finite set. That two of them agree is proved without an induction theorem over
operators: `SubsetInduction` states induction over the subsets of a finite set
with a set in place of the predicate, `SumsExist` and `SumIs` turn the
recursive definition into the equation it satisfies, and the lemmas on unions,
partitions and exchange of the order of summation (`SumUnion`, `SumOfParts`,
`SumSwap`) follow from it.

### Only model-checked

All liveness, which is out of the prover's reach: `WaitEnds`, `CloseCompletes` and
`EveryRunEnds`. What a theorem of one module says inside another is shown by
implementation (`AttachedWait`) and then read off: the prover does not take an
instance of a theorem as a fact.

## 6. Findings and observations

- `attach_stale` violates `RequiredWithinWindow`. `readiness.py:221` says "Wait
  until every endpoint remains ready for one uninterrupted window." But
  `_poll_lifecycle` (`ros.py:223-236`) keeps the last answer while a GetState
  call is pending or its service is gone. A node that answered "active" once,
  then left the state and stopped answering, is reported active in every later
  snapshot and readiness is granted. `attach_replies` and `ReadyNodesWereRequired`
  show what is true: of a node that answered from poll to poll readiness is right.
- The expected graph is not judged again after readiness. The result carries the
  last snapshot, but the verdict does not look at it.
- An index that exists already is accepted without waiting; what keeps it from
  producing a passed verdict is that the time authority metric in it has to
  cover the window (`PassedIsRecorded`).
- ADR 0004 says that a duplicate domain fails aggregation. `aggregate_results`
  compares *sets* of domains and refuses equal result identifiers; whether two
  different results of one domain are refused is left to the contracts package,
  which the repository does not contain. The model allows both outcomes
  (`PublishFails`).

- A causal chain takes the earliest pair of each channel by itself. When the
  earliest messages of two channels do not belong together the chain is
  "failed", although a later message may have gone all the way. `PassIsKept`
  shows the other side: what passed is not taken back by later messages.
- `PassIsKept` needs time stamps that tell the spans of a domain apart. Of pairs
  with equal stamps the code takes the one with the smaller span identifier,
  which is random; the model allows each.
- Gaps between delta intervals inside the window are accepted, and a test wants
  it so (`require_window_coverage` looks for gaps only if the temporality is not
  "delta"). A lost delta export therefore goes unnoticed, and
  `CumulativeMeansWindow` is said of cumulative counters only.
- A percentile of a cumulative histogram may rest on a baseline from long before
  the window: `histogram_window_coverage` (`metrics.py:270`) cuts the interval off
  at the window before its coverage is checked, and `tests/test_metrics.py:206`
  wants it so. For counters the same baseline is refused. `PercentileMeansWindow`
  says what is left: the baseline is the last point before the window.
- `evaluate_time_authority` selects the points of the window before it aggregates
  them (`time_authority.py:48`). A cumulative series that began before the window
  is therefore never within policy: it has no baseline, or, with a point taken right
  at the start, the subtraction loses minimum and maximum, and a missing maximum is
  out of policy. Strict, and what `AuthorityIsWithinPolicy` rests on.
- A simulated clock that stops in mid-window is not noticed by any time policy
  (no message, no sample, and all of them judge from sample to sample), nor is a
  repetition of the source time heard just before the window.
  `PassedClockIsTrue` speaks of what was delivered from the first change to the last.
- An invocation of `evaluate_transport_qualification` that dies after its first
  observation file leaves the old result beside new observations. The digests
  show it; `ObservationsBackResult` excludes exactly that (`torn`).

## 7. Not modelled, and why

Parsing, schema validation, formatting and digests of immutable inputs
(`documents.py`, `run_context.py`, `extension_schemas.py`, `otel.py`): sequential
and without state. `diagnostics.py`: after the exit code is decided. Crashes of
the machine (loss of data that was not synced): the JSON is fsynced before it is
replaced, the JUnit report is not; kills only lose what was never written.
Hardware targets in `Verification` (`hardware = "none"`): the hardware gate is
covered by `Verdict` and `Report`. The tolerance of window coverage is the smaller
of `EdgeTolerance` and a twentieth of the window there, as in the code, and a number
in `MetricWindow`. Skewed clocks are in `Causality`;
`Delivery` measures ages with one clock, since a channel whose clocks have no
passed relation does not qualify anyway (`PassedMeansQualified`). Attribute
series: one series of each counter, as two series never meet in the code but in
a sum. The scalar aggregates of a gauge (last, mean, minimum, maximum) are one
expression over the selected samples, and without a promise about what lies between
them. `evaluate_data_plane_policy` turns its counter verdicts into errors when the
message age cannot be evaluated, which `DataPlane` leaves out: it only removes
verdicts.
`hardware_timing.py` requires that the points of four metrics share their time
stamps and compares each with a limit, `authorization.py` is one conjunction at
one instant, `receipts.py` and `plugin.py` match immutable documents,
`evaluation.py` calls plugins in order and refuses their duplicates: each is a
guard a property would only restate. Their outcomes are inputs of `Verdict`.
`evaluate_from_evidence` is the evaluation of `run_verification` without anything
live in it; that it never passes is in `Verdict` (`OfflineGaps`) and in
`PassedExactlyWhenClean`. Refusals of contract documents in `evaluate_transport_qualification` are
the assumption of `Transport`: a refused invocation has written nothing.

## 8. Plan

Done: all modules of section 2 and the proofs of section 5. Next, in this order:

1. The steps of the liveness arguments that are not temporal: a measure of each
   of `Readiness`, `RosObserver` and `Verification` that every helpful step
   decreases and no other step increases, so that only the fairness rule itself
   is left to TLC.
2. `Verification` with the reports of `Report` in place of its single step, so
   that a kill between the two replacements meets the marker.
3. `HardwareTiming` on `Instrument`, if partial exports are to be told apart from
   lost ones.
