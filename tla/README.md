# gputui in TLA+

gputui samples the GPUs and the host of one machine, derives *hints* from what
it measured (a parked GPU, an NVLink that lost lanes, a kernel Xid event), shows
them in a terminal and, as an agent, records them to disk and serves them on a
local socket. This directory holds TLA+ modules of its stateful parts, TLC
configurations that check them on small instances, and TLAPS proofs of the
results that matter for every instance. Paths below are relative to the
repository; line numbers are in `PROJECT.json`, whose `map` says which lines each
definition stands for, whose `hazards` list what is hard to test in this code and
which property watches it, and whose `mutants` give, for every property, a
plausible bug that it catches.

## 1. The system

```
            host   GPU/procs   kernel log       health signals (background)
              \       |          /                     |
               Pipeline.realSnapshot  <---------  cachedHealth / refreshHealth
                        |
               Evaluator (rules, replay of health rules)
                        |
               HysteresisEvaluator
                        |  snapshot with hints
            +-----------+--------------------+
        agent: Recorder -> snapshotStore    standalone TUI
                               |             (one fetch per tick)
                          unix socket ------> TUI as a client
```

| Component | State | Operations | What is hard | What makes it correct | Module |
|---|---|---|---|---|---|
| Background health refresh (`pipeline.go` 291–348) | cache, running flag, last error, time of the last run | `cachedHealth` (two critical sections), `refreshHealth` | overlapping samples, a refresh that finishes between the sections, a driver that hangs or fails | one refresh at a time, results in order, each error reported once, refreshing never stops | `HealthCache` (proofs: `HealthCacheProofs`) |
| Sampling pipeline (`pipeline.go` 103–289) | results of the three collector functions of each sample; the log cursor | `Collect`, `realSnapshot`, parallel or sequential | failure of one collector after another consumed events; overlapping samples | an event in one snapshot only, lost only by a fatal error, no health error dropped | `SamplePipeline` (proofs: `SamplePipelineProofs`), abstract: `LogStream` |
| Hints evaluator (`evaluator.go`, rules `ecc`, `temp_outlier`, `nvlink`) | hash of the last signals, cached hints per rule, last CRC counters | `Evaluate` | what is replayed is not what the rule would say now | replayed hints equal fresh ones, baselines stay current | `RuleCache`, `HealthRules` (proofs: `RuleCacheProofs`) |
| Hysteresis filter (`hysteresis.go`) | a decaying score per hint name | `Evaluate` | boundaries of the threshold, growth of the map | suppresses only; transient held back, sustained shown | `Hysteresis` (proofs: `HysteresisProofs`) |
| JSONL recorder (`recorder.go`) | two files, their buffers and sticky errors, count of writes | `NewWithOptions`, `WriteSnapshot`, `Close` | short writes, failed fsync, kill in a write, power loss, restart in append mode | order, no duplicate, acknowledged means recorded, loss bounded | `Recorder` (proofs: `RecorderProofs`) |
| Agent (`gputui-agent/main.go`) | published snapshot, signal channel, exit status | `run`, `writeSnap`, `runLoop`, the deferred calls | order of recording and publishing; signals at any moment; errors of deferred calls | what clients saw is on record, exit status 0 means durable, signals end it | `Agent`, composed with `Recorder` (proofs: `AgentProofs`) |
| Local API (`unixsock/server.go`, `client/client.go`) | socket file, listener, published snapshot, kept connections | `Start`, `Shutdown`, `handleSnapshot`, the client's calls | two agents on one path, a socket left by a kill, shutdown with requests in flight | the path leads to the agent, answers are current | `UnixSocketApi`; `Agent!Read` (proofs: `CollectorsProofs`) |
| Terminal UI (`cmd/gputui/tui.go`, `sparkline.go`) | last snapshot, hint history, link errors, ring buffers, cursors, pause, memoised lists | `Update` on key, tick, size and snapshot messages; what `View` makes of them | fetches that end out of order or while paused, caps, lists that shrink under a cursor | history bounded and current, totals exact, tables and cursors never stale, charts fit | `TuiModel` of `HintHistory`, `LinkErrors`, `RingBuffer`, `TuiLayout` (proofs: `TuiProofs`) |
| NVML collector (`nvml_linux.go`) | init flag, device handles | `Collect`, `CollectProcesses`, `CollectHealth` | handle cache checked and replaced in two sections; queries that fail | present handles, each process once, a failed query accuses no GPU | `NvmlHandles`, `NvmlProcesses`, `GpuRules` (proofs: `CollectorsProofs`) |
| Kernel log collector (`dmesg_linux.go`, `parse.go`) | open `/dev/kmsg` or time of the last line | `Collect` | ring overrun, change to `dmesg`, untimed lines, a sample cut short | each event once, missed only for a reason | `KmsgCollector` (proofs: `CollectorsProofs`) |
| Process enricher (`enricher.go`, `lookup_linux.go`) | CPU baselines and identities by PID | `Enrich` | reused PIDs, reads of `/proc` at different times, eviction | never another process's name or time | `Enricher` (proofs: `CollectorsProofs`) |
| Host collector (`collector_linux.go`, `parse.go`) | last CPU times | `Collect` | wrap-around, overlapping samples, a counter that goes back | shares of one interval | `HostCpu` (proofs: `CollectorsProofs`) |
| Other rules (`throttle`, `gpu_parked`, `membw_bound`, `pcie_degraded`, `cpubound`, `iobound`, `stability`) | none | `Evaluate` | zeros that mean "unknown", three decoders of one bitmap | no hint from a failed query, labels agree with hints | `GpuRules` (proofs: `CollectorsProofs`); inputs of `RuleCache`, `Hysteresis` |
| Demo generator, text rendering, plain mode, model types, harnesses | none that is carried | – | – | – | not modelled, or only the state label (`GpuRules`) |

**Interaction.** `Collect` runs on the agent's only goroutine, one call at a time;
in the standalone UI every tick starts a fetch on a goroutine of its own without
waiting for the one before, so calls overlap. The health refresh is a goroutine
of its own in both. The evaluator, the filter and the host collector have no
lock: in the standalone UI overlapping calls race on them. This is listed as a
hazard; the modules describe evaluations one at a time, as the agent makes them.
The recorder takes a mutex for a whole operation; the store has its own.

## 2. Modules and the code

**`HealthCache`.** A refresh is a number, given in the order they start; the
cache and the error hold the number of the refresh that produced them, 0 for
none. `ReadCache` is the first critical section of `cachedHealth` with the start of the
goroutine, `SurfaceError` the second; any step of another caller or of the
refresh may come between. `PublishSignals` and `PublishError` are the critical
section of `refreshHealth`. The clock is a counter up to `Period`, where the
cache is stale. `healthTimeout` is the assumption that a refresh ends, made only
for the property that needs it (`SamplingGoesOn`).

**`SamplePipeline`** has a record of outcomes for each sample in progress: how
the host, GPU and log functions ended. If `parallel` they end in any order,
without it each waits for the success of the previous one. `logFn` takes events
from the kernel's log, all or, when the sample's deadline cuts it short, some.
The health part is `HealthCache` itself (INSTANCE), so its actions are used, not
repeated; `HealthSpec` (proved) says that the pipeline uses it as it specifies.
**`LogStream`** says what a user expects of kernel events: each that happens is
delivered, or dropped if `lossy`. `SamplePipeline` implements it with
`lossy <- parallel`: the refinement maps an event to what became of it.

**`HealthRules`** has the three rules as functions of the signals: median,
outliers and deltas as the code computes them, with ratios multiplied out to stay
integers. **`RuleCache`** is the evaluator: `Evaluate` compares the hash, replays or
runs each health-only rule, updates the cache and the counters of the link rule, for any
signals. The hash stands for the fields it covers, no collision is modelled.

**`Hysteresis`.** Scores are naturals in units of 1/`One`; `Decay` is any function
with the properties of a decay (assumption `ScoreAssumption`), so the proofs do
not depend on rounding. `ThresholdAssumption` says what the default half-life
and threshold give: 1.79 < 2.0 <= 2.42.

**`Recorder`.** A record is two pieces, its beginning and its end, so a write can
stop within a line. What the operating system has (`file`), what is on the disk
(`synced`) and what is in each `bufio.Writer` (`buf`) are separate; `broken` has
the writers whose error is sticky. `op` is the next step of `WriteSnapshot` or
`Close`. `Kill` and `PowerLoss` may come at any step, `NewRecorder` reopens the files.

**`Agent`** instantiates `Recorder` and adds the process: `pc` goes through the
start of the server, collect, record, select and the deferred calls in their order.
`Terminate` kills the process unless `runLoop` has registered the channel.
`-once` is a variable chosen at the start, so that one run has both.

**`TuiModel`** is the Bubble Tea model. A session fixes the snapshots the node has
for its fetches and which inputs the user may give; `Update` has an action for each message:
`Tick` (starts a fetch, arms the next tick), `Answer` and `AnswerError` (in any order of the
fetches), `User` (keys, one operator each) and `Resize`. **`HintHistory`**, **`LinkErrors`** and **`RingBuffer`** are
the parts of its state with rules of their own; **`TuiLayout`** has the row
arithmetic of `View`, which the scrolling and `viewCharts` depend on, and what the renderer
leaves out at the top of a view that is too tall. The TUI's
rings of a GPU are pushed together, so one stands for all.

**`KmsgCollector`** numbers the kernel's records; the ring keeps the last of them and
`next` is the device's cursor. `StopReading` is the end of the log or the
deadline, `ReadFails` an overrun or a broken device, after which only `dmesg` is
read. Whether a `dmesg` prints times is open at every call, as `runDmesg` decides it every time.
**`NvmlHandles`** gives each user of the handle cache the code's
steps: count, compare (locked), enumerate one by one, replace (locked). **`NvmlProcesses`**
asks one list after the other while processes move. **`Enricher`** splits a lookup
into its reads of `/proc`; a process is known by its start time. **`HostCpu`** copies and
replaces the baseline word by word, since nothing locks it. **`GpuRules`** goes from
the driver's answers, some failed, to the sample, the hints and the label.
**`UnixSocketApi`** has lives of the agent, one socket path and clients that keep their
connection; `Start` and `Shutdown` are taken apart where another life or a kill can come between.

**`Collectors`** puts the last seven together: it chooses, at the start, which one runs
while the others rest. They share no variable in the code, so exploring their product
would only multiply states. The `MC_` modules give TLC its values. Operators marked *faulty* are
plausible bugs; no specification uses them.

## 3. What the runs show

| Run | Instance | Properties, and what they say |
|---|---|---|
| `health` | 2 callers, period 2, 4 refreshes | `AtMostOneRefresh`, `ErrorReportedOnce`, `ResultsMoveForward`, `ErrorNewerUnlessOverlapped`, `FailuresNeverWedge`: whatever the overlap, one refresh in flight, no error twice, no older result over a newer; without overlap an error is newer than the signals beside it; failures never stop refreshing |
| `sample` | 2 callers, parallel or sequential, 1 event, 1 refresh | `EventsInOnePlace`, `HealthErrorsAreShown`, `LostOnlyByFatalErrors`, and `LogStreamSpec`: sampling implements the stream of events, complete when sequential |
| `rules_fresh` | 0, 1 or 3 GPUs, few values of each signal | `PureRulesFresh`, `LinkOutliersFresh`, `BaselineIsCurrent`: replay is invisible except for CRC deltas |
| `rules_stale` | same | `CRCHintMeansGrowth` is violated, see section 6 |
| `hyst_filter` | a performance and a hardware hint | `TransientIsHeldBack`, `SustainedIsShown` |
| `hyst_xid` | one stability hint | `XidIsSurfaced` is violated, see section 6 |
| `recorder_durable` | 4 snapshots, fsync every 2nd, 1 restart | `InOrderOnce`, `AckedIsRecorded`, `HintsHaveSnapshots`, `PowerLossIsBounded` |
| `recorder_crash` | 3 snapshots, fsync every time, 1 restart | `CrashLossIsBounded` is violated, see section 6 |
| `agent_loop` | 3 snapshots, fsync every 2nd, 1 restart, 1 client | `SeenIsRecorded`, `ExitOkIsDurable`, `StopsOnSignal` |
| `tui` | six kinds of session, up to 4 snapshots in any order, up to 10 inputs, 26 terminal sizes | `HistoryIsFaithful`, `CurrentHintsAreListed` (history), `ErrorTotalsAreExact` (CRC errors of the session), `TrendsAreExact` (charts and statistics), `TablesAreCurrent` (memoised lists), `HighlightVisible` (cursors), `ChartsFit` (drawn charts cut off the header at most), `RefreshResumes` (ticks) |
| `collectors` | one component at a time, bounds in `Collectors.cfg` | `TimedEventsOnce`, `MissedForAReason` (kernel log); `HandlesAreCurrent`, `ProcessesListedOnce`, `FailuresAccuseNoGPU` (NVML); `NamesAreOwn`, `CpuUseIsOwn` (processes); `SharesAreGrowth` (host); `AgentIsReachable`, `AnswersAreCurrent` (API); `BadgesMirrorHints` (displays) |
| `kmsg_once` | as in `collectors` | `EventsOnce` is violated, see section 6 |

Each component's `TypeOK`, where it has one, states the types of its state; the proofs use
those of `HealthCache` and `Hysteresis`, and have sharper ones (`Types`) of their own elsewhere. The deadlock check is off where the
system really may stop: a process that has ended and may not restart (recorder, agent, API),
a UI that was left, a source whose bounded inputs are used up.

**Bounds.** `MaxRefreshes` stops the clock, not a caller; four refreshes are a
success and a failure before and after one that overlaps another sample. Two callers
are as many as any property relates, and what is proved holds for any number. One
kernel event and two samples let one sample hold, drop and deliver it while the other
reads. With three GPUs the fleet median differs from the minimum and the maximum; with
one the rules take the branch without a fleet. CRC counters of 0 to 2 have growth by one
and by two, no change, and a reset. Four snapshots with an fsync at every second cross
the sync boundary twice, with a failure or a restart in between; one restart makes a
torn line meet a new record. Scores reach their maximum of 4.9.
In `tui`, a history of two with up to three hints at once makes entries be evicted, both inactive and
active; rings of two wrap and are asked for windows longer than they are; the layout
session has the sizes next to every threshold of the code (40, 44, 48, 52, 60 rows; 80 and 120
columns) and two at which the charts fill the terminal to its last row (42, 43), with up to nine GPUs, one more than the panel shows. In `collectors`, a ring of two
records is overrun by four; two users and three changes of the device list let a slow
enumeration replace a later one; CPU counters of 8 values wrap; an eviction factor of one
evicts at once; three lives are a killed agent, its successor and a second agent.

**Fairness.** `HealthCache`: a sample that entered `cachedHealth` leaves it (the mutex
is held for assignments only); `FailuresNeverWedge` assumes (`SamplingGoesOn`) that samples
keep coming (the loops), the clock runs and each refresh ends (`healthTimeout`, passed to the
driver calls between devices). `SamplePipeline`: calls of collectors end, and no
collector fails for ever; without this no event could be promised to anyone. `Agent`: the process is scheduled and its calls return; strong
fairness of `Selected` is Go's random choice among ready cases of `select`, which
a ticker that is ready every time cannot starve for ever. `TuiModel`: a tick that was
armed comes (`tea.Tick`); nothing is assumed of fetches or of the user.
The other components have safety properties only and no fairness.

## 4. What is proved

Every safety invariant and every safety action property that a passing run checks is a theorem,
and so is the refinement of `LogStream` without its fairness. The theorems hold
for any set of callers, users and clients, any caps, periods, signals, snapshots and sessions that satisfy
the named assumptions. Most invariants are not inductive as they stand; what follows says
what had to be added and why it is kept.

- **`HealthCacheProofs`.** `TypeCorrect`, `OneRefreshAtATime`, `ErrorsReportedOnce`,
  `PublishingMovesForward`, `ErrorsAreNewerUnlessOverlapped`. `AtMostOneRefresh` is inductive with
  types; the others are not: that a result only moves forward needs that a refresh in flight
  is the newest one started (`FlightIsNewest`), which is preserved because the flag
  keeps a second one from starting. The last theorem needs more (`Apart`): as long as no two
  samples have been in `cachedHealth` at once, a refresh in flight excludes
  a waiting error, because the sample that started the refresh took it; so an error
  found in the second section is newer than the cache read in the first.
- **`SamplePipelineProofs`.** `ImplementsHealthCache`: every step of a sample, parallel
  or sequential, is a step of `HealthCache` or leaves its variables alone. `EventsStayInOnePlace`
  and `OnlyFatalErrorsLose`: a sample holds no event before its log function has ended, which comes last in a
  sequential one (`HeldIsRead`). `HealthErrorsReachSnapshots`: errors are numbered from 1, and a sample
  that has taken one returns it, because it can no longer fail (`ErrorsAreTaken`). `ImplementsLogStream`: `Fates` describes what became of
  each event, then every step changes the fates as a step of `LogStream` or not at all.
- **`RecorderProofs`.** `TypeCorrect`, `LinesInOrder`, `AcknowledgedIsKept`,
  `HintsComeAfterSnapshots`, `PowerLossCosts`. The argument is about *streams*: what a file holds
  followed by what its writer holds. `Moves` shows once that every step leaves a stream alone, adds
  one record to it, or cuts it to one of its starts; the file is always such a start. Five
  invariants are carried over these moves: `Ordered` (pieces increase, the next snapshot is above
  them all), `Acks` (what was acknowledged is whole in the file), `Torn` (at most one line is broken for each restart), `Undamaged` (a hint
  stands behind its snapshot while no writer has failed) and `RiskBounded` (acknowledged and not
  synced: at most the writes since the last fsync that was due and those of the `missed` ones, by
  arithmetic on `writes % FsyncEvery`).
- **`AgentProofs`.** `ImplementsRecorder`: the agent takes only the recorder's own
  steps, so the recorder's invariants hold of it, kills and restarts included.
  `PublishedIsRecorded` then follows from `Acks` and the position of `run` (`Published`), and
  `ExitStatusIsTrue` from what the deferred `Close` has synced when it returned nil (`Ended`).
- **`RuleCacheProofs`.** `PureRulesAreFresh`, `LinkOutliersAreFresh`,
  `BaselineStaysCurrent`. The invariant (`CacheIsCurrent`) says that a cached
  entry belongs to the signals of the last snapshot and that the remembered hash is theirs.
  The lemma `HashCovers` turns an equal hash into
  equality of every field the rules read, `SameHints` and `SameLinks` that into
  equal hints. For the link rule it is the outlier part only that is equal; the
  delta is not, and that is the finding of `rules_stale`.
- **`HysteresisProofs`.** `TypeCorrect`, `OnlySuppresses`, `TransientsAreHeldBack`,
  `SustainedAreShown`. The strengthening bounds a score from both sides by the
  firings it has seen: at most those of one or two firings while the counters
  say so, at least that of as many consecutive ones. `TypeCorrect` has
  the bound on scores, from which no score can exceed the geometric series.
- **`CollectorsProofs`.** One invariant for each component, of the behaviours with its focus.
  `CurrentHandles`: each handle stood at its index in one of the driver's lists, and a user whose driver has stood still
  ends with as many as there are. `ListedOnce`: what `CollectProcesses` has found lies on the
  GPUs already asked. `EventsReportedOnce`, `MissedOnlyForAReason`: times in the ring do
  not fall (`KmsgOrdered`); the device's cursor (`KmsgDevice`), later the time of the last line
  (`KmsgDmesg`), divides what may have been reported from the rest. `OwnNames`, `OwnCpuUse`: a name belongs to its process or to one that came during a
  lookup (`EnricherNames`); between calls the baseline mirrors what the last call has shown, within
  a call the two buffers are those of this call and the one before (`EnricherBuffers`). `SharesOfGrowth`: what a call has read lies between the baseline and
  now (`HostMoments`), a call without overlap finds the baseline whole (`HostSolo`, `HostPrev`), and a difference
  modulo the width is exact because an interval is shorter than it (`Growth`). `ReachableAgent`, `CurrentAnswers`: while no two lives overlapped the path
  is that of the one alive; an answer was published after the request began, for kept
  connections too. `FailuresAccuseNone` reads off the rules; `LabelsAgree` compares two loops
  over the same names: the list of all reasons begins with the first one that
  matches (`ListsFirst`, kept by each turn of the loop).
- **`TuiProofs`.** `TypeCorrect`, `TablesCurrent`, `HighlightIsVisible`, `CurrentHintsListed`,
  `HistoryTellsTheTruth`, `ErrorTotals`, `ChartsKeepToTheScreen`, `Trends`. Only an answer
  changes what the UI knows; the lemma about merging (`MergeEffect`, with `CapKeeps` for the
  eviction) says which entries remain and what they say, and `Faithful` relates each
  entry to the answers applied since it was made. `TotalOf` does the same for the errors of a link, by the
  greatest counter read so far; `RingTells` for the rings, slot by slot; `Summarises` for the statistics of a
  window. `MemoCurrent` and `CursorsOnRows` are kept by every key and every answer;
  `EstimateSuffices` is arithmetic over the panels of `View`: the estimate misses the last line and no other.

**Loops.** The library's induction theorems cannot be used with the provers at hand, so a loop is a
recursive function over its turns and what it computes is shown by contradiction at the first
turn where it would fail (`LeastNumber`, `FirstFailure`, from well-foundedness of the
naturals): the eviction of the history (`Droppings`), the statistics of a window, the
naming of throttle reasons. No module has a RECURSIVE operator.

**Assumptions on constants.** `PeriodAssumption`, `MaxRefreshesAssumption`, `RecorderAssumption`, `AgentAssumption`, `NamesAssumption`:
types only. `ScoreAssumption`, `ThresholdAssumption`: see section 2. `CollectorsAssumption`: types,
and that no counter of the width of `uint64` runs through all its values between two calls or in the
life of a process. `TuiAssumption`: caps are positive (constants of the code), a session's
snapshots have the fields of `model.Snapshot` with finitely many hints and links, and its
inputs are keys and sizes that exist.

**Only model-checked.** Liveness: `FailuresNeverWedge`, the fairness part of
`LogStreamSpec`, `StopsOnSignal` and `RefreshResumes` are beyond the prover.

## 5. What is left out

*Not modelled.* The demo generator, which makes snapshots from the clock and fixed
tables and carries no state; plain records and constants; the evaluation and performance
harnesses, sequential programs that print tables; text, widths, colours, help and detail
pages; flag parsing; DCGM, a stub that returns `ErrNotImplemented` (which is an outcome in
`SamplePipeline`); load average, memory and I/O figures, which are read and passed through;
the health queries of `health_linux.go`, whose result is an input of `HealthCache` and `RuleCache`.

*Abstracted.* Measured values, other than those a rule, chart or property reads;
JSON encoding (a snapshot can always be encoded); failures of opening the record files; a
snapshot has at most one hint in `Recorder`; hash collisions; the width of health
counters (the code only compares them and subtracts the smaller from the larger);
regular expressions and time formats of the log parser. A write to a file fails after any part of
it; an fsync that fails leaves its data to the next one, which is kinder than
some file systems are.

*Races.* The maps of the evaluator and the filter have no lock. In the standalone UI overlapping
fetches race on them, and Go may abort the process for it; the modules take
evaluations one at a time, as the agent makes them. The host collector's baseline races as
well, but without a map: there the torn values are modelled (`HostCpu`). Whether a read of
`/dev/kmsg` waits in the Go runtime's poller rather than returning EAGAIN is not decided here:
`StopReading` covers both as soon as the call returns.

## 6. Findings

Claims of the repository that the code does not keep, each with a run that shows it:

- **A CRC hint is replayed** (`rules_stale`, `evaluator.go:69`). The link rule's
  comment says that unchanged signals give a delta of zero and no new hint; the
  evaluator does not run the rule then, it repeats the hint of the sample in which
  the counter grew, for as long as the signals stay the same: up to the next refresh at least, and
  beyond it if that one brings the same signals.
- **A single Xid event is never shown** (`hyst_xid`, `hysteresis.go:79`). It fires in
  one sample, scores 1.0 and does not bypass a threshold of 2.0.
- **A crash costs two snapshots** (`recorder_crash`, `recorder.go:73`). A line cut
  short by a kill is continued by the first record of the next process.
- **One kernel event is reported in every sample** (`kmsg_once`, `parse.go:24`). Lines of a
  `dmesg` that prints no ISO times pass the "newer than" filter for ever; a single such call among
  others repeats all the ring still holds.

What else modelling showed is written into the properties as a condition, with its
reason: a handle cache compared by count cannot see one device replaced by another, nor is it
refreshed "at most once per count change" with two callers (`HandlesAreCurrent`: `onlyLast`); a
command read while its PID changes hands stays wrong for that process's life, and one cached
before an exec stays (`NamesAreOwn`: `torn`); an older snapshot applied late, or a sample whose
link queries failed, counts CRC errors again (`ErrorTotalsAreExact`: `neverFalls`, `alwaysRead`);
a second agent takes the socket path and the shutdown of the first removes it
(`AgentIsReachable`: `overlapped`); the CPU- and I/O-bound rules fire on a failed utilisation query
(`FailuresAccuseNoGPU`); a decrease of iowait gives a huge share (`SharesAreGrowth`); with stacked
columns, more than eight GPUs or a tall host section the estimate of `viewCharts` is too low, and it always
leaves out one line: the view ends with the footer's newline and `syncEnd` (`tui.go:1640`, `:713`), which
Bubble Tea counts as a line, so with eight GPUs and full or empty panels the charts cost the header
(`ChartsFit`: one line of tolerance, none where a table is below its cap). That is against "so View() never
outgrows the terminal" (`tui.go:612`), and so are the sizes at which even a view without charts is too tall.
Two comments are loose: `hysteresis.go:16` asks for "roughly twice" where three firings in a row are needed
(`TransientIsHeldBack`; `eval-hysteresis` calls the delay intended), and `tui.go:1491` speaks of two rows for each
GPU where `minPerGPU` is one. The thermal outlier rule cannot fire with two GPUs: four times the median of two is twice
their sum, which neither reaches.

## 7. Plan

1. `RingBuffer` by itself: that `Push` and `LastNInto` implement the queue of the last values,
   which `TuiProofs` now shows inside `Trends`.
2. Action properties behind the invariants: an acknowledged record is only ever lost to
   a power loss, a published snapshot is never replaced by an older one.
3. Shorter proofs: the lemmas on numbers and sequences that `TuiProofs` and
   `CollectorsProofs` each state could be one module.
4. The hazards without a property (`PROJECT.json`): overlapping evaluations, sticky writer errors
   while sampling goes on, CRC sums over some of the links.
