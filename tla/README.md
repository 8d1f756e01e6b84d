# CASA in TLA+

CASA watches the processes of an OpenClaw agent with eBPF probes, folds their
events into *sessions* (one per CLI invocation), scores each session with a
rule file and writes logs and traces. This directory models the part of it
that decides: which event belongs to which session, what a session remembers,
what is scored, what is written, and how all of that ends. Paths below are
relative to `user/internal/` unless they start with `user/` or `ebpf/`.

## Inventory

| Component | State | Operations | Hard because |
|---|---|---|---|
| event path (`ebpf/probes/*.c`, `ebpf/loader.go`, `user/cmd/main.go`) | ring buffer, two bounded channels, three goroutines, main | probe, read, convert, send, close, join | back-pressure, shutdown in the middle of a send, channels closed by their senders |
| session tracker (`process/session.go`) | sessions, active id, next id | ObserveExecve, ObserveExit, ActiveSession, Expire | every operation sweeps, with event time or wall time; only one of the sweeps is followed by a close-out |
| process tracker, lineage, bootstrap, security store (`process/`) | pid -> (parent, depth, transparent), roots; pid -> security posture | Propagate, SetTransparent, Remove, BuildLineage, Ensure | pids are reused, forks make no event, parents die first |
| pending shells (`pipeline/shell.go`) | session -> pid -> parent | Add, Remove, RewriteParent, PromoteIfMeaningful, ClearSession | kept in two places, cleared on five paths and by the janitor |
| filters (`pipeline/filter.go`, `ignore.go`, `policy.go`) | filter policy | ShouldIngestIntoContext and its string tests | - |
| context manager (`context/`) | processes, recent events, derived flags, dirty marks, suppressed exits | Observe, ApplyEvent, ObserveIgnored, CloseSession, SnapshotSessionByID | trimming, pruning, incremental and rebuilt flags, close-out between two calls |
| history detectors (`context/history.go`) | none | seven detectors | one pass, few remembered values, timestamps out of order |
| decision engine (`decision/decision.go`) | session -> triggered rules, score | Evaluate, CloseSession, Reload | two locks; reload and close-out in between |
| rules engine (`rules/rule.go`) | configuration | Evaluate, Reload | swapped by SIGHUP |
| audit monitor (`audit/monitor.go`) | buffered snapshots, sticky error, closed flag, four logs | Record, RecordSessionSnapshot, periodic flush, Close | four goroutines, writes that fail half-way |
| trace manager (`telemetry/tracing.go`) | session -> open span | RecordAnalysis, CloseSession, Shutdown | spans reopened by late events |
| provider classifier (`provider/`) | endpoint set, known prefixes | ResolveConfig, ContainsConnect, refresh, ShouldIgnoreConfiguredConnect | names change or fail between the lookups of one pass; the verdict goes by a cached depth |
| configuration reload (`user/cmd/main.go`, setupReload) | signal channel, rules, heuristics, filters | SIGHUP, load, three swaps, stop | signals merge; an event reads the three parts while they are swapped |
| pipeline (`pipeline/pipeline.go`) | locals of one event | the loop of Run; the close-out callback | some ten calls per event, five per close-out, no common lock |
| formatting, diagnostics, `/proc` reader, evaluation scripts | - | - | pure I/O |

The event path feeds `pipeline.Run` through a channel. `Run` calls every other
component in turn, for one event at a time. The *janitor* goroutine of the
session tracker calls the close-out callback that `Run` gave it, which calls
trace manager, context manager, pending shells, audit monitor and decision
engine. The SIGHUP goroutine replaces rules, heuristics and filters, one after the
other. The flush goroutine of the audit monitor, the refresh of the provider
classifier and the main goroutine (shutdown) touch one component each. Components lock for the
length of one call, so *chains of calls* of two goroutines interleave freely.
`PROJECT.json` lists, line by line, the hazards this leads to.

What makes each part correct, in a sentence: the path delivers what it read,
once and in order; there is one session window at a time, it honours its grace
period and ends exactly once; only processes of OpenClaw's tree are tracked and
observed; a shell that is put aside is invisible; a session's views of itself
agree; what an event reads of the configuration does not go back in time; the
configured endpoints are those of one resolution; a rule counts once per account
and a score is the sum of what was reported; what the monitor accepted is on disk or buffered; every event is in
one span; and shutdown ends.

## Modules

| Module | Models | State and actions |
|---|---|---|
| `SessionTracker` | `process/session.go` | `sessions`, `activeSessionID`, `nextSessionID` as in the struct; one action per operation, each with its own sweep; `clock` and the lag and skew of event times are the environment. `endLog`, `handed` and `joinedClosing` record what was logged, what the janitor was handed, and which invocations were absorbed by a closing session. |
| `SessionLife` | what the tracker promises | one life per invocation: open, closing under a deadline fixed once, ended; no clocks, no sweeps |
| `SessionTrackerProofs` | | theorems and proofs about `SessionTracker` |
| `DecisionEngine` | `decision/decision.go`, `rules/rule.go` | `MatchRules` (copies the configuration, first lock) and `ScoreMatched` (second lock) are the two halves of Evaluate; `Reload` and `CloseSession` come between. Which enabled rules match is arbitrary: the features decide it, in CEL. |
| `Reload` | `setupReload` in `user/cmd/main.go`, `context/policy.go`, `pipeline/policy.go` | extends `DecisionEngine`: the signal channel of capacity one, the goroutine's load and three swaps, and what an event reads of each part, counted in swaps |
| `ReloadProofs` | | theorems and proofs about `DecisionEngine` and `Reload` |
| `Provider` | `provider/`, its set-up and refresh in `user/cmd/main.go` | a resolution asks for one name per step, between changes of the names; an answer is an error or a set of addresses, which may be empty: the code then installs nothing for the target and goes on. `held` remembers the answers that a pass could have got, `source` those of the pass in force. The ticker's channel holds one tick. |
| `ProviderProofs` | | theorem and proof about `Provider` |
| `AuditMonitor` | `audit/monitor.go` | one action per critical section. `fails` names the write the disk refuses; what was written before stays. A snapshot is the number of events folded in and whether `ClosedAt` is set. |
| `AuditMonitorProofs` | | theorems and proofs about `AuditMonitor` |
| `TraceManager` | `telemetry/tracing.go` | operations only (Pipeline runs them): the map of open spans, the spans that ended, what a span accumulates, and at which point each analysis came. A span accumulates its event count, the score of its last event, the gravest action and the emitted flags; the counts per type of event and `finalContext`, whose flags are `ContextManager`'s, are left out. |
| `EventDelivery` | what the analysis loop may assume of its input | a FIFO queue that may refuse or drop, never reorder or repeat |
| `EventPath` | probes, loader, converter, channels, main's shutdown | one action per step of each goroutine; implements `EventDelivery` |
| `EventPathProofs` | | theorems and proofs about `EventPath` |
| `ProcessTree` | the gates of `pipeline.Run`, tracker, pending shells, security store | `Rewrite`, `Promote`, `PendShell`, `ForgetShell`, `Ignore`, `Enrich` and `Observe` are the steps of the loop body. The machine is part of the model: live processes, their true ancestors, reuse of pids. An event's strings are reduced to what the gates tell apart (`Kinds`), a cached depth to whether it is zero, which is all that the connect classifier reads of it. |
| `ProcessTreeProofs` | | theorems and proofs about `ProcessTree` |
| `History` | `context/history.go` | each detector as a fold over the recent events that remembers what the code remembers |
| `RecentEvents` | what the detectors are meant to detect | any list of events whose times may be out of order by `MaxBack`, grown one by one, and definitions over all pairs and groups of its events |
| `ContextManager` | `context/manager.go` and what it calls | `Observe` and `ApplyEvent` are the two calls made for an accepted event, `IgnoreRoutineExec` and `IgnoreExit` the two effects of ObserveIgnored, `CloseSession` the janitor's call. Paths are a few values classified by the heuristics' constants; a path stands for its base name. |
| `ContextManagerProofs` | | theorems and proofs about `ContextManager`, `History` and `RecentEvents` |
| `Pipeline` | `pipeline.go`, the janitor, the flush goroutine, main's shutdown | composes `SessionTracker`, `DecisionEngine`, `AuditMonitor` and `TraceManager` (named instances) in the order of calls of each goroutine |
| `PipelineProofs` | | theorems and proofs about `Pipeline` |
| `MC*` | | values of constants and symmetry sets for TLC |

`Pipeline` reduces the context manager to [folded, closed] (`ContextManager` has
the rest), takes the verdict of the process-tree gate, of the filters and of
pending shells as arbitrary (`ProcessTree` has them), and leaves out
`pendingShells.ClearSession` (also there). In exchange `ProcessTree` reduces
sessions to the id that `ActiveSession` returns. The connect classifier is split
in the same way: `Provider` has its endpoints, `ProcessTree` the verdict on a
connect of a process. `Reload` runs `DecisionEngine`, so that the engine needs no
run of its own. `ContextManager` leaves out metadata that no flag reads, two of the chain flags that are computed like
the others (interpreters, container runtimes), the deleted-executable flag, the
count of dangerous capabilities (`DangerousCount`),
and `PruneTransparentShellWrapper`, which only tests call. It keeps the two notions of a
shell apart: `Shells` is the fixed list of isShellProcess, `ShellNames` the heuristics'
shell_names. Of the security snapshot of a process it keeps the posture (`Postures`),
from which the capability flags are set independently of each other.
`EventsOf` gives an event its number as its time, so that the times of a session's events
are in order; times out of order are in `RecentEvents`.

## Runs

Every passing run finishes in less than five minutes on two workers (`pipeline`
and `provider` take about two and a half, `context_manager` two, `process_tree` and
`reload` about one or less, the others seconds). Symmetry is used where pids
are interchangeable (`ProcessTree`, `ContextManager`), never with liveness.
Each component states a `TypeOK` (`ReloadTypeOK` for `Reload`); those of
`SessionTracker`, `AuditMonitor`, `ContextManager` and `Pipeline` are proved, and no run
is spent on any.

| Run | Shows | Bounds, and why they are enough |
|---|---|---|
| `session_tracker` | one window, every id accounted for, grace honoured, every session has one life (refinement of `SessionLife`), a closing session ends (with a known boot time). It says nothing of who consumes the end: `pipeline` and `pipeline_closed` do | two pids so that a leader and a stranger exit; three sessions so that one can start while the previous one was just swept; event times two ticks behind and one ahead of the wall clock, with a grace of one tick, so that every order of sweep times occurs |
| `reload` | score is the sum of reports, a rule name once per account, one configuration per result, engine and monitor agree on log files, an event reads the configuration forward, and a file for which SIGHUP was sent goes in force as a whole (rules, heuristics and filters; main reads the provider settings and the limit of recent events once, at start) | two rules share a name, one file changes weights and thresholds and sets no knob, one is invalid; two results per session are what a repeated rule needs; two edits and two signals, so that a signal arrives, and the file changes, while a reload is half way through |
| `provider` | the endpoints are those of one pass, and follow the names | two hosts, of which one is asked for twice in a pass, so that it may answer differently; two changes of a name, so that it fails and heals within a pass; an answer may be an error or hold no address; configurations with and without prefixes, refresh and urls |
| `audit_monitor` | nothing accepted is lost, Close leaves nothing buffered, logs nest, and once Close began no record is accepted and no log touched but by the last step of Close. "Latest" is what the monitor accepted last: a snapshot that overtook a newer one on its way is a matter of `pipeline` | two sessions, so that a flush fails between them; a failure at every write; two records per session, so that one follows a `session_closed` one |
| `event_path` | refinement of `EventDelivery`, what was read is handled or in flight and all of it handled at exit, closed in order, delivered, exits | six events exceed ring (2), channels (2 each) less than the total, so that every stage blocks; one undecodable sample |
| `process_tree` | tracked processes are in the tree and stay tracked until their exit, pending shells are hidden, the connects of a program that OpenClaw started are reported | three pids and three births: a pid is reused while child and grandchild of its first bearer live; one session and the gap before and after it. The VIEW leaves out `forebears` and `snapshots`, which no action reads and none of these properties |
| `process_tree_lineage` | divergence, see below | as above, without the view, for the property reads `forebears` |
| `history` | detectors equal their definitions over all pairs and groups, up to the disorder of the times | all sequences of four events; thresholds from two to four, so that a burst has room for two events between its first and its last; timestamps from one to six, one tick out of order; they start at one, for the zero time of an unreadable boot time compares with none |
| `context_manager` | recent events are the end of the session, processes those of kept events, no flag invented, flags cover processes; the heuristics are constant, so that flags across a SIGHUP are not covered | two processes, three events, one shell that is in both lists, three postures, limits of two events and one open, so that trimming, pruning and suppression all act on the same data |
| `context_manager_flags` | divergence, see below; `scored` holds the flags that the rules were given, whether or not one matched on them | limits of four, so that only the prune can lose a flag |
| `pipeline` | at most one late event, at most two spans and scores, a close-out (and at most one `session_closed` record) for every session handed to the janitor that accepted an event before it ended, last record lags at most one event, spans complete at exit and each shows the last score and the worst outcome of its own events, shutdown ends | two successive sessions, three events (start, exit, one in flight), one flush; one pid; writes succeed (their failure is in `audit_monitor`); log and alert threshold are equal, so that the action LOG does not occur here: a second threshold would take the run past its limit, and `WorstIsShown` is proved for every configuration |
| `pipeline_closed` | divergence, see below | one session, four events |

CHECK_DEADLOCK is off in `history` and `context_manager` runs only: their
machines are enumerations that stop at the bound on the number of events.

**Fairness.** `SessionTracker`: the wall clock advances and the 500 ms ticker
of the janitor keeps firing; no event is owed. `EventPath`: every goroutine is
scheduled; no event, signal or reader failure is owed. `Pipeline`: the pipeline
finishes the event it holds, the flush goroutine takes the closed `stopFlush`
channel, and after a signal main proceeds, because the loader is closed and the
events left are finitely many. Nothing is assumed of the janitor there, for
nobody waits for it. `Reload`: the reload goroutine is scheduled; no edit, signal
or event is owed. `Provider`: lookups return, the ticker fires, and the refresh
takes its ticks; names may change and fail at will, and no stop is owed.

**The janitor's sweep time.** `Expire` is called with the time of the tick, which
is at most one tick old; the model calls it with the wall clock of the sweep.

## What the documents say and the code does not do

Checked by a run and listed as findings:

* `EndedHasClosedRecord` (README.md:82). Three of the four sweeps discard the
  list of sessions they ended. When an event arrives between the end of the
  grace window and the janitor's tick, the session gets no `session_closed`
  record, and its span and score stay until shutdown.
* `LineageIsAncestry` (tracker.go:125). Removing a pid leaves it as the parent
  of its children; a process that reuses it becomes their ancestor.
* `FlagsExplainScore` (README.md:52). After a prune the flags are rebuilt from
  the processes that are left, while the score they earned stays.

The following are stated in the modules as well. No run is spent on them; adding
the name to the named configuration shows TLC's counterexample.

| Property | Where | Said by | What happens |
|---|---|---|---|
| `InvocationAfterExitOpensSession` | invariant, `SessionTracker.cfg` | session.go:219 | an invocation within the grace window is absorbed by the closing session, and may outlive it |
| `LeaderExitStartsGrace` | property, `SessionTracker.cfg` with `BootTimeKnown = FALSE` | session_test.go:177 | without a boot time all event times are zero, which also means "not closing": no session ever ends |
| `SnapshotIsOfTrackedProcess` | invariant, `ProcessTreeLineage.cfg` (no view) | security.go:9 | the posture of the first bearer of a pid is kept for all later ones |
| `PrunedIsPureShell` | invariant, `ContextManager.cfg` | manager.go:72 | what a pid did before it executed the shell goes with the shell |
| `OneSpanPerSession` | invariant, `Pipeline.cfg` | README.md:42 | an event in flight at the close-out opens a second span (never a third: `AtMostTwoAccounts`) |
| `RuleScoredOncePerSession` | invariant, `Pipeline.cfg` | decision_test.go:12 | the same event starts a second account of scores |
| `ForkOfChildIsReported` | invariant, `ProcessTree.cfg` | provider_test.go:83 | what a pending shell forks, and executes nothing, has the shell's parent; its connect is ignored as OpenClaw's own |
| `StartupFailureHeals` | property, `Provider.cfg` | REQUIREMENTS.md:43 | one name that fails at start leaves no classifier and no refresh, and no prefix is matched (main.go:264) |

`EventOfOneFile` (invariant, `Reload.cfg`) contradicts no document, and shows how far
`EventReadsForward` goes: an event in flight during a reload is judged by two files.

## Proofs

Each theorem holds for every value of the constants that the named assumptions of
its module allow. The proof modules follow one pattern: an inductive invariant
`IInv`, whose conjuncts are named for what they are about, one lemma per
operation that keeps it, and theorems that follow from it.

| Module | Theorem | Property |
|---|---|---|
| `SessionTrackerProofs` | `TypeCorrect` | `TypeOK` |
| | `SingleWindowHolds` | `SingleWindow` |
| | `SessionsAccounted` | `SessionsAccountedFor` |
| | `GraceIsHonoured` | `GraceHonoured` |
| | `TrackerImplementsLife` | `ImplementsSessionLife`, a refinement |
| | `EndsAreLoggedOnce`, `ClosingStaysFinal` | `EndLoggedOnce`, `ClosingIsFinal` (proved, not run) |
| `EventPathProofs` | `ReadIsHandled` | `ReadIsHandledOrInFlight` |
| | `ChannelsCloseInOrder` | `ClosedInOrder` |
| | `PathImplementsDelivery` | `ImplementsDelivery`, a refinement |
| `AuditMonitorProofs` | `TypeCorrect` | `TypeOK` |
| | `NothingAcceptedIsLost` | `LatestIsLoggedOrBuffered` |
| | `CloseWritesAll` | `CloseLeavesNothingBehind` |
| | `LogsAreNested` | `LogsNest` |
| | `ShutdownIsLast` | `OnlyShutdownAfterClose` |
| `ReloadProofs` | `ReloadIsEngine` | `ReloadSpec => Spec` of `DecisionEngine` |
| | `RulesAreReportedOnce` | `RuleReportedOnce` |
| | `ResultsAreOfOneConfig` | `ResultOfOneConfig` |
| | `EventsReadForward` | `EventReadsForward` |
| | `ScoresAreSums` | `ReportedScoreIsSum` |
| | `ActionsAgree` | `ActionAgreesWithLogs` |
| `ProcessTreeProofs` | `TrackedAreInTree` | `TrackedIsInTree` |
| | `OnlyTreeObserved` | `OnlyTreeIsObserved` (proved, not run) |
| | `ChildConnectsAreReported` | `ChildConnectIsReported` |
| | `PendingShellsAreInvisible` | `PendingIsInvisible` |
| | `LiveStaysTracked` | `TrackedUntilExit` |
| `ProviderProofs` | `EndpointsAreOfOnePass` | `EndpointsOfOnePass` |
| `ContextManagerProofs` | `ViewsAgree` | `ProcessesAreThoseOfEvents` |
| | `FlagsCover` | `FlagsCoverProcesses` |
| | `RecentAreLatest` | `RecentIsEndOfHistory` |
| | `HistoryIsReal` | `HistoryHappened` |
| | `TypeCorrect` | `TypeOK` |
| | `ThenExecFound` | `ThenExecIsPair` |
| | `SensitiveFound` | `SensitivePairIsFound` |
| | `BurstsFound` | `BurstIsGroup` |
| `PipelineProofs` | `TypeCorrect` | `TypeOK` |
| | `OneLateEvent` | `AtMostOneLateEvent` |
| | `ClosedOut` | `HandedIsClosedOut` |
| | `TwoAccounts` | `AtMostTwoAccounts` |
| | `LastRecord` | `LastRecordLagsOneEvent` |
| | `NoSpanLost` | `TracesComplete` |
| | `WorstIsShown` | `SpanShowsItsWorst` |

**Session tracker.** `SingleWindow` is what makes the sweep tractable: at most the
active session can expire, so that a sweep either leaves map and pointer alone
or empties both. `SessionsAccountedFor` needs it (a session that is started must
not overwrite another) and `TypeOK` (ids are below `nextSessionID`).
`GraceHonoured` speaks of the wall clock, of which a sweep with an event time
knows nothing; it is not inductive. `EndTimes` says what each log line holds:
the window it closed was over at the time of the sweep, and that time was at
most the skew ahead of the wall clock. The invariant is

    IInv == TypeOK /\ SingleWindow /\ SessionsAccountedFor /\ EndTimes

`SweepLemma`, `EndLogLemma` and `SweepPreserves` treat the sweep that all
operations share, once. The action properties and the refinement of
`SessionLife` follow from what a step can do under `IInv`: leave all lives alone,
close the active session's, end it, or end it and start the next.

**Event path.** A step either moves one event across one border of the path
(handled, events, the converter's hand, rawEvents, the reader's hand), or opens
or closes something. `Path` is the concatenation of the five; `SampleToChannel`
to `ChannelToRun` say that it does not change when an event crosses a border, by
regrouping. `Closing` is `ClosedInOrder` together with "main exits after the
pipeline is done": from it and from the shape of the hands (`SeqsOK`) follows that
nothing is in flight when the pipeline is done, and all was handled at exit.

    IInv == SeqsOK /\ Closing /\ NothingLost

For the refinement the queue is what is in flight followed by the ring buffer.
An undecodable sample and the closing of the ring buffer take a run of neighbours
out of it; `CutOut` says what that leaves, in the terms of `Discard`.

**Audit monitor.** `LatestIsLoggedOrBuffered` is not inductive: it would allow a session
whose last record shows the latest snapshot while an older one is buffered, and
the next flush would write that one. `Buffered` excludes it (what is buffered is
always the latest, even after an error), `Logged` is what remains to be said of
the sessions that left the buffer, and `CloseInOrder` ties `closer` to `closed`.

    IInv == TypeOK /\ Buffered /\ Logged /\ CloseInOrder /\ LogsNest

`ShutdownIsLast` shows of every step taken while `closed` holds that it is a `FinalFlushOnly`
step: the operations of the pipeline and the janitor are refused, the flush goroutine
only stops, and what is left is the last step of Close.

**Engine and reload.** `ReloadIsEngine` shows that the reload goroutine, the event
and the janitor reach the engine's state by its operations only; what is proved
of the engine then holds beside them. `RuleReportedOnce` needs that every name
in a result is remembered by the account (`Remembered`), `ResultOfOneConfig` that an
evaluation between its two locks holds a whole configuration (`Held`). For
`EventReadsForward` the invariant relates the three swap counters to the place of
the reload goroutine, so that a counter read later is never behind.

That a score is a sum (`Accounted`, `Agreement`) needs what the engine's fold over
a set of rules computes, in whichever order it takes them. `SmallestSubset` gives
induction over the subsets of a finite set, as a smallest counterexample; from it
follow that the fold's recursion has one solution (`SumExists`, `SumAgrees`) and
that any element may be taken out first (`SumTakeOut`).

    EngineInv == Held /\ Remembered /\ RuleReportedOnce /\ Accounted /\ Agreement

**Process tree.** `IInv` says of the machine (`MachineInv`), the tracked processes
(`TreeInv`), their depths (`DepthInv`), the sessions and the pending shells
(`SessionInv`, `PendingInv`) what holds in the *middle* of an iteration of Run, with
the event's own process as the one exception to each rule: it may have exited
already, or have just executed something. The exception is gone when Run receives
the next event.

**Provider.** What a pass has found so far is what some answers, one for each
target asked, all held since it began; a finished pass makes it the property.

**Context manager.** Between Observe and ApplyEvent the flags lag behind one
process (`Fresh`), and no other; that pruning removes from the log exactly the
events of the pid whose process goes is `ViewInv`.

    IInv == Shape /\ ApplyingInv /\ ViewInv /\ CoverInv

On top of it, `LogInv` relates what a session remembers with the log of all it ever
accepted. The recent events are those from some place of the log on that are not
marked as pruned (`RecentOf`): the place is the start, or so far back that
`RecentEventLimit` events follow it. That is kept when an event is appended and the
oldest trimmed, and when a prune takes events out of the middle, and it implies that the
recent events are an end of what is left, and long enough. `StateInv` is what the
type invariant says beside that.

    LogInv == RecentInv /\ TimesInv /\ HistoryInv

`HistoryIsReal` rests on `HistoryOfPicked`: what a detector finds in some of the events
of a list, in their order (`Picks`), it finds in the whole list. The detectors are not
monotonic by their looks, for the last sensitive open replaces an earlier one; it
follows because each is equivalent to the existence of a pair or a group, the times in
the log being in order (`ContextManager` numbers the events; with times out of order the
equivalence holds up to the disorder only, and so would this).

**Detectors.** A fold has no operator theorem that the provers can use, so its
recursion is shown to have one solution (`FoldExists`, `FoldAgrees`), written as a
function of the number of events seen (`WritePass`, `ConnectPass`, `SensitivePass`,
`OnlyPass`); what it remembers after each event is then carried from 0 upwards by
`CountUp`, an induction over a set of numbers. `ThenExecFound` holds for any list.
`SensitiveFound` and `BurstsFound` hold up to `MaxBack`, which `RecordInv` bounds: the
later of the two events of a pair is compared with the last one of the other sort,
which is at most that much older. A burst that is found may be wider than the window by
*twice* `MaxBack`: the proof attempt with once failed, and TLC confirmed it with a
threshold of four, where two events in between are each off by one tick.

**Pipeline.** The components lock for one call each, so that no invariant of one of
them says what holds between two calls of a close-out. `Traced`, `Recorded` and
`Done` are the sessions whose close-out has come past the trace manager, past the
monitor, and to its end; the conjuncts say, for each component, what is true of a
session before and after its call. An id is handed out once, and ended ones never
become live again (`TrackerInv`), nor does a component hear of one that was not
handed out (`GivenInv`): at most the one event that Run holds is late (`LateInv`), and only it can open a second span or account
(`SpanInv`, `AccountInv`) or be missing from the last record (`RecordInv`,
`MonitorInv`, `LagInv`). The spans of a session are consecutive runs of its analysed
events (`TraceInv`), which gives both their counts and their outcome.
The scores come from some set that the invariant leaves open (`\E Scores : TraceInvOf(Scores)`):
a span's score is compared with that of its last event, and need not be a number for that.

    IInv == TrackerInv /\ LateInv /\ PlaceInv /\ GivenInv /\ MainInv /\ MatchInv
            /\ JanitorInv /\ RecordInv /\ SpanInv /\ AccountInv /\ MonitorInv
            /\ LagInv /\ TraceInv

Model-checked only:

* liveness (`ClosingSessionEnds`, `SignalledFileGoesInForce`, `EndpointsFollowNames`,
  `ReadLeadsToHandled`, `StopLeadsToExit`, `ShutdownCompletes`): fairness and ENABLED
  are outside the prover's reach.

## Plan

1. Core of the session's life: `SessionTracker`, `DecisionEngine`, `AuditMonitor`,
   `TraceManager`, composed by `Pipeline` - done.
2. What reaches a session: `EventDelivery`, `EventPath`, `ProcessTree` - done.
3. What a session remembers: `History`, `ContextManager` - done.
4. What comes from outside while it runs: `Reload`, `Provider`, the verdict on
   connects in `ProcessTree` - done.
5. What the tracker promises: `SessionLife`, and that it is kept - done.
6. Proofs about every component - done for the properties in the table above, which
   are all invariants and action properties that a passing run checks, and both
   refinements.
7. Left: loss of exit events in `ProcessTree`, as a fault of the path that feeds it.

## Not modelled

* String matching (CLI recognition, paths, addresses, shell arguments) and the
  parsing of urls and prefixes: kinds of events or constants stand for its
  verdicts.
* CEL compilation and evaluation: a library; which rules match is arbitrary.
* Formatting of records and spans, diagnostics, the `/proc` reader, the exporter,
  fsync errors.
* Loss of exit events: a full ring buffer drops them (`EventPath`), and the code
  has no second source; a session whose leader's exit is lost never closes, and a
  pid whose exit is lost stays tracked. `ProcessTree` assumes no loss.
* `PruneTransparentShellWrapper`, which only tests call.
* A wait with a lock held: a critical section is one action. That Close does not hold `m.mu` while
  it waits for the flush goroutine is read off the code; `ShutdownCompletes` would notice a flush
  goroutine that is not told to stop.
* Startup failures that end the process before anything runs.
* `evaluation/`: scripts for experiments.
