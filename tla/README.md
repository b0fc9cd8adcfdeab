# proctrace: specification, model checking and proofs

proctrace measures what a block of Python code does to its process: memory and
its peak, open descriptors, threads, children, allocations, the latency of
queues and pipes, and, on a signal, where every thread and task is. It is a
Python package (`src/proctrace/`) on top of a Rust extension (`src/src/`). This
directory holds TLA+ models of the parts in which threads, tasks, processes or
calls meet, the TLC runs that check them on small instances, and proofs of
properties that hold for every instance.

Contents

1. [The system](#the-system): components, state, interactions, what is hard
2. [Modules](#modules) and how they correspond to the code
3. [Runs](#runs): what each checks, its bounds, and why they are enough
4. [Fairness](#fairness)
5. [Proofs](#proofs)
6. [Disagreements with the documentation](#disagreements-with-the-documentation)
7. [What is not modelled](#what-is-not-modelled)
8. [What is left](#what-is-left)

## The system

| component | code | state | operations |
|---|---|---|---|
| background sampler | `src/src/sampler.rs` | stop flag, peak and its instant (atomics), sample buffer (mutex), join handle; in the worker: stride, tick count | `start`, `stop`, `drop`, `peak_rss`, `peak_at_ns`, `samples` |
| traced queue | `ipc/channels.py`, `src/src/ipc_probe.rs` | the wrapped queue, a deque of put times, ring of latencies, totals, peak depth | `put`, `put_nowait`, `get`, `get_nowait`, `record_latency_us`, `record_depth`, statistics |
| traced pipe, socket | `ipc/channels.py`, `ipc/reporting.py` | deque of write times; byte counters; registry of channels | `read`, `write`, `send`, `recv`, `report` |
| signal-triggered dumps | `src/src/signal.rs`, `diagnostics/signals.py`, `diagnostics/dump.py` | one slot per signal with the write end of a pipe, registry of handles, one watcher thread per handle, the process's descriptor table | `install_signal_handler`, `uninstall`, `uninstall_all_signal_handlers`, the C handler, `dump` |
| resource watcher | `telemetry/watcher.py`, `alloc.py` | readings from the entry, a sampler, a tracker; `tracemalloc`, one switch for the process | `__enter__`, `__exit__`, `AllocationTracker.start`, `stop` |
| limits | `testing/limits.py` | none | `check` |
| probe, watch, phase | `telemetry/decorators.py` | last result per task and per thread | decorated calls, `last_probe_result` |
| logger | `telemetry/logger.py` | buffered entries, sink | `log`, `close` |
| pytest plugin, baseline | `testing/pytest_plugin.py`, `testing/baseline.py` | violations on the item, recorded deltas, the baseline file | hooks of one session, with and without xdist |
| command line | `cli/` | temporary directory, child process | `run`, `dump`, `watch`, `plot`, `guide` |
| snapshots | `src/src/resources*` | none | `snapshot`, `snapshot_extended`, `list_open_fds` |
| timeline, plots, types | `timeline.py`, `telemetry/plot.py`, `core/` | none | pure functions |

How they meet:

- A watcher owns a sampler between `__enter__` and `__exit__`; the sampler's
  worker is an OS thread without the GIL, and reads `/proc/self` (opening
  descriptors for a moment) while the watcher may be listing descriptors.
- Watchers nest and overlap: the pytest plugin runs one around each test, tests
  and probes run others inside; `tracemalloc` is shared by all of them.
- `Limits.check` turns a watcher's delta into violations, for `assert_no_leaks`
  and for the plugin.
- A signal runs a C handler on some thread at any moment. It writes a byte to
  the pipe in the signal's slot; the watcher thread of the handle that owns the
  other end makes a dump. Pipes are descriptors, and numbers of closed ones are
  handed out again to whoever opens next.
- A traced queue calls the queue it wraps, the clock, its deque and the
  statistics one after the other without a lock around them.

What is hard, and what makes each part correct:

- *Sampler*: two relaxed stores publish the peak; stop races with park;
  decimation under the lock, stride outside of it; restarts. Correct when the
  peak is the first maximum of the session's readings, the series is sorted,
  bounded and of this session, one worker runs at most, and `stop` returns.
- *Traced queue*: put times are appended after the item is visible. Correct
  when a latency is never below the true one, is the true one unless a get has
  overtaken a put, and no item is lost to the traced program.
- *Signals*: descriptor reuse, installs that race, failures between steps, a
  join that gives up. Correct when no pipe end leaks, a watcher reads its own
  pipe only, each signal is answered, and a stopped watcher ends.
- *Watcher*: a step that raises half way, the shared switch, lists that are
  made while others open descriptors. Correct when the switch is given back and
  a verdict, of a leak or of none, is right.
- *Pipe*: a stream, whose reads need not match its writes, next to a deque with
  one time per write. Correct when, for reads of whole writes, no read raises
  and no latency is below the true one.
- *Dump*: a loop asked for its tasks that answers in time, late or never.
  If not, the watcher thread lists them itself, while the loop's thread goes on
  changing them. Correct when a dump lists its tasks once, as the loop gave them
  at one moment, or lacking none but those that ended meanwhile.
- *Peak and timeline of a watcher*: three clocks and three sources read one
  after the other. Correct when they agree with each other.
- *Probes*: calls that overlap at their awaits, one storage per task and one per
  thread. Correct when a task reads its own last result.
- *Logger*: two formats, calls after `close()`, a peer that goes away. Correct
  when an accepted entry comes out, once, in order.
- *Session*: every process reads the baseline at its own start and rewrites the
  whole file at its own end, from different data. Correct when no entry is lost
  or invented whoever dies when, the last file has the last results, and a test
  fails or passes by the baseline the session found.
- *Command line*: a child that exits between two polls, is a zombie between exit
  and wait, or nobody's; Ctrl-C between any two steps. Correct when the report
  is the child's, the temporary directory goes, and a summary made half way
  through a sample is right.

`PROJECT.json` lists every hazard at its line, with the properties that would
catch it going wrong.

## Modules

`PROJECT.json` maps each definition to the lines it stands for.

### Sampler, PeakRecorder

`Sampler` is `BackgroundSampler`: a controlling thread (`Start`, `Restart`,
`Stop`, `Drop`, each with its join as a step of its own) and workers numbered by
the `start()` that spawned them, so that a leftover worker would be a state of
the model. The worker's steps are its accesses to shared state:
`WhileHead`, park (`WokenByUnpark`, `ParkTimesOut`), `Recheck`, `Observe` or
`SnapshotFails`, the comparison with `StorePeakRss`, `StorePeakAt`, `Record`
(push, decimation and stride under the lock), and the epilogue after the stop
flag. A sample is its instant and its resident set; vms and descriptors are
carried along in the code and told apart by nothing. A failed snapshot is an
outcome of every reading. `seen` is a ghost: the readings of the session.

`PeakRecorder` is what the caller is promised about the peak: a session starts
from a baseline, value and instant rise together, and freeze at its end.
`RecordsPeak` says that `Sampler` implements it. Between the two stores the
refinement mapping shows the instant the worker is about to publish.

### TracedQueue

`StampPut`, `Enqueue` or `PutFull`, `AppendTime`, `ReadDepth`, and the
compare-and-swap loop of `record_depth` (`LoadPeak`, `CompareExchange`) for
producers; `Dequeue`, `StampGet`, `Check`, `Measure` for consumers. Items carry
the put time that is theirs, so that a recorded latency can be compared with
the true one. `Raises` is the get that fails after it has taken an item: a
negative latency for an unsigned argument, or `popleft` on an emptied deque.

### SignalHandlers

One signal. The state is the slot, the registry, the handles, the watcher
threads, the pipes, and a descriptor table in which the lowest free number is
given out, to pipes and to the rest of the program (`OpenForeign`,
`CloseForeign`). Install and uninstall are sequences of steps, one per access:
the registry's pop, `pipe()`, the exchange of the slot, the close of the old
write end, `sigaction()`, thread start, registration; and the test of
`_uninstalled`, its assignment, stop event, join, test of `read_fd`, close of the
number, mark of the handle, deregistration. `pipe()`, `sigaction()` and
the thread's start may fail.

No lock guards a handle. Two threads that call `uninstall()` of one may both find
it not uninstalled and both close its number, and a newer pipe or the program
may have been given it in between: the second close then takes the read end from
under another watcher, or the write end that the slot names. The ghost `twice`
notes that two threads are past the test before either assignment; what this
spares and what it does not is said under [Runs](#runs).

The C handler is `LoadSlot` then `WriteByte`, one
in flight at a time. The watcher waits in `select` with a timeout, reads,
and dumps. A dump is one step that may take longer than the 0.3 s for which
`uninstall()` joins; otherwise the join succeeds, which assumes that a
watcher not in a dump is scheduled within that time.

### Watcher, Limits

`Watcher` is any number of `ResourceWatcher`s. `Enter` and `Exit` are the head
of `__enter__` and `__exit__` (a snapshot and what follows it without another
thread's effect in between), the rest is one action per reading or call that
others can see: lists of descriptors and threads, start of the sampler,
`is_tracing()`, `start()`, `take_snapshot()`, `stop()` of `tracemalloc`.
`EnterFails`, `ExitFails` are the readings that raise; `TakeBefore` and
`TakeAfter` raise when tracing is off. The program opens and closes descriptors
and starts and ends threads at any moment. `Snapshot` is a sampler's descriptor
coming and going; `Collect` the end of a sampler whose watcher is garbage.
`Report` computes the delta as bags of paths and names, and applies
`Limits!Check` with limits of zero.

A list always shows the directory it is read from, once in either list, so
that this entry is left out. Python holds the GIL while it makes a list; on an
interpreter without one two lists could show each other, which is not modelled.

`Measurement` is the other half of `__exit__`: the peak, its time and the
timeline of a delta, made from the clock (`EnterTime`, `ExitTime`), the sampler
(`StartSampler`, `Observe`, `Stop`) and the last snapshot (`ReadAfter`), with
`Tick` between any two of them. The sampler is taken as what `PeakRecorder`
promises, with a series that holds some of its readings.

### Timeline

What `timeline.py` derives from columns: `MaxRss`, `PeakAt` (`peak_at_ms`, which
looks the time of the first highest reading up in another list).

### Session

The controller and its xdist workers, each a plugin: `Configure` loads the
baseline; `BeginCall`, `EndCall`, `MakeReport` are the hooks of one test, in the
order pytest calls them; `SessionFinish` writes the temporary file and `Replace`
puts it in place; `EndSession` sends a worker's results and `NodeDown` merges
them into the controller's. `CallRaises` is a call whose watcher raises and that
records nothing. `Interrupt` and `Crash` may come between any two. A baseline file
that exists and cannot be read raises in the plugin's constructor: no session
starts, so that files to start from are readable ones, torn ones included.
`CompareEntry` and `LimitCheck` are the comparisons with their noise floors, and
`Violations` chooses between them as the plugin does: an incompatible baseline
is not compared, a test without an entry is compared with a namesake's. The list
of results is kept as what its two readers take from it.

### Commands

`cmd_run` step by step (`MakeDir`, `Prepare`, `Spawn`, `PollRunning`,
`PollEnded`, `Read`, `Finish`, with the ways each can fail), the child it starts
(`Alloc`, `WriteAllocations`, `Exit`), `cmd_dump` (`Dump`), and `cmd_watch`
(`WatchRead`, the four appends of `WatchAppend`, `WatchEnds`). An exited child is
a zombie until it is waited for, or gone at once where SIGCHLD is ignored.

### Probes, Logger, TracedPipe, DumpTasks

- `Probes`: `Call`, `Proceed`, `Return`, `Raise` are a decorated call with its
  warm-up; `Set` and `Get` are `_ProbeResultStorage`; `EndTask` is the weak
  dictionary losing a task.
- `Logger`: `Log` and `Close` for a file or a socket, for lines or an array.
- `TracedPipe`: one writer, one reader, a stream of chunks. Reads return parts of
  a write, or several.
- `DumpTasks`: `do_dump` on the watcher thread (`Begin`, `Look`, `Ask`,
  `Answered` or `TimesOut`, `Fallback`, `Write`) and the loop's thread (`Collect`,
  `CollectEnds`, `ChangeTasks`, `TurnLoop`). Tasks are sets: those that live and
  those that have ended. `Fallback` chooses between the tasks of the loop it was
  given (`Copy` of the set, then `CheckDone` of one task after the other, until
  `Filtered`) and those of all loops (`CopyEvery`, which does not ask); either
  copy may fail (`CannotCopy`). The loop's thread runs between any two of these.
  `asyncio` is external: a copy of its set of tasks is taken to be that of one
  moment, since it raises, or is begun again, when the set changes meanwhile.
  `SignalHandlers` has the whole dump as one step.

### Profiled

The composition: `proctrace run` with its child, and in that child the program's
own use of proctrace. `uses` says which: nothing (the child then only changes its
memory, and `proctrace watch` runs beside it), a decorated function, a logger, a
traced pipe, a handler that dumps, or a watcher. The program takes steps only
while the child is alive, so that an exit or the signal of `proctrace dump` cuts
it off between any two of them; with a handler installed, that signal is the one
that starts a dump. The parts share nothing else, and a program that used two of
them would only be their product.

### MCSampler, MCTracedQueue, MCSignalHandlers, MCWatcher, MCSession, MCProfiled

Instances for TLC: sets of threads, paths, readings, files, callers.

### SamplerProofs, TracedQueueProofs, SignalHandlersProofs, WatcherProofs, SessionProofs, ProfiledProofs

Theorems, see [Proofs](#proofs).

### InductionProofs, LimitsProofs

What the theorems need of data of any size. `InductionProofs` has induction over
the naturals and over the subsets of a finite set, for a statement given as the
set of those it holds for, and least and greatest members. `LimitsProofs` shows
what `CountOf` and `Size` of `Limits` compute: that they are natural numbers,
grow with the bag, and are larger for one bag than for another only if some
member is.

Definitions marked "bug" are defective variants of the one below them. No
specification uses them: they exist so that each property can be shown to fail
when the code is wrong in that way.

## Runs

`CHECK_DEADLOCK FALSE` everywhere: bounded numbers of sessions, puts, signals
and watchers run out, and the program then really has nothing left to do.

| run | module | checks | bounds |
|---|---|---|---|
| `sampler_peak` | Sampler | `TypeOK`, `OneWorker`, `SamplesWellFormed`, `PeakCoversSamples`, `PeakIsFirstMaximum`, `RecordsPeak`, `JoinEnds` | capacity 3, two resident set sizes, two sessions, clock to 2, steps of 0 or 1 |
| `sampler_decimation` | Sampler | `GapBounded` | capacity 4, one session, steps of 1 or 2, clock to 18 |
| `sampler_final` | Sampler | `FinalSampleKept` fails | capacity 4 |
| `queue_latency` | TracedQueue | `TypeOK`, `LostOnlyIfReordered`, `NeverUnderestimates`, `ExactUnlessMissed`, `PeakDepthCovers` | two producers (symmetric), one consumer, queue of 2, ring of 3, 4 puts, 6 clock readings |
| `signals` | SignalHandlers | `RegisteredServes`, `ExitStopsWatchers`, `SignalAnswered`, `StopEndsWatcher` | one thread, 3 installs, 2 signals, 5 descriptors, 1 of the program |
| `signals_threads` | SignalHandlers | `TypeOK`, `WriteEndsAccounted`, `ReadEndsAccounted`, `WatcherReadsOwnPipe` | two threads, 2 installs, 1 signal, 5 descriptors, 1 of the program |
| `signals_stray` | SignalHandlers | `NoStrayByte` fails | one thread, 2 installs |
| `signals_exit` | SignalHandlers | `ExitStopsWatchers` fails | two threads, 2 installs |
| `watcher` | Watcher | `TypeOK`, `TracingRestored`, `NestedSnapshotsSucceed`, `LeakReported`, `NoFalseAlarm`, `ThreadsReported` | two watchers, both tracing, one sampling; two paths, two names, one of each allowed; counts to 2, 3 events |
| `watcher_cleanup` | Watcher | `CleansUp` fails | 1 event |
| `session` | Session | `TypeOK`, `EntriesKept`, `MergedAtEnd`, `VerdictJustified` | no xdist, or two workers (symmetric) and one replacement; two tests, one of them run again once; two deltas; three files to start from |
| `profiled` | Profiled | `TypeOK`, `ReportIsChilds`, `TempRemoved`, `SummaryRight`, `OwnResult`, `LoggedOnce`, `PipeTimes`, `DumpWhole`, `PeakConsistent` | memory 1 or 2; 3 samples of a watch; two tasks and two plain callers in two threads, 3 calls, one warm-up; 3 entries, 2 closes; pipe of 2 chunks, writes of 1 or 2, deque of 3 times, 4 writes, 3 reads; 2 dumps, two tasks of the loop (symmetric), each created and ended once at most; clock to 3, 3 readings |

Why these bounds:

- *Sampler.* Capacity 3 with a clock to 2 fills the buffer and decimates, by a
  push of the loop and by the final one. Two sizes give a rise and a tie, two
  sessions a restart over a running worker and a session after a drop's join.
  A standing clock (step 0) is the case in which a sample is not pushed. With
  capacity 4 and a clock to 18 there are three decimations, so that strides of
  2, 4 and 8 each follow a decimation made at the stride before. `FinalSampleKept` fails for
  an even capacity, as in the third run, and holds for an odd one.
- *TracedQueue.* Four puts overflow a deque of 3 that holds stale times. The
  wrapped queue plus one item in the consumer's hands fits the ring; this is a
  condition of `NeverUnderestimates`, not only a bound: a queue that holds more
  items than `ring_capacity`, as an unbounded one can, drops the times of items
  still waiting and then under-reports. Producers are interchangeable and no
  property names one, so that symmetry is sound (there is no liveness here).
  The ghosts `overtaken` and `reordered` say whether items were enqueued, or put
  times appended, in another order than they were stamped, and `NeverUnderestimates` and `ExactUnlessMissed` say what holds otherwise.
  There is one consumer: with two, any get may lose its item to a race of both
  for one put time, and no property of the code is left to state.
- *SignalHandlers.* Two pipes at a time and one descriptor of the program fill
  five numbers, so that `pipe()` fails for want of descriptors and closed numbers
  are reused. Three installs are two replacements; a second signal arrives
  while the first is being dumped.
- *Watcher.* Three events are the fewest in which a close hides a leak: one
  descriptor opened before the entry and closed inside, another opened inside.
  Two watchers are a nesting or a crossing. One with a sampler is enough to see
  its own sampler's descriptors, and another's.
- *Session.* Two workers finish, rewrite and are merged in either order; a third
  starts after another's crash, when the file may already have been rewritten.
  The larger delta regresses in descriptors and memory and is beyond the marker
  of one test; its time is within the noise floor. The files are one that lacks
  a test, one made on another platform and one that is torn. The order of the two
  first workers is told apart by nothing, so that symmetry is sound.
- *Profiled.* Two memory sizes give a peak that is not the last reading. Three
  samples put the highest between two others, and a Ctrl-C in the third leaves
  one column ahead of another. Two tasks of one loop and a caller of another thread
  are the overlaps of a storage by task and by thread; one warm-up puts an await
  ahead of the measured call. Two closes and three entries are a close between
  entries and one after. Writes of two chunks in a pipe of two block half way, and
  a read takes a part; with a deque of 3 times, the fourth write is the one that can
  drop a time, that of a write still being read. Of two dumps the first may be
  answered during the second; two tasks are the fewest of which one ends before it
  is asked whether it is done and another after, so that the list is that of no
  moment. The memory of a child that uses proctrace stays the same (`Steady`), for
  no part of it looks at the memory and a plain child has all the changes. No
  property names a task of the loop, so that symmetry is sound.

The passing runs take up to two minutes each; the largest, `profiled`, has 6.9
million distinct states, `session` 2.8 million, `signals_threads` 1.8 million and
`signals` 0.4 million.

What the properties leave out, because the code does not provide it:
`NoFalseAlarm` excepts watchers that run while another watcher has a sampler,
whose directory descriptor can show up in the second list and be reported as a
leak. `ThreadsReported` excepts blocks in which a thread of an earlier name has
ended, since allowed names are subtracted from the net difference, and such an
end hides a thread nobody allowed; descriptors are safe from that because of
the maximum in `fd_delta`. `NestedSnapshotsSucceed` excepts watchers that cross:
there the tracker that found `tracemalloc` off stops it under the other, whose
final snapshot raises out of `__exit__`. `TracingRestored` still holds then.
`RegisteredServes` and `ExitStopsWatchers` are for one thread.
`WatcherReadsOwnPipe` and what `TypeOK` says of the slot hold until two threads
are past the test of one handle's `_uninstalled` before either sets it: their two
closes of one number can take a descriptor from a newer pipe, and the model has
these steps. `WriteEndsAccounted` and `ReadEndsAccounted` except nothing: such a
close leaks no end of a pipe. `DumpWhole` does not promise that a list the dump
took itself is that of one moment.
`VerdictJustified` excepts tests without an entry that are compared with a
namesake's. `TempRemoved` excepts a run that fails between `mkdtemp` and the
`try` (`PrepareFails`), whose directory stays, and nothing else: a spawn that fails
removes it. `ReportIsChilds` excepts a run under an ignored
SIGCHLD, which reports 0 whatever the child returned. `OwnResult` says nothing
of a task that has no result yet: it reads its thread's last one, which may be
another task's. `LoggedOnce` excepts entries logged after `close()`, which are
dropped without a word, and the order of a socket's output when its logger is
closed twice, which writes the array twice. `PipeTimes` holds until a read
returns a part of a write; from then on times and reads are out of step. Its
first half also excepts runs in which the full deque has dropped a time, and its
second says what rules that out: a `max_tracked` above what the pipe holds is
enough while every read returns one write and comes after its time is appended.
It is not enough otherwise, since a read of several writes takes one time and
leaves the others behind.

## Fairness

- *Sampler*: weak fairness of each worker, without the timeout of its park, and
  of the returns from a join. The operating system schedules a runnable thread,
  and `join` returns when the thread has ended. Nothing is assumed about the
  sampling interval, which has no upper bound: `JoinEnds` must hold by the
  unpark alone.
- *SignalHandlers*: weak fairness of each watcher thread. `select` has a
  timeout, and a dump waits for the event loop half a second at most. Nothing is
  assumed about API threads, signals or the program.
- The other modules state no liveness property, and assume no fairness: a
  program may stop anywhere, and a child, a peer or a loop owes nobody an answer.

## Proofs

Checked by TLAPS, for every value of the constants that satisfies the named
assumptions of the module.

| theorem | states | assumes |
|---|---|---|
| `SamplerProofs!TypeCorrect` | `Spec => []TypeOK` | capacity at least 2 (`cap.max(2)`), positive resident sets (`RssAssumption`), natural bounds |
| `SamplerProofs!SingleWorker` | `Spec => []OneWorker` | the same |
| `SamplerProofs!SeriesWellFormed` | `Spec => []SamplesWellFormed` | the same |
| `SamplerProofs!PeakCovers` | `Spec => []PeakCoversSamples` | the same |
| `SamplerProofs!PeakExact` | `Spec => []PeakIsFirstMaximum` | the same |
| `SamplerProofs!SamplerRecordsPeak` | `Spec => RecordsPeak` | the same |
| `SamplerProofs!GapsBounded` | `Spec => []GapBounded` | the same |
| `SamplerProofs!FinalSampleStays` | `Spec => FinalSampleKept` | the same, and an odd capacity |
| `TracedQueueProofs!QueueType` | `Spec => []TypeOK` | positive sizes, natural bounds |
| `TracedQueueProofs!DepthsCovered` | `Spec => []PeakDepthCovers` | the same |
| `TracedQueueProofs!NothingLost` | `Spec => []LostOnlyIfReordered` | one consumer, a queue smaller than the ring |
| `TracedQueueProofs!LatencyBounded` | `Spec => []NeverUnderestimates` | the same |
| `TracedQueueProofs!LatencyExact` | `Spec => []ExactUnlessMissed` | the same |
| `SignalHandlersProofs!HandlersType` | `Spec => []TypeOK` | natural bounds |
| `SignalHandlersProofs!NoWriteEndLeaks` | `Spec => []WriteEndsAccounted` | the same |
| `SignalHandlersProofs!NoReadEndLeaks` | `Spec => []ReadEndsAccounted` | the same |
| `SignalHandlersProofs!ReadsOwnPipe` | `Spec => []WatcherReadsOwnPipe` | the same |
| `SignalHandlersProofs!RegisteredIsServed` | `Spec => []RegisteredServes` | the same, and one thread that installs and uninstalls |
| `SignalHandlersProofs!ExitStopsAll` | `Spec => []ExitStopsWatchers` | the same |
| `WatcherProofs!SwitchedBack` | `Spec => []TracingRestored` | none |
| `WatcherProofs!WatcherType` | `Spec => []TypeOK` | finitely many watchers, paths and names (`FiniteAssumption`), natural bounds |
| `WatcherProofs!NestedSucceed` | `Spec => []NestedSnapshotsSucceed` | the same |
| `WatcherProofs!LeaksReported` | `Spec => []LeakReported` | the same |
| `WatcherProofs!AlarmsTrue` | `Spec => []NoFalseAlarm` | the same |
| `WatcherProofs!NewThreadsReported` | `Spec => []ThreadsReported` | the same |
| `SessionProofs!SessionType` | `Spec => []TypeOK` | the types of the constants (`SessionAssumption`) |
| `SessionProofs!BaselineEntriesKept` | `Spec => []EntriesKept` | the same |
| `SessionProofs!GateJustified` | `Spec => []VerdictJustified` | the same |
| `SessionProofs!ResultsMerged` | `Spec => []MergedAtEnd` | the same |
| `ProfiledProofs!ProbeReadsOwn` | `Spec => []OwnResult` | natural bounds (`ProfiledAssumption`) |
| `ProfiledProofs!RunRemovesTemp` | `Spec => []TempRemoved` | positive resident sets, natural bounds (`CommandsAssumption`) |
| `ProfiledProofs!RunReports` | `Spec => []ReportIsChilds` | the same |
| `ProfiledProofs!CommandsType` | `Spec => []TypeOK` | the same |
| `ProfiledProofs!WatchSummary` | `Spec => []SummaryRight` | the same |
| `ProfiledProofs!LoggerWritesOnce` | `Spec => []LoggedOnce` | none |
| `ProfiledProofs!DumpsWhole` | `Spec => []DumpWhole` | natural bounds (`ProfiledAssumption`) |
| `ProfiledProofs!PipeMeasured` | `Spec => []PipeTimes` | natural sizes of pipe and deque (`ProfiledAssumption`) |
| `ProfiledProofs!MeasurementConsistent` | `Spec => []PeakConsistent` | positive resident sets (`ProfiledAssumption`) |

*Sampler.* The properties are not inductive alone. The invariant adds to type
correctness: one worker at most, and the readings in a worker's hands belong
to `seen`; and for the peak, a case for each place in the worker. Between the
comparison and the store the worker's reading is above the peak; between the
two stores the peak covers everything but the instant is still that of the
peak before; elsewhere some reading of the session witnesses value and instant.
The clock makes the current reading the latest one, which gives "first". Lemmas
about `Decimate` say that it yields a shorter, still increasing sequence of
elements it was given. The refinement follows from the same invariant: the two
stores map to one `Raise` and a stutter.

The gaps need the time that has passed since the newest sample (`StrideInv`). The
ticks stay below the stride; that time is at most one step for each tick, and half
a stride more right after a decimation, which may have dropped the newest sample
(`LagInv`, where the length of the buffer tells that a decimation was the last
push). So a push makes a gap of one and a half strides at most, and a decimation
joins two gaps while it doubles the stride (`GapInv`). With a capacity of 2 every
push decimates down to the first sample and there is no gap. For an odd capacity
a decimation keeps the last of the buffer, so that the final push ends the series.

*Watcher.* The invariant is that while `tracemalloc` is on, some watcher answers
for it: one that found it off and has not come to its `stop()`, or one that
raised on the way there. `start()` makes a watcher answerable when it switches
on; `stop()` of a watcher that is not leaves the switch alone. Overlaps need no
case of their own, which is why that theorem has no condition about nesting.

For nested watchers (`NestInv`): one at most is on its way in or out, and all the
others that are inside are around it and in their blocks; and a watcher that found
`tracemalloc` off has no tracing watcher around it, so that its `stop()` takes the
switch from nobody. For the verdicts (`ListInv`):
each list holds the program's descriptors as they were, and beside them only
directories of other watchers' samplers, its own having been joined; and a report
is what `Limits!Check` makes of the two lists. What is left is arithmetic on sums
over bags of any size: a net difference above zero needs a member that grew, a
member that grew shows in the leaks, and the leaks of allowed paths are at most
those of all paths.

*Traced queue.* For the peak: a producer at the exchange holds a peak it found
below its depth (`Rising`), so that an exchange that succeeds raises the peak and
loses no depth. For the times, as long as none was appended out of order: there
are a put time for each item (`stamp`) and a number of times already appended
(`appended`) such that the deque holds the stamps of consecutive items, ending
with `appended`, and beginning no later than with the time the next get needs
(`Matched`). A get that finds none falls behind and leaves a stale time, hence
the inequality; an overflow drops the oldest time, and the queue being smaller
than the ring makes that a stale one. What has been recorded follows (`Recorded`).
The two numbers are in no variable, so the invariant says that they exist, and
each step shows those after it from those before.

*Signal handlers.* Numbers are reused, so everything is about who may close
which number and when. `PipeInv`: a pipe that is not returned yet is in the hands
of one thread. `WriteInv`: the slot, a thread about to close an old number and a
thread with a new pipe hold different write ends; the atomic swap of the slot is
what keeps them different, and so `closeOld` closes a write end and never
a number that was handed out again. `OneInv`: a handle is between the test of
`_uninstalled` and the mark in the hands of one thread at most. `ReadInv`: until
that thread has closed it, its read end is open at the number the handle remembers,
so that the number it closes is the right one. These three hold as long as no two
threads were past the test at once (`~twice`), which never becomes true again once
it is false. That no end leaks needs none of them: a close of a wrong number only
releases one more, and a pipe's ends are at its own two numbers or not open
(`NumberInv`), the read end being closed before its handle is marked.
`WatchInv`: a closed handle was asked to stop before, and its watcher is at the
head of its loop, in a dump, or gone, from where it does not come to a read
again. That the kernel has a lowest unused number to give is an instance of well-founded
induction on the naturals.

With one thread that installs and uninstalls there is more to say (`LoneInv`).
`CallInv`: where the thread is in its call tells what the registry holds, and that
what it takes out is on its way to be stopped. `SlotInv`: from the swap of the slot
to the registration the slot names the pipe of the handle being installed. `RunInv`:
a watcher nobody has asked to stop is the one the slot reaches, has a byte to read
whenever it is about to read, and is registered, about to be, or about to be asked
to stop; its pipe has a writer, so that it does not end. With two threads `RunInv`
breaks: one may overwrite the registration of the other's handle.

*Session.* Five invariants beside the types. `OwnInv`: a test belongs to the one
process that began it, and results for it are that process's, or the
controller's after a merge. `KeptInv`: the file, every temporary file and all
that was loaded has for each test the first file's entry or a measured one; it
stays so because results are never withdrawn. `GateInv`: for a test nobody has
begun, the file, the temporary files and everything loaded still have the first
file's entry, and so does what its runner loaded; this is why a replacement worker
that loads a rewritten file compares with the right entry. `StashInv`: violations
on an item come from a call of it, and those of its last call are there before
its report. `MergeInv`: the controller saves after the last merge, with what it
merged, and nobody writes the file after it.

*Profiled.* A step of the whole is a step of each part or leaves it alone
(`Parts`), so each part has an invariant of its own. `ProbeInv`: what is stored
under a task or a thread was computed by a caller of that thread, and a task that
got a result has its last one stored. `RunInv`: each place of the command allows
certain states of the child, which is reaped before the directory goes; the peak
is the highest of the readings. `OutInv`, with the types of the logger: an array is
out at the first close, a line at once, and what is out is older than what is
not. `DumpInv`: the loop has each dump's callback queued, under way or done, and
once only; a late answer is stored under its own dump's number; so what the dump
under way is answered was listed since it began. What it takes itself is compared
with the moments of the dump (`MomentsInv`: what lives now is one): the list being
filtered is within one of them but for tasks that have ended (`Within`), and a task
that has ended stays so. `WatchInv`: the
place in the watch's loop tells how long each of its four lists is, and their
members are those of the readings. `MeasureInv`: the sampler's peak is the first of
the highest readings of the block, and a series shorter than two ends with the
latest reading. `PipeInv`: what is in the pipe and in the deque is in the order of
the writes (`OrderInv`); a read of whole writes leaves only later ones (`ReaderInv`);
the time of a write that is unread or being read is in the deque or about to be
appended (`KeptInv`); and while reads are of single writes the deque holds no other
time (`ExactInv`). Then there are no more times than writes that are unread or being
read, of which the pipe holds `Capacity` at most and the reader one, and a deque with
room for these never overflows (a pigeonhole).

*Induction.* The library's induction theorems take an operator, which the provers
cannot instantiate. `InductionProofs` states induction with a set in the operator's
place: if the set lacked a natural it would lack a least one. That is enough for
the sums of `CountOf`, which is a fold, to be shown to exist and to be unique on the
subsets of a finite bag.

Every invariant and the refinement that a passing run checks is thus proved.
Only model-checked is liveness, out of reach of the proof system: `JoinEnds`,
`SignalAnswered`, `StopEndsWatcher`. `FinalSampleKept` for even capacities,
`ExitStopsWatchers` for two threads, `NoStrayByte` and `CleansUp` do not hold, and
their runs show how they fail.

## Disagreements with the documentation

Each has a run that expects the violation.

- `sampler_final`: a final sample that fills a buffer of even capacity, as the
  default is, is dropped by the decimation it triggers; the comment at
  `src/src/sampler.rs:144` says it is captured.
- `signals_stray`: a C handler that has loaded the slot and is overtaken by an
  install writes to a reused number; `CHANGELOG.md:27` says this is resolved.
- `signals_exit`: after two concurrent installs the exit hook misses a serving
  watcher, which it says it terminates.
- `watcher_cleanup`: an `__exit__` whose first snapshot raises leaves its
  sampler and its tracker on, which its docstring says it cleans up.

Met while modelling, and stated by the exceptions above rather than by a run:
two producers whose put times swap places make `get()` raise with an item in its
hands (`LostOnlyIfReordered`), and `guidedoc.md` calls the toolkit
non-invasive; `last_probe_result()` of a task without one is another task's
(`OwnResult`); `close()` of a logger is not idempotent for a socket
(`LoggedOnce`).

## What is not modelled

- Readings themselves: parsing of `/proc` and the macOS interfaces. Modules take
  the outcome, a reading or an error, as an input.
- Two consumers of a `TracedQueue`; two writers or readers of a `TracedPipe`;
  `TracedSocket`, which times each call on its own and adds to counters.
- `log()` of a logger by several threads at once. `CHANGELOG.md:41` speaks of
  interleaved writes as resolved, yet `logger.py:69-72` holds no lock: whether lines
  mix is up to `sendall` of the socket and to the buffered stream.
- The text and stream of a dump, of a log entry, of a report; plots; `guide`;
  argument parsing; parsing of tolerances and markers.
- Averages and percentiles, slope and R2, `is_growing`, conversions of `core/`: functions of
  numbers or of immutable records.
- In the watcher: CPU, I/O, sockets, children, the object census, the arithmetic
  of the allocation report, and `on_exit`, which runs last and changes nothing.
- Threads of the free-threaded interpreter in the sampler's controller (a second
  caller gets a borrow error) and in the watcher's lists.
- Several signals at once: slots and registry entries of different signals are
  independent, except for the descriptor table.

## What is left

- Abstract specifications: a dump service (a signal, later a dump) for
  `SignalHandlers` with `DumpTasks`; a map that each update changes at its own
  keys for the baseline file, of which `EntriesKept` is the safety part.
