# A verification project for blocksnoop

blocksnoop watches the event loop of a Python process from outside. eBPF probes
on the epoll system calls time every callback, Austin samples Python stacks, a
correlator joins the two, a reporter writes records to sinks, and a command line
runs all of it as one session that a signal, a failing component or the exit of
a launched child may end. This directory holds TLA+ models of the parts whose
correctness depends on order (threads, signals, a child process, a kernel
buffer), TLC configurations that check them on small instances, and TLAPS proofs
of the main safety properties for all values of the constants.

Line numbers in `PROJECT.json` refer to the sources in `src/`.

## 1. Inventory

| Component | State | Operations | Talks to | What is hard |
|---|---|---|---|---|
| BPF programs, `bpf/core_blockdetect.bpf.c` | `config`, hash `callback_start`, perf buffer | `on_epoll_exit`, `on_epoll_enter` at the system calls of *every* task | kernel, loader | filter by namespace, attach order, overflow |
| Native loader, `native/blocksnoop_ebpf.c` | links, perf buffer, `stopping` | load, attach one probe at a time, `ready`, poll, `lost`, `fatal`, cleanup | BPF, pipe to Python | non-atomic attach, SIGTERM, loss accounting |
| Core detector, `core_backend.py` | process, reader thread, `_ready`, `_stop_requested`, two error slots, loss counts | `start`, `stop`, `check_health`, `_read_messages` | sidecar, session, correlator | unsynchronised flags, timeouts, reuse |
| BCC detector, `detector.py` | BPF object, polling thread, stop event, error, losses | the same protocol | kernel, session, correlator | fields shared without a lock, a signal on top of `start`, a join without timeout |
| Stack ring buffer, `profiler.py` | slots, head, count, overflow count | `push`, three searches | sampler thread, reader thread | rotation, bisect on a snapshot |
| Austin sampler, `profiler.py` | subprocess, thread, namespace wrapper, health timer | `start`, `stop`, `on_sample`, `_check_health` | ring buffer, session | process group, failing half-way, a script read after `start` has returned |
| Target identity, `core_backend.py`, `detector.py`, `profiler.py`, `diagnostics.py` | none; files under `/proc` | four resolutions of PID and TID | kernel, sidecar, Austin | several reads of a target that may exit, numbers that are reused, fallbacks |
| Correlator, `correlator.py` | none of its own | `on_event` | ring buffer, reporter | search window against delivery delay |
| Reporter and sinks, `reporter.py`, `sinks.py` | counters, signatures, sink files | `start`, `report`, `summary`, `close` | correlator, session | one sink failing between others |
| Statistics, `stats.py` | sorted durations, timer | `on_event`, `_tick`, `stop` | detector, session | timer against stop, a shared terminal |
| Session, `cli.py` | `cleaned_up`, handlers, child process | `main`, `_run_loop`, `_cleanup`, `_shutdown`, `_stop_child` | everything | signals at any point, also inside the cleanup |
| Diagnostics and selection, `diagnostics.py`, `backends.py` | none | read the environment, report; validate, create | command line | the same requirements written in several places |

What makes each of them correct:

* collector: from the last attach on, the reported gaps are exactly the target's
  callbacks over the threshold; every gap is an event or is counted as lost;
* detectors: `start` returns only after a handshake, never leaves a sidecar or a
  polling thread behind; `stop` is silent and drains; a failure surfaces; calls
  return; both implement one protocol;
* sampler: Austin is ended, its script is there while needed and gone afterwards;
* identity and doctor: the probes watch the target and nobody else, the sampler
  agrees with them, and what the doctor calls ready is not refused;
* ring: a window over the newest samples, sorted, searched correctly;
* correlator: every call site sampled during the blocking call is reported, and
  no stack from long before it;
* reporter: summary, streams and exit status agree, whichever sink fails;
* statistics: true frames, one on the screen, a complete final one;
* session: one truthful summary, the child reaped, an exit status that agrees
  with the summary, and an end.

The hazards behind these properties are listed, line by line, in `PROJECT.json`.

## 2. Modules

| Module | Models |
|---|---|
| `SlidingWindow` | what the ring buffer promises: the newest `Size` samples, oldest first, and how many left |
| `StackRingBuffer` | the ring itself, `push`, `find_all_in_range`, `find_nearest`, `find_in_range` |
| `Accumulation` | three loops that several parts run: adding up a sequence, keeping what passes a test, bisecting |
| `Accumulation_proofs` | induction over sets of numbers; what the three loops compute |
| `StackRingBuffer_proofs` | its invariant, its order, its searches, the refinement of `SlidingWindow` |
| `EpollGap` | the BPF programs, the loader, the kernel's perf rings, one per CPU |
| `MCEpollGap` | the tasks of the instances |
| `EpollGap_proofs` | exactness of the reported gaps; the accounts of the perf buffer |
| `CoreDetector` | the client thread, the reader thread, the sidecar and the pipe |
| `CoreDetector_proofs` | no leaked sidecar; handshake; silent stop; losses; the refinement of `Detector` |
| `Detector` | the protocol of `core.py`: what the session may rely on |
| `BccDetector` | the client thread, a handler on top of it, the polling thread, the perf buffer |
| `BccDetector_proofs` | its invariant and safety properties; the refinement of `Detector` |
| `AustinSampler` | `start`, `stop`, the wrapper script, Austin's thread and process, the timer |
| `TargetIdentity` | what each part reads of `/proc`, in order, and makes of it; exits and reuse |
| `Preflight` | the doctor, the command's validation, sampler and detector up to the attach |
| `MCPreflight` | targets, bystanders and hosts of the instance |
| `Correlator` | `on_event` over an instance of `StackRingBuffer`, sampler, target and delivery |
| `MCCorrelator` | the stacks of the instances |
| `Correlator_proofs` | completeness and recency of every report |
| `Reporter` | reader and main thread in `Reporter`, the sinks, the policy verdict |
| `MCReporter` | events and command lines of the instances |
| `Reporter_proofs` | summary, streams and exit status agree |
| `StatsCollector` | the durations, the chain of timers, the display |
| `Session` | `main`, `_run_loop`, signals, teardown |
| `Session_proofs` | the safety properties of the session, of the sampler and of the statistics, the two parts it starts and stops, and of the preflight |

Operators whose name begins with `Mutant` are faulty variants of the operator
that follows them. They are not part of any specification: each is there to
show that a property notices the fault.

### StackRingBuffer

`buffer`, `head`, `count` and `overflow_count` are the fields of the class; a
slot holds a pair of time and stack, or `NoEntry` for `None`. `push` and the
snapshot taken by a search hold the lock, so each is one step. The searches are
operators on the snapshot: `Bisect` (in `Accumulation`) is the loop of Python's
`bisect`, a recursive function of the two bounds, and `BisectLeft` and `BisectRight`
are its two uses, so what they do on unsorted input is what the code would do.
`on_sample` pushes with the current time, which `Tick` advances.

### EpollGap

A task is a record of its namespace and the ids it has there; `where[t]` is 0
while it runs a callback and `v` while it is inside epoll variant `v`. `Init`
puts every task anywhere: blocksnoop attaches to running programs. `Load` opens,
loads and configures the object and creates the rings; `Attach`
creates one link, exit before enter, variant by variant, as the loader's loop
does. `EpollExit` and `EpollEnter` are system calls together with the program
the kernel runs there. There is one perf ring per CPU, and a task may be on any CPU
when it enters epoll. `PerfOutput` is the kernel (external): drops are counted per
ring and announced by one `PERF_RECORD_LOST` in front of the next sample of that CPU
that fits. `Poll(cpu)` reads one record of a ring; the loader picks the rings in any
order, so samples of a thread that migrates may come out of order, and no property
says otherwise. `Emit` also has the branch for a sample shorter than
`struct blocking_event`: nothing is written to standard output, and `truncated`
counts it. `callbacks`, `running_since`, `truncated` and `attached_at` record what
really happened and no action of the code reads them.

### CoreDetector

`pc` is the client thread (whoever calls `start`, `check_health`, `stop`);
`reader[s]` is the reader thread of session `s`. A line is abstracted to what
`_handle_line` makes of it: a matching `ready`, a valid event, a skipped event,
a valid loss record, or anything that ends in `_set_error`. The sidecar writes
any sequence of them, so the detector is checked against a sidecar that does not
follow the protocol as well. `_set_error` takes two steps before the handshake,
because `start` may run between the assignment and `ready.set()`. The reader
looks `self._process` up when the thread first runs, so `stop` may have taken it
already. `JoinMayTimeOut` says whether `reader.join(timeout=2)` may give up.
Left out: the standard-error reader, a thread that cannot be started, a second
`start` on a running detector (it returns at once), and a sidecar that survives
SIGKILL.

`ImplementsDetector` maps the client's step to the protocol's status and the sum of
the loss counts to `losses`.

### Detector and BccDetector

`Detector` is what the session relies on, whichever backend it drives: nothing is
delivered, lost or failed outside a run, a run starts from scratch, a health check
condemns only what has failed. `CoreDetector` and `BccDetector` both implement it
(`ImplementsDetector`).

In `BccDetector`, `pc` is the client in `start` and `stop`; `handler` says that a
signal handler runs `stop` on top of a `start` that then never goes on, except that
a `RuntimeError` of `join` (a thread that was created and does not run yet) is
caught by `start` itself. `thread` and `bpf` are the fields, `poller` is where the
thread really is: a poller can outlive its field for a moment, and
`ReleasedAtRest` says what it may still do. Records of the kernel are samples or
losses; what is unread at `stop` is dropped. The program's timing is that of
`EpollGap` (the template in `detector.py` has the same two probes), its filter is in
`TargetIdentity`, and what `_ensure_kernel_headers` can provide in `Preflight`.

### AustinSampler

`place` walks through `start` and `stop`; `Stop` may come at any step and `start` never
goes on after it, since the handler raises. `file` is the script on disk and
`nsenter_wrapper` the field that remembers it. The thread of austin-python, the
shell that opens the script by name, its `setsid` and Austin come after `start` has
returned, in steps of their own (external). `Signalled` is `terminate`: with the
wrapper it signals a process group that exists only after `setsid`. The health timer
reads `_austin` in two steps. A second signal inside `stop` belongs to `Session`.

### TargetIdentity and Preflight

A task is its `Tgid`, its PID and mount namespace and, in there, its number and its
process's. `procfs` is `/proc` for the two numbers the user may have given; `seen` are the
answers to the reads of the resolution under way, one per step, with exits and reuse
of numbers in between. Doctor, Core, BCC and sampler each have their order of reads
and their rule: Core and doctor refuse what they cannot read, BCC and sampler fall
back to a default per read. Core stops at the first failed read; the model reads
on and refuses at the end, which is the same to everybody else. A filter is what the
probes compare, and `Matches` are the tasks that pass it, bystanders included.
Two assumptions say what the kernel guarantees: the tasks of a table are `Numbered`
(threads share the namespace of their process, a process is known by its first
thread, a number of a namespace has one holder), and nobody gets the number a
bystander or its process has. A newcomer's numbers are free otherwise. A thread can
only join a process that is there, and a process takes its threads along when it
exits. The model ends with the attach.

`Preflight` runs the doctor and then the command on one host `env`, whose fields are
named after the doctor's checks. The host does not change in between. A namespace
that can be entered, an Austin that works and a sidecar that is compatible are not
part of `env`. Two searches for the BPF object are kept apart: the doctor looks beside
the path at which it found the sidecar (`ObjectFound`), the loader beside the executable
`/proc/self/exe` resolves to (`ObjectLoads`); both obey `BLOCKSNOOP_BPF_OBJECT` first.
Kernel headers are in place, in `/usr/src` from where `_ensure_kernel_headers` links
them, not to be linked, or absent (`HeadersProvided`). `BccUnchecked` names the four
prerequisites of BCC the doctor does not look at: that `bcc` imports, debugfs, the
kernel helper, the headers. `CoreUnchecked` is the one of Core: an object beside a
link to the sidecar that the loader, following the link, does not find.

### Correlator

The ring is an instance of `StackRingBuffer`; `OnSample` is its `Push`. A stack is
a sequence of frames, root first as Austin delivers them, and `StdlibFiles` stands
for the substring test on `STDLIB_FRAME_PREFIXES`. `OnEvent` reads the clock and
`Correlate` searches, so samples can be pushed in between. Event times carry
`Offset`, the difference between the kernel's clock and Python's, of which the
code knows nothing. `retained` in a report is the ring on_event could see; it is
there for the properties. Samples without a frame list, or of another thread, are
dropped by `on_sample` and do not show.

### Reporter

`reader` is the detector's thread inside `report`: it counts, then aggregates, then
writes to one sink after the other, three places at which the main thread may
read the counters. A console or a stream raises when its write fails, and the
detector swallows the exception; the log file goes through
`logging.FileHandler`, which reports the failure and returns, and which reopens its
file after a close. A failed write leaves no record in the model; a console
may in fact have written half of one. `Rounded` is rounding to three decimals, with either
neighbour on a tie, since the float decides. `Join` models `detector.stop`:
`late` records that it gave up on the reader. `policy_failed` only runs for a
clean session, on the live counters.

### StatsCollector

Each `threading.Timer` is a thread of its own that waits, prints and schedules its
successor; `cancelled` are the timers whose event is set, which only matters to
one that still waits. Nothing protects `_timer`, so each line of `_schedule` and of
`stop` is a step, and each reads the field again: a timer is `created` before it
waits, a tick whose `_timer` was cleared under it dies of an `AttributeError` and
its timer is never started, and one that was cancelled before its `start()` ends at
once. (That the thread is a daemon needs no state: one that a tick creates inherits
it.) `stop` may come on top of any step of `start`, as the handler's does, and
`detector.stop` may raise, which skips `collector.stop` (`"unstopped"`).
`overtaken` records that the cancel met a tick in its print or before its
assignment.

`screen` is the terminal, line by line: the frame the line is of, or 0 for a line
that the launched child, the logger or a shell wrote between two frames
(`OtherWrites`; in JSON mode nobody else has the stream). A print moves the cursor
up `_lines_printed` lines and overwrites what is there, whoever wrote it. A print
that fails has written nothing or, when only the flush failed, a frame that
`_lines_printed` does not know of (`torn`). The terminal is taken to be tall enough
for what is erased, and other writers to write whole lines. `Insort` is
`bisect.insort`, with the same `BisectRight` as the ring's searches. Averages, rates and
layout are left out; durations are whole numbers, and the percentile index is
computed in integers (the floating-point product gives the same index for all
four percentages and every count up to two million).

### Session

`pc` is the frame of `_run_loop`; a handler runs on top of it, on the same
thread, which `owner` records. `_cleanup` is one sequence of stages whichever
frame runs it. A signal inside it raises `SystemExit` there: inside `stop` this
counts as a failed teardown, inside `on_exit` the `finally` clause goes on,
inside `_stop_child` the child is abandoned. `sampler.stop` swallows what
`terminate` and `join` raise and gives up its join after five seconds, so it may
return with Austin running: `sampler_held`, the sampler's `_austin`, is down after
it, `sampler_up`, Austin itself, need not be. `StartHoldsLock` tells
`CoreDetector` (whose `start` and `stop` share a lock) from the BCC detector.
The branch for `KeyboardInterrupt` is dead once the handlers are installed and
is not modelled; signals after the handlers were restored are not either. The
statistics command uses the same `_run_loop` with other callbacks; here only the
normal command is modelled. The wait after SIGKILL in `_stop_child` is taken to
succeed.

## 3. Runs

| Run | Checks | Shows |
|---|---|---|
| `ring_search` | `Chronological`, `SearchesAreExact`, `WindowSpec` | three slots, five pushes at times 0..4: empty, partial, full and rotated rings, equal timestamps, every window from before the first to after the last sample |
| `epoll_gaps` | `ExactGaps`, `LossAccounting`, `LongCallbackSurfaces` | a target with two variants and a task with equal ids in another namespace (`MCEpollGapInv.cfg` adds a sibling thread); threshold 0, two CPUs with a ring of two records each, four ticks: overflow, announced and pending losses, migration |
| `core_safety` | `StartedMeansReady`, `NoSidecarLeak`, `StopIsSilent`, `LossesReachSummary`, `ImplementsDetector` | two sessions in a row, two lines each |
| `core_liveness` | `CallsReturn`, `FailureSurfaces` | a pipe of one line, three lines, so that an error can follow a ready and an event; join may give up |
| `bcc_detector` | `PollerHasBpf`, `ReleasedAtRest`, `LossesAreThisRuns`, `ImplementsDetector`, `FailureSurfaces`, `CallsReturn` | two starts, two records each, a loss record of zero; a handler on top of every step of `start` |
| `austin_sampler` | `WrapperLifetime`, `SamplerEndsAustin` | both kinds of target, stop at every step, a failure at every step |
| `preflight` | `ReadyMeansRunnable`, `WatchesTheTarget`, `CoreSparesBystanders`, `SamplerAgrees` | seventeen hosts, five targets, eight command lines, two reuses of a number at any moment of each resolution |
| `session_teardown` | `SingleSummary`, `TruthfulSummary`, `ExitMatchesSummary`, `OrderlyExit`, `EarlyExitHoldsNothing`, `SignalEndsUnlessBlocked` | three signals: one to begin the cleanup, one inside it, one inside what is left |
| `session_deadlock` | `SignalEnds` (violated) | the handler waits for the lock its own thread holds |
| `correlator_sites` | `CulpritsReported`, `StacksAreRecent` | two slots, three samples of four stacks, one event with any delay up to four ticks, padding 1, clocks three apart |
| `reporter_accounts` | `SummaryIsExact`, `StreamsAgree`, `PolicyAgrees` | two events that round to either side of the error threshold, four command lines, any write failing, join in time or not |
| `stats_display` | `OneChain`, `FramesAreTrue`, `ScreenAccounts`, `FinalIsComplete` | three events, three timers, a warning after two events, two foreign lines, any print failing, stop at any step |

Ten more configurations refute sentences of docstrings and documents, or show
the limit of a property. They are kept beside the others and are run the same way:

| Configuration | Module | Refutes |
|---|---|---|
| `MCEpollAttachWindow.cfg` | `MCEpollGap` | `TimedAcrossVariants`: before the last attach a gap can span several callbacks (`bpf/blockdetect.c:25`) |
| `MCCorrelatorReimport.cfg` | `MCCorrelator` | `PrefersAppFrames`: a `<module>`-only stack hides a later stack with the same leaf (`correlator.py:90`) |
| `MCReporterSinks.cfg` | `MCReporter` | `EmittedToAllSinks`: a sink that raises starves the ones after it (`reporter.py:107`) |
| `MCStatsCollectorStop.cfg` | `StatsCollector` | `FinalIsLast`: a timer that fired before the cancel prints after the final statistics and schedules another one (`stats.py:62`); and, with `-continue`, `OthersDoNotCorrupt`: a line of another writer between two frames is erased in place of a line of the older frame, which stays (`stats.py:25-27`: "does not corrupt the display") |
| `MCSessionSummary.cfg` | `Session` | `SummaryOnExit`: a signal inside the cleanup swallows the summary, which `CHANGELOG.md:8-9` promises (`cli.py:294`); and, with `-continue`, `CompletedMeansDown`: Austin may run on after a summary that reports no error, as `sampler.stop` returns whether it has ended or not (`profiler.py:401`: "Terminate Austin and wait for the thread.") |
| `MCReporterLocation.cfg` | `MCReporter` | `LocationIsCallSite`: the location of a top signature is the outermost application frame, the same for every call site of a program, where `README.md:219` shows the blocking function (`reporter.py:51`) |
| `MCAustinSamplerStop.cfg` | `AustinSampler` | `StopTerminatesAustin`: a stop before the process exists, or before `setsid` made its group, signals nobody, and Austin is left running (`profiler.py:402`) |
| `MCAustinSamplerHealth.cfg` | `AustinSampler` | `HealthCheckSurvives`: `stop` clears `_austin` between the two reads of a check that already runs (`profiler.py:393`) |
| `MCPreflightBcc.cfg` | `MCPreflight` | `ReadyMeansRunnableForAll`: for BCC the doctor finds the module without importing it, takes a tracefs BCC does not look at, and does not ask for the helper of kernel 5.7 that the program calls nor for kernel headers (`diagnostics.py:88`, `README.md:98-101`), and for Core it may find the object beside a link to the sidecar, where the sidecar does not look (`diagnostics.py:330`); and, with `-continue`, `BccSparesBystanders`: a target that exits between the reads leaves its own numbers and blocksnoop's namespace, which may be somebody's (`detector.py:280`) |
| `MCStatsCollectorRank.cfg` | `StatsCollector` | `PercentileIsNearestRank`: `int(p * (n - 1))` is a rank too low for many counts; p99 of two durations is the smaller one (`stats.py:166`) |

Two properties have a limit: `LossesReachSummary` fails when join may
give up on the reader (`JoinMayTimeOut = TRUE` in `MCCoreDetector.cfg`,
`core_backend.py:177`), and `CoreSparesBystanders` says `reuses <= 2`, without which
it fails for `MaxReuses = 3` (`core_backend.py:193`): the PID is a process of one
namespace, then of another, then of the first, then of the other again, each time
between two of the five reads.

Ten configurations, `MC<module>Inv.cfg`, check with the same bounds what the proofs
start from: the inductive invariants `Inv` (ring), `BooksInv` (collector, with
`GapInv`), `LedgerInv` (Core detector, with `DetectorInv`), `LossInv` (BCC, with
`BccInv`), `SamplerInv`, `PreflightInv`, `CorrelatorInv`, `ReporterInv`, `SessionInv`
and `StatsInv`.
The one of `AustinSampler` also has two plain liveness properties: `stop` returns, and
a sampler without samples says so.

Bounds. `MaxTime`, `MaxPushes`, `MaxLines`, `MaxSessions`, `MaxSignals`,
`MaxEvents`, `MaxLost`, `MaxTimers` and `MaxOthers` only cut behaviours short. Five pushes rotate a ring of three twice past its end.
Four ticks let a ring of two records overflow and announce its losses.
Two sessions are what a stale reader needs. Three pushes overwrite the first
sample of a ring of two. Two events give two signatures to rank and a stream that
can miss one and get the other. Two starts let a poller meet the next run; two
records are one that is handled and one that is in the buffer. Two reuses
change the process between two of Core's reads and change it back. Three timers let a chain outlive `stop`; a foreign
line costs the older frame a line, two do so twice or between different frames. The
code's `TopLimit` of 5 is 1, its rounding unit 10 and its warning threshold 2 in
the instances. Deadlock is checked for the
detector; the other models stop at a bound or when the session is over.

Fairness. `EpollGap`: the loader's poll wakes up for a record in any ring, so
`Poll(cpu)` is weakly fair for each CPU. `CoreDetector`: every wait of the client has a timeout, so a call
goes on (`ClientFairSpec`); `FailureSurfaces` also supposes that the wait loop keeps
calling `check_health` and that the reader's callbacks return (`HealthIsPolled`). Neither the
sidecar nor the kernel is fair. `BccDetector`: `start` and `stop` go on unless they
wait for the poller, `check_health` is polled by the wait loop, `perf_buffer_poll`
has a timeout and the callbacks return. `AustinSampler`: `stop` goes on (its join has a
timeout), the timer runs out, the system runs what was spawned, and Austin obeys
SIGTERM; it need not produce samples or exit by itself. `Session`: the main thread goes on, as all its
waits but the lock are bounded by timeouts; the child and the signals are not
fair.

## 4. Findings

One run expects a violation; `PROJECT.json` quotes the sentences it refutes.
`session_deadlock`: SIGTERM during the short time in which `CoreDetector.start` holds
its lock (or during its own `stop` after a failed handshake, up to four seconds and
more) hangs blocksnoop until a second signal. Of the configurations in section 3 the
most noticeable are the lost summary, the location of a signature, the Austin that
survives an early `stop`, and the doctor that calls a BCC host ready although the
command will be refused.

## 5. Proofs

All theorems hold for every value of the constants that satisfies the named
assumptions in the modules (sizes, bounds and durations are naturals, `None` is no
time, options are those of the parser, and so on). Two kinds have a hypothesis
besides: those of `CoreDetector` that speak of the reader (`~JoinMayTimeOut`; TLC
refutes `LossesReachSummary` without it), and the properties that name a condition
themselves (`~ late`, a delay within the padding).

* `RingInvariant`: `TypeOK /\ FilledPrefix` is inductive. Slots below `count` are
  filled, and a ring that is not full has never rotated; without this the filter
  for `None` could drop entries and the two branches of `_ordered_entries` would
  not describe the same window.
* `RingImplementsWindow`: under the mapping `window <- OrderedEntries`, a push is
  `Record`: by cases on whether the ring is full, comparing the two sequences
  slot by slot with modular arithmetic on `head`.
* `RingChronological`: the refined window is sorted, hence the ring is.
* `RingSearchesExact`: by induction on the distance of its two bounds, `Bisect`
  returns the insertion point of any sorted sequence (`BisectFinds`,
  `InsertionPoints`). Then `find_all_in_range` is the slice between two insertion
  points, and the nearest sample is one of the two neighbours of one. The lemmas
  hold for all integer windows, the theorem for those of the run.
* `CollectorExact`: `ExactGaps` is not inductive; `GapInv` adds that the times
  kept are past ones and that the hash holds the target's `running_since` exactly
  while it runs a callback begun after the last attach (`Tracking`).
* `LossesAccounted`: `BooksInv` adds to `GapInv` the sum of the lines, the
  truncated samples and, over all CPUs, of the unread records and the unannounced drops
  (`Account` and `Pending`, totals of weights). `Total` of a
  sequence with one element more, less or changed is proved once, in
  `Accumulation_proofs`.
* `NoSidecarIsLeaked`: a smaller invariant over the client's own variables, so it
  needs nothing of the reader and holds with and without join timeouts.
* `DetectorInvariant`, `StartIsHandshaken`, `StopSuppressesEOF`: the invariant says
  which reader can be at work and on whose pipe (`ReaderPlace`), what `ready` means
  at each point of `start` (`Handshake`), and that an end of file or error line has
  a culprit (`Blame`). One lemma per action.
* `LedgerInvariant`, `EveryLossIsReported`: a balance per session: what the sidecar
  announced is in the pipe, in the reader's hand or counted, and a reader that has
  ended has drained its pipe.
* `BccInvariant` and its consequences: what the client holds at each of its steps
  and where the poller then is (`Places`); `LossInv` adds the flow of the loss
  records of the current run.
* `CoreImplementsDetector`, `BccImplementsDetector`: step by step, each action of a
  backend is a step of `Detector` or leaves its three variables alone.
* `CorrelatorInvariant`, `CulpritsAreReported`, `ReportsAreRecent`: an instance of
  the ring behaves as `StackRingBuffer` (`RingBehaves`), so its searches are exact;
  that the deduplication loop keeps the first stack of each site and the filter keeps
  order follows from `KeepPicks`. Each report is complete and recent when it is made,
  and reports do not change.
* `ReporterInvariant` and its three consequences. `Control` says where the two
  threads can be relative to each other. `Books`: the counters are the totals of the
  signatures, with the event that is counted but not yet aggregated taken out
  (`AggregatedCount`); a signature is found at most once, so an update changes one
  summand. `Settled`: after a joined reader nothing the summary was built from can
  move. `Flow`: what each sink has and what it is still owed (`Owes`), per level; from
  the two inequalities of `Counted` it follows that a stream with all events has all
  errors. `Delivered`: an event that is over is in a sink or a write failed there or
  before. That the top list is right rests on `PlacesRank`: the sort key is a strict
  total order, so the places are a permutation.
* `SessionInvariant` and its five consequences: where the cleanup can be
  (`CleanupPlace`), what is down, and what was let go of, by each stage (`TeardownOrder`), what has been
  achieved (`Achieved`), and what the exit status rests on (`Verdict`).
* `SamplerInvariant`, `WrapperOutlivesItsReaders`: `Places` says at each step of
  `start` and `stop` who knows the script, and that a shell about to open it belongs
  to a crossing sampler whose thread runs.
* `StatsInvariant` and its four consequences, for any durations and any number of
  events and timers. `InsortAscends`: an insertion at the end of the prefix that
  `BisectSplits` finds keeps the array sorted. `RankBounds`: the index of each
  percentile is in the array, and its distance to both ends gives the two
  percentages of `FramesAreTrue` (`AscendingSplits`). The rest is three parts that
  hardly touch: what the lock protects, with the terminal; the timers; and the reader,
  which is gone before the final print or `late`. The terminal: a print keeps as many
  lines as were not the collector's own (`WriteKeepsDisplay`), which needs that no
  frame is shorter than the one before. The timers: `ChainPlace` says that until
  `stop` clears it `_timer` is the only timer that waits or is created, and that
  there is no created one while a tick has yet to create its own; so the cancel
  finds whatever could still fire (`CancelKeepsChain`), unless it is overtaken.
* `PreflightInvariant` and its four consequences, for any tasks, hosts and number of
  reuses. Until something exits, every read is of the same table (`Snapshot`), so
  filter and sampler are those of the target (`AimedAtTable`), and that nobody else
  passes the filter is `Numbered`. That the doctor is right (`HealthySuffices`) goes
  through the required checks one by one. `ReusesNeeded` counts: for every prefix of
  Core's five reads that it would accept although the second was of another
  namespace than the first, how many reuses that took, given what `/proc` holds now;
  `ThreadsHaveProcess` is why a thread of the PID had to be replaced along with it.
  An accepted filter with namespace and numbers of different holders took three.

Induction. The library's induction theorems take an operator, which the provers
cannot instantiate. `SetInduction` says the same of a *set* of naturals and follows
from the well-foundedness of `<`; a recursive function is shown to exist
(`LoopExists`) and to be the only one with its equations, and then equals what its
recursive definition chooses. This is how the sums, the kept indices and the
bisection are proved.

Four proofs found an invariant that TLC had accepted and that was not inductive,
because every reachable state happened to satisfy more: a reader that aggregates is
at its first sink, a session that waits for the reader has a reason to end, a
sampler that has not started does not cross, a shell about to open the script has a
thread. These facts are now conjuncts.

A fifth found a property that was false. `WatchesTheTarget` used to say that BCC,
given the TID of another process, watches nothing, and TLC agreed on every table it
was given. The proof needs the TID to live in the namespace of the PID. BCC does not
check this (`detector.py:359-363`; the doctor and Core do): a TID in another
container that has there the number of one of the process's own threads makes
BCC watch that thread, in place of an error. The property now says so, and the
tables of `MCPreflight` hold such a TID (`Misplaced`).

Only model-checked: the liveness properties (fairness and ENABLED are out of the
prover's reach). Every invariant, action property and refinement of a passing run is
a theorem.

## 6. Plan

Done: ring buffer, collector, Core detector, session, in this order because the
collector and the detector decide whether an event exists at all, and the
session decides whether anybody hears of it; then correlator, reporter and
statistics; then the detector protocol with both its implementations, the sampler,
and the way from the doctor to the attached probes; then the proofs of section 5.

Next: `Reporter` composed with `Session`, so that a signal inside the summary and a
failing sink meet.

Not modelled, and why:

* a second signal inside `sampler.stop` and `detector.stop`: `Session` treats each of
  them as one step that is done or not;
* a second signal on the statistics path, inside its `stop`: it shares `_run_loop`
  with the modelled one, and its teardown order is in `StatsCollector`;
* a line of the sidecar on which `_handle_line` itself raises (bytes that are not
  UTF-8, a loss source that cannot be hashed): it would end the reader, and the loader writes
  none, as all its strings are literals;
* a host that changes between doctor and command, and what lies behind a check that
  passes (a sidecar of another version, an Austin that cannot attach);
* creation and exit of threads inside the collector;
* argument parsing, the links `_ensure_kernel_headers` leaves behind, output layout, packaging, contract scripts and examples: straight-line code without state
  of its own.
