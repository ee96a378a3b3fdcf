--------------------------- MODULE StatsCollector ---------------------------
(* blocksnoop/stats.py in `blocksnoop --stats`: the detector's reader thread  *)
(* adds durations, a chain of one-shot timers prints, each timer creating the *)
(* next one, and the main thread starts the chain and ends it with a last     *)
(* print.  One lock covers an insertion or a print, nothing covers _timer,    *)
(* and nobody has the terminal for himself.                                   *)
EXTENDS Accumulation, FiniteSets, FiniteSetsExt

CONSTANTS
    Durations,      \* the durations of events, in ms
    WarnThreshold,  \* _WARN_THRESHOLD
    MaxEvents,      \* bound on the events
    MaxTimers,      \* bound on the timers created
    MaxOthers,      \* bound on the lines of other writers
    None

ASSUME StatsAssumption ==
    /\ Durations \subseteq Nat /\ WarnThreshold \in Nat /\ MaxTimers \in Nat
    /\ None \notin 1 .. MaxTimers

VARIABLES
    json_mode, durations, warned, lines_printed,  \* fields of the collector
    timer,      \* _timer: a timer or None
    timers,     \* each timer: "none", "created", and its thread: "waiting", "print",
                \* "assign", "daemon", "launch" (the lines of _schedule), "dead"
    cancelled,  \* the timers whose cancel() was called
    reader_on,  \* the detector's reader thread runs
    main,       \* the main thread: "start", "launch", "detector", "running", "test",
                \* "cancel", "clear", "print", "stopped", "failed" or "unstopped"
    frames,     \* the statistics written so far, and by whom
    screen,     \* the terminal from its top: the frame a line is of, 0 for another writer's
    others,     \* history: the lines that other writers have written
    torn,       \* history: the lines that failed prints left and did not count
    overtaken,  \* history: stop cancelled while a tick was about to create the next timer
    late        \* history: the reader outlived detector.stop

display == <<json_mode, lines_printed, frames, screen, others, torn>>
data == <<durations, warned>>
chain == <<timer, timers, cancelled, overtaken>>
statsVars == <<display, data, chain, reader_on, main, late>>

StatsInit ==
    /\ json_mode \in BOOLEAN
    /\ durations = <<>> /\ warned = FALSE /\ lines_printed = 0
    /\ timer = None /\ timers = [t \in 1 .. MaxTimers |-> "none"] /\ cancelled = {}
    /\ reader_on = FALSE
    /\ main = "start"
    /\ frames = <<>> /\ screen = <<>> /\ others = 0 /\ torn = 0
    /\ overtaken = FALSE /\ late = FALSE

-----------------------------------------------------------------------------
(* The statistics.                                                            *)

MutantInsort(a, x) == Append(a, x)

\* bisect.insort: at the insertion point, behind the values that are not larger
Insort(a, x) ==
    LET pos == BisectRight(a, x)
    IN  [i \in 1 .. Len(a) + 1 |->
            IF i <= pos THEN a[i] ELSE IF i = pos + 1 THEN x ELSE a[i - 1]]

\* int(p * (n - 1)) counts from 0
Percentile(a, p) == a[1 + (p * (Len(a) - 1)) \div 100]

Percentages == {50, 90, 95, 99}

Stats(caller) ==
    IF durations = <<>> THEN [by |-> caller, count |-> 0, warned |-> warned]
    ELSE [by |-> caller, count |-> Len(durations), warned |-> warned,
          min |-> durations[1], max |-> durations[Len(durations)],
          p |-> [p \in Percentages |-> Percentile(durations, p)]]

\* Header, blank line and seven statistics; two more lines for the warning
FrameLines(w) == IF w THEN 11 ELSE 9

\* The lines of one print: a frame, or a record in JSON mode, which erases nothing
Lines == IF json_mode THEN 1 ELSE FrameLines(warned)

\* One write: the cursor goes up _lines_printed lines, whoever wrote them, and
\* the new lines take their place
Write(caller) ==
    LET kept == Len(screen) - lines_printed
    IN  /\ frames' = Append(frames, Stats(caller))
        /\ screen' = [i \in 1 .. kept + Lines |-> IF i <= kept THEN screen[i] ELSE Len(frames) + 1]

MutantPrintStats(caller) ==
    /\ Write(caller)
    /\ lines_printed' = IF json_mode THEN lines_printed ELSE FrameLines(FALSE)
    /\ UNCHANGED <<json_mode, others, torn>>

\* With the lock: the write, the flush, and the lines the next print will erase
PrintStats(caller) ==
    /\ Write(caller)
    /\ lines_printed' = IF json_mode THEN lines_printed ELSE Lines
    /\ UNCHANGED <<json_mode, others, torn>>

\* The write raises, or the flush behind it, which leaves _lines_printed as it was
PrintFails(caller) ==
    \/ UNCHANGED display
    \/ /\ Write(caller)
       /\ torn' = torn + Lines - lines_printed
       /\ UNCHANGED <<json_mode, lines_printed, others>>

\* A line of the launched child, of the logger or of a shell between two prints;
\* in JSON mode none of them writes to the stream of the statistics
OtherWrites ==
    /\ ~ json_mode
    /\ others < MaxOthers
    /\ others' = others + 1
    /\ screen' = Append(screen, 0)
    /\ UNCHANGED <<json_mode, lines_printed, frames, torn, data, chain, reader_on, main, late>>

OnEvent(duration_ms) ==
    /\ reader_on
    /\ Len(durations) < MaxEvents
    /\ durations' = Insort(durations, duration_ms)
    /\ warned' = (warned \/ Len(durations) + 1 >= WarnThreshold)
    /\ UNCHANGED <<display, chain, reader_on, main, late>>

-----------------------------------------------------------------------------
(* The chain of timers.                                                       *)

Unused == {t \in 1 .. MaxTimers : timers[t] = "none"}
Live == {t \in 1 .. MaxTimers : timers[t] \in {"waiting", "print", "assign", "daemon", "launch"}}

\* _schedule, its first line: self._timer is a new timer, not yet started
Create(states) ==
    LET t == Min(Unused)
    IN  /\ Unused # {}
        /\ timer' = t
        /\ timers' = [states EXCEPT ![t] = "created"]

\* What its two other lines need of self._timer, which they read again: None has
\* neither .daemon nor .start, and both raise for a thread that was started
Startable == timer # None /\ timers[timer] = "created"

\* threading.Timer.run: the second is over, and finished.is_set() is false
Fire(t) ==
    /\ timers[t] = "waiting"
    /\ t \notin cancelled
    /\ timers' = [timers EXCEPT ![t] = "print"]
    /\ UNCHANGED <<display, data, timer, cancelled, overtaken, reader_on, main, late>>

CancelledTimerEnds(t) ==
    /\ timers[t] = "waiting"
    /\ t \in cancelled
    /\ timers' = [timers EXCEPT ![t] = "dead"]
    /\ UNCHANGED <<display, data, timer, cancelled, overtaken, reader_on, main, late>>

TickPrints(t) ==
    /\ timers[t] = "print"
    /\ PrintStats("tick")
    /\ timers' = [timers EXCEPT ![t] = "assign"]
    /\ UNCHANGED <<data, timer, cancelled, overtaken, reader_on, main, late>>

\* A console or pipe that is gone raises in the timer's thread: the chain ends
TickPrintFails(t) ==
    /\ timers[t] = "print"
    /\ PrintFails("tick")
    /\ timers' = [timers EXCEPT ![t] = "dead"]
    /\ UNCHANGED <<data, timer, cancelled, overtaken, reader_on, main, late>>

TickCreates(t) ==
    /\ timers[t] = "assign"
    /\ Create([timers EXCEPT ![t] = "daemon"])
    /\ UNCHANGED <<display, data, cancelled, overtaken, reader_on, main, late>>

\* When stop has cleared _timer meanwhile, AttributeError ends the thread
TickSetsDaemon(t) ==
    /\ timers[t] = "daemon"
    /\ timers' = [timers EXCEPT ![t] = IF Startable THEN "launch" ELSE "dead"]
    /\ UNCHANGED <<display, data, timer, cancelled, overtaken, reader_on, main, late>>

\* The thread ends with _schedule, whether it has started the next one or raises
TickLaunches(t) ==
    /\ timers[t] = "launch"
    /\ timers' = [u \in 1 .. MaxTimers |->
                     IF u = t THEN "dead"
                     ELSE IF Startable /\ u = timer THEN "waiting" ELSE timers[u]]
    /\ UNCHANGED <<display, data, timer, cancelled, overtaken, reader_on, main, late>>

-----------------------------------------------------------------------------
(* The main thread: _start and _stop of _run_stats.                           *)

\* start and _schedule up to .daemon: no other thread uses _timer yet
Start ==
    /\ main = "start"
    /\ Create(timers)
    /\ main' = "launch"
    /\ UNCHANGED <<display, data, cancelled, overtaken, reader_on, late>>

StartLaunches ==
    /\ main = "launch"
    /\ timers' = [timers EXCEPT ![timer] = "waiting"]
    /\ main' = "detector"
    /\ UNCHANGED <<display, data, timer, cancelled, overtaken, reader_on, late>>

StartDetector ==
    /\ main = "detector"
    /\ reader_on' = TRUE
    /\ main' = "running"
    /\ UNCHANGED <<display, data, chain, late>>

MutantStopReader ==
    /\ main \in {"start", "launch", "detector", "running"}
    /\ UNCHANGED <<reader_on, late>>
    /\ main' = "test"
    /\ UNCHANGED <<display, data, chain>>

\* _stop at the end, or on top of a start that failed or was interrupted:
\* detector.stop joins the reader or gives up; when it raises, collector.stop
\* is not called
StopReader ==
    /\ main \in {"start", "launch", "detector", "running"}
    /\ reader_on' \in {FALSE, reader_on}
    /\ late' = reader_on'
    /\ main' \in {"test", "unstopped"}
    /\ UNCHANGED <<display, data, chain>>

\* stop: is there a timer at all
StopTests ==
    /\ main = "test"
    /\ main' = IF timer = None THEN "print" ELSE "cancel"
    /\ UNCHANGED <<display, data, chain, reader_on, late>>

MutantStopCancels ==
    /\ main = "cancel"
    /\ overtaken' = \E t \in Live : timers[t] \in {"print", "assign"}
    /\ main' = "clear"
    /\ UNCHANGED <<display, data, timer, timers, cancelled, reader_on, late>>

\* The timer that self._timer holds now, which may have fired, or be a newer one
StopCancels ==
    /\ main = "cancel"
    /\ cancelled' = cancelled \cup {timer}
    /\ overtaken' = \E t \in Live : timers[t] \in {"print", "assign"}
    /\ main' = "clear"
    /\ UNCHANGED <<display, data, timer, timers, reader_on, late>>

StopClears ==
    /\ main = "clear"
    /\ timer' = None
    /\ main' = "print"
    /\ UNCHANGED <<display, data, timers, cancelled, overtaken, reader_on, late>>

StopPrints ==
    /\ main = "print"
    /\ PrintStats("stop")
    /\ main' = "stopped"
    /\ UNCHANGED <<data, chain, reader_on, late>>

StopPrintFails ==
    /\ main = "print"
    /\ PrintFails("stop")
    /\ main' = "failed"
    /\ UNCHANGED <<data, chain, reader_on, late>>

StatsNext ==
    \/ \E d \in Durations : OnEvent(d)
    \/ \E t \in 1 .. MaxTimers :
          \/ Fire(t) \/ CancelledTimerEnds(t) \/ TickPrints(t) \/ TickPrintFails(t)
          \/ TickCreates(t) \/ TickSetsDaemon(t) \/ TickLaunches(t)
    \/ OtherWrites
    \/ Start \/ StartLaunches \/ StartDetector \/ StopReader
    \/ StopTests \/ StopCancels \/ StopClears \/ StopPrints \/ StopPrintFails

StatsSpec == StatsInit /\ [][StatsNext]_statsVars

-----------------------------------------------------------------------------
\* The timers that still lead to a frame
Pending ==
    {t \in 1 .. MaxTimers : \/ timers[t] \in {"print", "assign"}
                            \/ timers[t] \in {"created", "waiting"} /\ t \notin cancelled}

\* The docstring of stop: "Cancel the display timer and print final stats.":
\* once stop has printed, nothing else is printed.
FinalIsLast == main = "stopped" => frames[Len(frames)].by = "stop"

\* However the unlocked lines of _schedule and of stop interleave, there is never
\* more than one live chain of timers, and stop ends it for good, with its own
\* frame the last, unless its cancel came while a tick was printing or about to
\* assign _timer: no later moment of _schedule lets a timer escape.
OneChain ==
    /\ \A t, u \in Live : t = u
    /\ ~ overtaken => /\ main \in {"clear", "print", "stopped", "failed"} => Pending = {}
                      /\ FinalIsLast

\* The numbers of a frame are in order
InOrder(f) ==
    f.count > 0 => /\ f.min <= f.p[50] /\ f.p[50] <= f.p[90]
                   /\ f.p[90] <= f.p[95] /\ f.p[95] <= f.p[99] /\ f.p[99] <= f.max

\* At most p percent of the values lie strictly below the p-th percentile, and
\* the values above it are those above rank p percent of n - 1
Splits(a) ==
    a # <<>> => \A p \in Percentages :
        LET v == Percentile(a, p)
            n == Len(a)
        IN  /\ 100 * Cardinality({i \in 1 .. n : a[i] < v}) <= p * n
            /\ 100 * Cardinality({i \in 1 .. n : a[i] > v}) < (100 - p) * (n - 1) + 100

\* Every frame printed by any thread is true of the durations received: counts
\* never go back, the extremes and percentiles are ordered, and a percentile
\* taken now would split the durations as it should.
FramesAreTrue ==
    /\ \A i \in 1 .. Len(frames) - 1 : frames[i].count <= frames[i + 1].count
    /\ \A i \in 1 .. Len(frames) : InOrder(frames[i])
    /\ Splits(durations)

\* The newest frame stands on the terminal as a whole, with nothing below it but
\* the lines others have written since
NewestIsWhole ==
    \E below \in 0 .. Len(screen) :
        LET bottom == Len(screen) - below
            top == bottom - FrameLines(frames[Len(frames)].warned)
        IN  /\ top >= 0
            /\ \A i \in 1 .. Len(screen) :
                  i > top => screen[i] = IF i <= bottom THEN Len(frames) ELSE 0

\* Whoever prints, and however the frame grew: the newest frame is whole, the
\* terminal has one line more for each line that another writer or a failed flush
\* has added (in exchange for each line of theirs that a print erases it keeps one
\* of an older frame), and without these it shows that one frame and nothing else.
ScreenAccounts ==
    ~ json_mode => /\ Len(screen) = lines_printed + others + torn
                   /\ frames # <<>> =>
                         /\ NewestIsWhole
                         /\ others + torn = 0 =>
                               \A i \in 1 .. Len(screen) : screen[i] = Len(frames)

\* _stop of _run_stats ends the reader before the final print: the final
\* statistics count every event, unless the join of the reader timed out.
FinalIsComplete ==
    ~ late => \A i \in 1 .. Len(frames) :
        frames[i].by = "stop" => frames[i].count = Len(durations)

\* What a thread can have printed
Frames ==
    [by : {"tick", "stop"}, count : {0}, warned : BOOLEAN]
    \cup [by : {"tick", "stop"}, count : Nat, warned : BOOLEAN, min : Nat, max : Nat,
          p : [Percentages -> Nat]]

StatsTypes ==
    /\ json_mode \in BOOLEAN /\ warned \in BOOLEAN
    /\ durations \in Seq(Nat)
    /\ lines_printed \in {0, FrameLines(FALSE), FrameLines(TRUE)}
    /\ timers \in [1 .. MaxTimers -> {"none", "created", "waiting", "print", "assign",
                                     "daemon", "launch", "dead"}]
    /\ timer \in 1 .. MaxTimers \cup {None} /\ cancelled \subseteq 1 .. MaxTimers
    /\ reader_on \in BOOLEAN /\ late \in BOOLEAN /\ overtaken \in BOOLEAN
    /\ main \in {"start", "launch", "detector", "running", "test", "cancel", "clear",
                 "print", "stopped", "failed", "unstopped"}
    /\ frames \in Seq(Frames) /\ screen \in Seq(Nat) /\ others \in Nat /\ torn \in Nat

Ascending(a) == \A i, j \in 1 .. Len(a) : i <= j => a[i] <= a[j]

\* Until stop clears it, _timer is the newest timer: no other one is created or
\* waits, nor is there a created one while a tick has yet to create its own
ChainPlace ==
    /\ timer # None => timers[timer] # "none"
    /\ main = "start" => \A t \in 1 .. MaxTimers : timers[t] = "none"
    /\ main = "launch" => Startable /\ Live = {}
    /\ main = "cancel" => timer # None
    /\ main \notin {"print", "stopped", "failed"} =>
          /\ timer = None => \A t \in 1 .. MaxTimers : timers[t] = "none"
          /\ \A t \in 1 .. MaxTimers : timers[t] \in {"created", "waiting"} => t = timer
          /\ \A t, u \in 1 .. MaxTimers :
                timers[t] \in {"print", "assign"} => timers[u] # "created"

\* Nobody inserts before the detector runs, nor after it was joined
ReaderPlace ==
    reader_on => main = "running" \/ late

\* Only the last step of stop prints for stop
FinalPlace ==
    /\ main \notin {"stopped", "failed"} => \A i \in 1 .. Len(frames) : frames[i].by # "stop"
    /\ main = "stopped" => frames # <<>>

\* What has been printed is not ahead of the durations, nor does a frame shrink
Printed ==
    /\ \A i \in 1 .. Len(frames) : frames[i].count <= Len(durations)
    /\ lines_printed = FrameLines(TRUE) => warned
    /\ json_mode => lines_printed = 0

\* The inductive invariant behind the four properties: OneChain needs to know
\* whose the timers are, FramesAreTrue that the durations are sorted,
\* ScreenAccounts that no print is shorter than the one before, FinalIsComplete
\* the place of the reader.
StatsInv ==
    /\ StatsTypes /\ Ascending(durations)
    /\ OneChain /\ ChainPlace
    /\ ReaderPlace /\ FinalPlace /\ FinalIsComplete
    /\ Printed /\ ScreenAccounts /\ FramesAreTrue

\* The docstring of StatsCollector: each frame is one write, "so interleaved
\* output from other threads (warnings, log messages) does not corrupt the
\* display": no line of an older frame is left on it.
OthersDoNotCorrupt ==
    ~ json_mode /\ torn = 0 => \A i \in 1 .. Len(screen) : screen[i] \in {0, Len(frames)}

\* The docstring of _percentile: "(nearest-rank)": the value at rank
\* ceil(p * n), the smallest with at least p percent of the values up to it.
PercentileIsNearestRank ==
    durations # <<>> => \A p \in Percentages :
        Percentile(durations, p) = durations[(p * Len(durations) + 99) \div 100]
=============================================================================
