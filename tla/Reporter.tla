------------------------------ MODULE Reporter ------------------------------
(* blocksnoop/reporter.py and sinks.py: the detector's reader thread calls    *)
(* report for each event, the main thread start, summary and close, and       *)
(* policy_failed when the session was clean.  Nothing locks the counters: the *)
(* main thread relies on having joined the reader, which may time out.        *)
EXTENDS Accumulation, FiniteSets

CONSTANTS
    Options,         \* the command lines: sinks, summary_only and the policy
    Events,          \* events: [duration, stacks], a stack a sequence of frames
    StdlibFiles,     \* files that match STDLIB_FRAME_PREFIXES
    Unit,            \* duration units in the 0.001 ms that durations round to
    ErrorThreshold,  \* error_threshold_ms, in rounded units
    TopLimit,        \* the number of top signatures (5 in the code)
    MaxEvents,       \* bound on the events
    MaxLost,         \* bound on the loss records
    None

\* _build_sinks: a console or a JSON stream, and a log file with --log-file
SinkLists == {<<"console">>, <<"stream">>, <<"console", "file">>, <<"stream", "file">>}

ASSUME ReporterAssumption ==
    /\ Options \subseteq [sinks : SinkLists, summary_only : BOOLEAN,
                          fail_on : {"none", "event", "error"}, fail_on_loss : BOOLEAN]
    /\ \A event \in Events : event.duration \in Nat
    /\ Unit \in Nat \ {0} /\ ErrorThreshold \in Nat /\ TopLimit \in Nat

VARIABLES
    args,        \* the options of this session
    counters,    \* _event_count, _error_event_count, _total_blocked_ms, _max_blocked_ms
    signatures,  \* _signatures in insertion order
    loss_counts, \* of the detector
    written,     \* the records in each sink, in order
    file_open,   \* JsonFileSink's handler has its file open
    reader,      \* the reader thread: its phase, the record it reports, the next sink
    main,        \* the main thread
    next,        \* the sink it writes to next
    summary,     \* the record summary() built, or None
    reason,      \* termination_reason
    exit,        \* "no", "ok", "policy", "child", "other" or "error"
    \* What really happened, for the properties:
    failed,      \* <<event_number, sink>> of the writes that failed
    late         \* the join timed out: report may run during summary and after it

aggregates == <<counters, signatures>>
outputs == <<written, file_open>>
ghosts == <<failed, late>>
vars == <<args, aggregates, loss_counts, outputs, reader, main, next, summary,
          reason, exit, ghosts>>

Idle == [phase |-> "idle", record |-> None, next |-> 1]
Gone == [Idle EXCEPT !.phase = "gone"]

Init ==
    /\ args \in Options
    /\ counters = [events |-> 0, errors |-> 0, total |-> 0, max |-> 0]
    /\ signatures = <<>>
    /\ loss_counts = 0
    /\ written = [k \in 1 .. Len(args.sinks) |-> <<>>]
    /\ file_open = ("file" \in {args.sinks[k] : k \in 1 .. Len(args.sinks)})
    /\ reader = Gone
    /\ main = "start" /\ next = 1
    /\ summary = None /\ reason = None
    /\ exit = "no"
    /\ failed = {} /\ late = FALSE

-----------------------------------------------------------------------------
(* Records.                                                                   *)

\* round(event.duration_ms, 3): nearest; how a tie falls is up to the float
Rounded(duration) == {q \in 0 .. duration : 2 * q * Unit - 2 * duration \in -Unit .. Unit}

Level(duration_ms) == IF duration_ms >= ErrorThreshold THEN "error" ELSE "warning"

AppFrames(stack) == SelectSeq(stack, LAMBDA f : f.file \notin StdlibFiles)

\* _signature_for_stacks: the fingerprint of the application's frames of the
\* first stack, and the frame that the location names
Signature(stacks) ==
    IF stacks = <<>> THEN [fingerprint |-> <<>>, location |-> None]
    ELSE LET selected == IF AppFrames(stacks[1]) # <<>> THEN AppFrames(stacks[1])
                         ELSE stacks[1]
         IN  [fingerprint |-> selected, location |-> selected[1]]

Larger(a, b) == IF a > b THEN a ELSE b

Known(fingerprint) ==
    {i \in 1 .. Len(signatures) : signatures[i].fingerprint = fingerprint}

\* setdefault, then the aggregate's count, total and maximum
Aggregated(signature, duration_ms) ==
    LET add(s) == [s EXCEPT !.count = @ + 1, !.total = @ + duration_ms,
                            !.max = Larger(@, duration_ms)]
        fresh == [fingerprint |-> signature.fingerprint,
                  location |-> signature.location, count |-> 0, total |-> 0, max |-> 0]
        known == Known(signature.fingerprint)
    IN  IF known = {} THEN Append(signatures, add(fresh))
        ELSE [i \in 1 .. Len(signatures) |->
                 IF i \in known THEN add(signatures[i]) ELSE signatures[i]]

\* sorted(..., reverse=True) is stable: equal keys keep their insertion order
Before(i, j) ==
    LET a == signatures[i]
        b == signatures[j]
    IN  \/ a.total > b.total
        \/ a.total = b.total /\ a.max > b.max
        \/ a.total = b.total /\ a.max = b.max /\ i < j

Place(i) == 1 + Cardinality({j \in 1 .. Len(signatures) : Before(j, i)})

TopSignatures ==
    LET shown == IF Len(signatures) < TopLimit THEN Len(signatures) ELSE TopLimit
    IN  [p \in 1 .. shown |-> signatures[CHOOSE i \in 1 .. Len(signatures) : Place(i) = p]]

-----------------------------------------------------------------------------
(* Sinks.  A console or a stream raises when its write fails; the log file's  *)
(* handler reports the failure on stderr and returns.                         *)

Raises(k) == args.sinks[k] # "file"

Write(k, record) ==
    /\ written' = [written EXCEPT ![k] = Append(@, record)]
    /\ file_open' = (file_open \/ args.sinks[k] = "file")  \* the handler reopens it

EventRecord(record) ==
    [type |-> "blocking_event", number |-> record.number,
     duration_ms |-> record.duration_ms, level |-> Level(record.duration_ms)]

LastSink(k) == k = Len(args.sinks)

-----------------------------------------------------------------------------
(* The reader thread: report, from Correlator.on_event, from _handle_event.   *)

Report(event) ==
    /\ reader.phase = "idle"
    /\ counters.events < MaxEvents
    /\ counters' = [counters EXCEPT !.events = @ + 1]
    /\ \E duration_ms \in Rounded(event.duration) :
          reader' = [phase |-> "aggregate", next |-> 1,
                     record |-> [number |-> counters.events + 1, duration |-> event.duration,
                                 duration_ms |-> duration_ms, stacks |-> event.stacks]]
    /\ UNCHANGED <<args, signatures, loss_counts, outputs, main, next, summary,
                   reason, exit, ghosts>>

MutantAggregateUnrounded ==
    LET duration_ms == reader.record.duration_ms
        error == reader.record.duration >= ErrorThreshold * Unit
    IN  /\ reader.phase = "aggregate"
        /\ counters' = [counters EXCEPT !.errors = @ + (IF error THEN 1 ELSE 0),
                             !.total = @ + duration_ms, !.max = Larger(@, duration_ms)]
        /\ signatures' = Aggregated(Signature(reader.record.stacks), duration_ms)
        /\ reader' = IF args.summary_only THEN Idle ELSE [reader EXCEPT !.phase = "emit"]
        /\ UNCHANGED <<args, loss_counts, outputs, main, next, summary, reason, exit, ghosts>>

\* The rounded duration goes into every aggregate; without events to emit the
\* call is over
Aggregate ==
    LET duration_ms == reader.record.duration_ms
        error == duration_ms >= ErrorThreshold
    IN  /\ reader.phase = "aggregate"
        /\ counters' = [counters EXCEPT !.errors = @ + (IF error THEN 1 ELSE 0),
                             !.total = @ + duration_ms, !.max = Larger(@, duration_ms)]
        /\ signatures' = Aggregated(Signature(reader.record.stacks), duration_ms)
        /\ reader' = IF args.summary_only THEN Idle ELSE [reader EXCEPT !.phase = "emit"]
        /\ UNCHANGED <<args, loss_counts, outputs, main, next, summary, reason, exit, ghosts>>

AfterSink == IF LastSink(reader.next) THEN Idle ELSE [reader EXCEPT !.next = @ + 1]

Emit ==
    /\ reader.phase = "emit"
    /\ Write(reader.next, EventRecord(reader.record))
    /\ reader' = AfterSink
    /\ UNCHANGED <<args, aggregates, loss_counts, main, next, summary, reason, exit, ghosts>>

MutantEmitFails ==
    /\ reader.phase = "emit"
    /\ failed' = failed \cup {<<reader.record.number, reader.next>>}
    /\ counters' = [counters EXCEPT !.events = @ - 1]
    /\ reader' = IF Raises(reader.next) THEN Idle ELSE AfterSink
    /\ UNCHANGED <<args, signatures, loss_counts, outputs, main, next, summary, reason, exit, late>>

\* _handle_event swallows the exception: the sinks after this one get nothing
EmitFails ==
    /\ reader.phase = "emit"
    /\ failed' = failed \cup {<<reader.record.number, reader.next>>}
    /\ reader' = IF Raises(reader.next) THEN Idle ELSE AfterSink
    /\ UNCHANGED <<args, aggregates, loss_counts, outputs, main, next, summary,
                   reason, exit, late>>

\* _handle_lost of the detector
Lose ==
    /\ reader.phase = "idle"
    /\ loss_counts < MaxLost
    /\ loss_counts' = loss_counts + 1
    /\ UNCHANGED <<args, aggregates, outputs, reader, main, next, summary, reason,
                   exit, ghosts>>

\* End of file: the sidecar died or was stopped
ReaderEnds ==
    /\ reader.phase = "idle"
    /\ reader' = Gone
    /\ UNCHANGED <<args, aggregates, loss_counts, outputs, main, next, summary,
                   reason, exit, ghosts>>

-----------------------------------------------------------------------------
(* The main thread: _start, _stop, _on_exit, and the verdict in main().       *)

Advance(done) ==
    IF LastSink(next) THEN main' = done /\ next' = 1
    ELSE main' = main /\ next' = next + 1

\* Reporter.start, one sink; the console has no start record
Start ==
    /\ main = "start"
    /\ \/ /\ args.sinks[next] = "console"
          /\ UNCHANGED outputs
       \/ /\ args.sinks[next] # "console"
          /\ Write(next, [type |-> "session_start"])
       \/ /\ args.sinks[next] = "file"  \* a record the handler could not write
          /\ UNCHANGED outputs
    /\ Advance("detector")
    /\ UNCHANGED <<args, aggregates, loss_counts, reader, summary, reason, exit, ghosts>>

StartFails ==
    /\ main = "start"
    /\ args.sinks[next] = "stream"
    /\ main' = "summary" /\ next' = 1
    /\ reason' = "runtime_error"
    /\ UNCHANGED <<args, aggregates, loss_counts, outputs, reader, summary, exit, ghosts>>

StartDetector ==
    /\ main = "detector"
    /\ reader' = Idle
    /\ main' = "running"
    /\ UNCHANGED <<args, aggregates, loss_counts, outputs, next, summary, reason, exit, ghosts>>

EndSession ==
    /\ main = "running"
    /\ main' = "join"
    /\ reason' \in {"clean", "child_exit", "signal", "runtime_error"}
    /\ UNCHANGED <<args, aggregates, loss_counts, outputs, reader, next, summary, exit, ghosts>>

\* detector.stop: the reader has ended, or the join gave up
Join ==
    /\ main = "join"
    /\ late' = (reader # Gone)
    /\ main' = "summary"
    /\ UNCHANGED <<args, aggregates, loss_counts, outputs, reader, next, summary,
                   reason, exit, failed>>

Status == [clean |-> "completed", child_exit |-> "child_failed",
           signal |-> "interrupted", runtime_error |-> "failed"]

BuildSummary ==
    /\ main = "summary"
    /\ summary' = [type |-> "session_summary", status |-> Status[reason],
                   counters |-> counters, lost_event_count |-> loss_counts,
                   top |-> TopSignatures]
    /\ main' = "emit_summary"
    /\ UNCHANGED <<args, aggregates, loss_counts, outputs, reader, next, reason, exit, ghosts>>

EmitSummary ==
    /\ main = "emit_summary"
    /\ \/ Write(next, summary)
       \/ ~ Raises(next) /\ UNCHANGED outputs  \* the handler could not write it
    /\ Advance("close")
    /\ UNCHANGED <<args, aggregates, loss_counts, reader, summary, reason, exit, ghosts>>

\* The exception leaves _on_exit before close, and main() without a verdict
EmitSummaryFails ==
    /\ main = "emit_summary"
    /\ Raises(next)
    /\ main' = "done"
    /\ exit' = "error"
    /\ UNCHANGED <<args, aggregates, loss_counts, outputs, reader, next, summary, reason, ghosts>>

Close ==
    /\ main = "close"
    /\ file_open' = FALSE
    /\ main' = "exit"
    /\ UNCHANGED <<args, aggregates, loss_counts, written, reader, next, summary,
                   reason, exit, ghosts>>

MutantPolicyFailed(c, lost) ==
    \/ args.fail_on = "event" /\ c.events > 0
    \/ args.fail_on = "error" /\ c.errors > 1
    \/ args.fail_on_loss /\ lost > 0

PolicyFailed(c, lost) ==
    \/ args.fail_on = "event" /\ c.events > 0
    \/ args.fail_on = "error" /\ c.errors > 0
    \/ args.fail_on_loss /\ lost > 0

\* main(): a child's own failure first, then the policy on the live counters
\* and the _lost_event_count that summary stored
Exit ==
    /\ main = "exit"
    /\ exit' = CASE reason = "clean" ->
                      IF PolicyFailed(counters, summary.lost_event_count)
                      THEN "policy" ELSE "ok"
                 [] reason = "child_exit" -> "child"
                 [] OTHER -> "other"
    /\ main' = "done"
    /\ UNCHANGED <<args, aggregates, loss_counts, outputs, reader, next, summary,
                   reason, ghosts>>

Next ==
    \/ \E event \in Events : Report(event)
    \/ Aggregate \/ Emit \/ EmitFails \/ Lose \/ ReaderEnds
    \/ Start \/ StartFails \/ StartDetector \/ EndSession \/ Join
    \/ BuildSummary \/ EmitSummary \/ EmitSummaryFails \/ Close \/ Exit

Spec == Init /\ [][Next]_vars

-----------------------------------------------------------------------------
Sinks == 1 .. Len(args.sinks)

\* What the records q of a sink show
EventsIn(q) == {i \in 1 .. Len(q) : q[i].type = "blocking_event"}
ErrorsIn(q) == {i \in EventsIn(q) : q[i].level = "error"}
Numbers(q) == {q[i].number : i \in EventsIn(q)}
Increasing(q) == \A i, j \in EventsIn(q) : i < j => q[i].number < q[j].number
HasSummary(q) == \E i \in 1 .. Len(q) : q[i].type = "session_summary"

\* The aggregates q by column
Counts(q) == [i \in 1 .. Len(q) |-> q[i].count]
Totals(q) == [i \in 1 .. Len(q) |-> q[i].total]
Bounded(q, max) == \A i \in 1 .. Len(q) : q[i].max <= max
Distinct(q) == \A i, j \in 1 .. Len(q) : q[i].fingerprint = q[j].fingerprint => i = j

\* The events whose report is over
Reported == IF reader.phase \in {"aggregate", "emit"} THEN 1 .. reader.record.number - 1
            ELSE 1 .. counters.events

Counters == [events : Nat, errors : Nat, total : Nat, max : Nat]
Levels == {"error", "warning"}
Signatures == {Signature(event.stacks) : event \in Events}
Aggregates == [fingerprint : {sig.fingerprint : sig \in Signatures},
               location : {sig.location : sig \in Signatures},
               count : Nat, total : Nat, max : Nat]
Summaries == [type : {"session_summary"}, status : {Status[r] : r \in DOMAIN Status},
              counters : Counters, lost_event_count : Nat, top : Seq(Aggregates)]
Records == [type : {"session_start"}] \cup Summaries
           \cup [type : {"blocking_event"}, number : Nat, duration_ms : Nat, level : Levels]
InReport == [number : Nat, duration : Nat, duration_ms : Nat,
             stacks : {event.stacks : event \in Events}]

\* The variables of the reporter have their types.
TypeOK ==
    /\ args \in Options
    /\ counters \in Counters
    /\ signatures \in Seq(Aggregates)
    /\ loss_counts \in Nat
    /\ written \in [Sinks -> Seq(Records)]
    /\ file_open \in BOOLEAN /\ late \in BOOLEAN
    /\ reader \in [phase : {"idle", "gone"}, record : {None}, next : {1}]
                  \cup [phase : {"aggregate", "emit"}, record : InReport, next : Sinks]
    /\ next \in Sinks
    /\ summary \in Summaries \cup {None}
    /\ reason \in DOMAIN Status \cup {None}
    /\ exit \in {"no", "ok", "policy", "child", "other", "error"}

\* report, "Build an event record, aggregate it": once the reader was joined,
\* the summary's counters are those of its signatures, every event included,
\* the ones that no sink could write too.
SummaryIsExact ==
    summary # None /\ ~ late =>
        /\ summary.counters.events = Total(Counts(signatures))
        /\ summary.counters.total = Total(Totals(signatures))
        /\ Bounded(signatures, summary.counters.max)
        /\ \A p \in 1 .. Len(summary.top), i \in 1 .. Len(signatures) :
              \/ summary.top[p].total >= signatures[i].total
              \/ \E q \in 1 .. p : summary.top[q].fingerprint = signatures[i].fingerprint

\* What a stream shows agrees with what the summary says: after a joined reader
\* nothing follows the summary, its error_event_count is not below the number of
\* records at level "error" and is that number in a stream that missed no
\* event; event numbers increase in every stream, joined or not, and an event
\* is missing only where its own write or the write of a sink before it failed.
StreamsAgree ==
    \A k \in Sinks :
        /\ Increasing(written[k])
        /\ ~ args.summary_only => \A n \in Reported :
              n \in Numbers(written[k]) \/ \E j \in 1 .. k : <<n, j>> \in failed
        /\ ~ late /\ HasSummary(written[k]) =>
              /\ written[k][Len(written[k])].type = "session_summary"
              /\ Cardinality(ErrorsIn(written[k])) <= summary.counters.errors
              /\ Cardinality(EventsIn(written[k])) = summary.counters.events =>
                    Cardinality(ErrorsIn(written[k])) = summary.counters.errors

\* The exit status is the one a reader of the summary would compute, and a
\* session that ends well under --fail-on has shown no offending record in any
\* stream, whichever sinks failed.
PolicyAgrees ==
    exit \in {"ok", "policy"} /\ ~ late =>
        /\ exit = "policy" <=> PolicyFailed(summary.counters, summary.lost_event_count)
        /\ summary.status = "completed"
        /\ exit = "ok" /\ args.fail_on = "error" => \A k \in Sinks : ErrorsIn(written[k]) = {}
        /\ exit = "ok" /\ args.fail_on = "event" => \A k \in Sinks : EventsIn(written[k]) = {}

\* report's docstring: "emit it to all sinks": once report is over, the event is
\* in every sink whose own write did not fail.
EmittedToAllSinks ==
    ~ args.summary_only => \A k \in Sinks, n \in Reported :
        n \in Numbers(written[k]) \/ <<n, k>> \in failed

\* _signature_for_stacks's docstring: "human-readable signature for a blocking
\* call site", and the README's "top blocking call sites": the location shown is
\* the call site, the deepest frame of the application.
LocationIsCallSite ==
    summary # None => \A p \in 1 .. Len(summary.top) :
        LET frames == summary.top[p].fingerprint
        IN  frames # <<>> => summary.top[p].location = frames[Len(frames)]

-----------------------------------------------------------------------------
(* The inductive invariant.                                                   *)

Summed == {"emit_summary", "close", "exit", "done"}

\* Where the two threads can be, relative to each other.
Control ==
    /\ main \in {"start", "detector", "running", "join", "summary"} \cup Summed
    /\ main \in {"start", "detector"} => reader = Gone
    /\ main \in {"start", "detector", "running", "join"} => ~ late
    /\ main \in {"summary"} \cup Summed => late \/ reader = Gone
    /\ main \in {"join", "summary"} \cup Summed => reason \in DOMAIN Status
    /\ main \in Summed => summary \in Summaries
    /\ main \notin Summed => summary = None
    /\ exit \in {"ok", "policy"} => main = "done" /\ reason = "clean"
    /\ reader.phase \in {"aggregate", "emit"} => reader.record.number = counters.events
    /\ reader.phase = "aggregate" => reader.next = 1

\* The events that have gone into the aggregates
AggregatedCount == counters.events - (IF reader.phase = "aggregate" THEN 1 ELSE 0)

\* The counters are those of the signatures.
Books ==
    /\ AggregatedCount = Total(Counts(signatures))
    /\ counters.total = Total(Totals(signatures))
    /\ Bounded(signatures, counters.max)
    /\ Distinct(signatures)

\* The summary of a joined reader stays true: nothing moves after it.
Settled ==
    main \in Summed /\ ~ late =>
        /\ summary.counters = counters
        /\ summary.lost_event_count = loss_counts
        /\ summary.top = TopSignatures
        /\ summary.status = Status[reason]
        /\ exit \in {"ok", "policy"} =>
              (exit = "policy" <=> PolicyFailed(summary.counters, summary.lost_event_count))

\* The event that is being written, at the sinks that are still to come
Owes(k, level) ==
    IF reader.phase = "emit" /\ k >= reader.next /\ Level(reader.record.duration_ms) = level
    THEN 1 ELSE 0

\* What sink k holds, in terms of what was aggregated: the errors are never more
\* than were counted, and what else it missed never less than nothing.
Counted(k) ==
    LET events == Cardinality(EventsIn(written[k]))
        errors == Cardinality(ErrorsIn(written[k]))
    IN  /\ errors + Owes(k, "error") <= counters.errors
        /\ counters.errors - errors + Owes(k, "warning") <= AggregatedCount - events

\* Its events are in order, and come before the one still to be written.
Ordered(k) ==
    /\ Increasing(written[k])
    /\ \A n \in Numbers(written[k]) :
          /\ n <= AggregatedCount
          /\ reader.phase = "emit" /\ k >= reader.next => n < reader.record.number

\* It has a summary once the main thread has passed it, at the end if the
\* reader was joined.
Sealed(k) ==
    HasSummary(written[k]) =>
        /\ main \in Summed
        /\ main = "emit_summary" => k < next
        /\ ~ late => written[k][Len(written[k])].type = "session_summary"

Flow == \A k \in Sinks : Counted(k) /\ Ordered(k) /\ Sealed(k)

\* Event n is in the records of sink k, or a write failed there or before
Accounted(n, k) == n \in Numbers(written[k]) \/ \E j \in 1 .. k : <<n, j>> \in failed

\* Every event that is over is accounted for at every sink, and the one being
\* written at the sinks that are done.
Delivered ==
    ~ args.summary_only => \A k \in Sinks :
        /\ \A n \in Reported : Accounted(n, k)
        /\ reader.phase = "emit" /\ k < reader.next => Accounted(reader.record.number, k)

\* From these parts the three properties follow.
ReporterInv == TypeOK /\ Control /\ Books /\ Settled /\ Flow /\ Delivered
=============================================================================
