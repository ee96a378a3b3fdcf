---------------------------- MODULE BccDetector ----------------------------
(* blocksnoop/detector.py: BccDetector.  The client thread starts, watches    *)
(* and stops the polling thread, which reads the perf buffer of the BPF       *)
(* object and runs the callbacks.  A signal handler may run stop on top of a  *)
(* start that is still under way; it always raises, so that start never goes  *)
(* on.  The fields are shared between the threads without a lock.             *)
EXTENDS Accumulation

CONSTANTS
    MaxStarts,   \* bound on the start() calls
    MaxRecords,  \* bound on the records the kernel writes for one start
    LostCounts   \* the counts a PERF_RECORD_LOST may carry

ASSUME BccAssumption == MaxStarts \in Nat /\ MaxRecords \in Nat /\ LostCounts \subseteq Nat

\* A perf record: a sample, or the number of samples that were lost
Sample == [lost |-> FALSE, count |-> 0]
Lost(n) == [lost |-> TRUE, count |-> n]
Records == {Sample} \cup {Lost(n) : n \in LostCounts}

VARIABLES
    pc,           \* where the client thread is
    handler,      \* the stop under way runs in a signal handler on top of start
    starts,       \* start() calls so far
    stop_event,   \* self._stop_event is set
    thread,       \* self._thread: "none", "created", "started"
    bpf,          \* self._bpf is not None
    poll_error,   \* self._poll_error is not None
    loss_counts,  \* self._loss_counts, summed
    poller,       \* where the polling thread is
    record,       \* the record whose callback it runs
    perf,         \* the perf buffer
    \* What really happened, for the properties:
    written,      \* the records the kernel wrote since start
    handled,      \* the records the poller handled since start
    delivered,    \* events handed to the callback since start
    failed        \* the poller ended although nobody had asked it to

client == <<pc, handler, starts>>
fields == <<stop_event, thread, bpf, poll_error>>
polling == <<poller, record>>
ghosts == <<written, handled, delivered, failed>>
vars == <<client, fields, loss_counts, polling, perf, ghosts>>

Starting == {"compiling", "opened", "created", "launching"}

Init ==
    /\ pc = "off" /\ handler = FALSE /\ starts = 0
    /\ stop_event = FALSE /\ thread = "none" /\ bpf = FALSE /\ poll_error = FALSE
    /\ loss_counts = 0
    /\ poller = "none" /\ record = Sample
    /\ perf = <<>>
    /\ written = <<>> /\ handled = <<>> /\ delivered = 0 /\ failed = FALSE

-----------------------------------------------------------------------------
(* start, on the client thread.                                               *)

MutantNoReset ==
    /\ pc = "off" /\ thread = "none"
    /\ starts < MaxStarts
    /\ starts' = starts + 1
    /\ poll_error' = FALSE
    /\ written' = <<>> /\ handled' = <<>> /\ delivered' = 0 /\ failed' = FALSE
    /\ pc' = "compiling"
    /\ UNCHANGED <<handler, stop_event, thread, bpf, loss_counts, polling, perf>>

\* A detector that holds a thread returns at once; any other forgets the losses
\* and the error of its last run
Start ==
    /\ pc = "off" /\ thread = "none"
    /\ starts < MaxStarts
    /\ starts' = starts + 1
    /\ loss_counts' = 0
    /\ poll_error' = FALSE
    /\ written' = <<>> /\ handled' = <<>> /\ delivered' = 0 /\ failed' = FALSE
    /\ pc' = "compiling"
    /\ UNCHANGED <<handler, stop_event, thread, bpf, polling, perf>>

\* BPF(text=...) compiles and attaches, open_perf_buffer maps the buffer
OpenBpf ==
    /\ pc = "compiling" /\ ~ handler
    /\ bpf' = TRUE
    /\ perf' = <<>>
    /\ pc' = "opened"
    /\ UNCHANGED <<handler, starts, stop_event, thread, poll_error, loss_counts, polling, ghosts>>

CreateThread ==
    /\ pc = "opened" /\ ~ handler
    /\ stop_event' = FALSE
    /\ thread' = "created"
    /\ pc' = "created"
    /\ UNCHANGED <<handler, starts, bpf, poll_error, loss_counts, polling, perf, ghosts>>

\* Thread.start asks the system for a thread, then waits until it runs
LaunchThread ==
    /\ pc = "created" /\ ~ handler
    /\ poller' = "launched"
    /\ pc' = "launching"
    /\ UNCHANGED <<handler, starts, fields, loss_counts, record, perf, ghosts>>

StartReturns ==
    /\ pc = "launching" /\ ~ handler
    /\ thread = "started"
    /\ pc' = "running"
    /\ UNCHANGED <<handler, starts, fields, loss_counts, polling, perf, ghosts>>

\* "except Exception" in _start and in start, and the end of stop: drop what
\* there is.  An interrupted start is the last: its exception ends the session
Unwind ==
    /\ bpf' = FALSE
    /\ thread' = "none"
    /\ perf' = <<>>
    /\ handler' = FALSE
    /\ pc' = IF handler THEN "ended" ELSE "off"

\* No tracepoint, no headers, no bcc, a program that does not attach, no thread
StartRaises ==
    /\ pc \in {"compiling", "created"} /\ ~ handler
    /\ Unwind
    /\ UNCHANGED <<starts, stop_event, poll_error, loss_counts, polling, ghosts>>

-----------------------------------------------------------------------------
(* check_health and stop.                                                     *)

MutantErrorOnly ==
    /\ pc = "running"
    /\ ~ stop_event
    /\ poll_error
    /\ pc' = "condemned"
    /\ UNCHANGED <<handler, starts, fields, loss_counts, polling, perf, ghosts>>

CheckHealth ==
    /\ pc = "running"
    /\ ~ stop_event
    /\ poll_error \/ (thread # "none" /\ poller = "dead")
    /\ pc' = "condemned"
    /\ UNCHANGED <<handler, starts, fields, loss_counts, polling, perf, ghosts>>

\* stop by the client, or by the handler of a signal that interrupts start
Stop ==
    /\ pc \in {"off", "running", "condemned"} \cup Starting
    /\ ~ handler
    /\ stop_event' = TRUE
    /\ IF pc \in Starting
       THEN handler' = TRUE /\ UNCHANGED pc
       ELSE handler' = FALSE /\ pc' = "joining"
    /\ UNCHANGED <<starts, thread, bpf, poll_error, loss_counts, polling, perf, ghosts>>

Stopping == pc = "joining" \/ handler

MutantDropFirst ==
    /\ Stopping
    /\ bpf' = FALSE /\ perf' = <<>>
    /\ IF thread = "none" \/ (thread = "started" /\ poller = "dead")
       THEN thread' = "none" /\ pc' = "off" /\ handler' = FALSE
       ELSE UNCHANGED <<thread, pc, handler>>
    /\ UNCHANGED <<starts, stop_event, poll_error, loss_counts, polling, ghosts>>

MutantNoJoin ==
    /\ Stopping
    /\ thread # "created"
    /\ Unwind
    /\ UNCHANGED <<starts, stop_event, poll_error, loss_counts, polling, ghosts>>

\* join has no timeout.  The handler then raises SystemExit out of start
StopReturns ==
    /\ Stopping
    /\ thread = "none" \/ (thread = "started" /\ poller = "dead")
    /\ Unwind
    /\ UNCHANGED <<starts, stop_event, poll_error, loss_counts, polling, ghosts>>

\* A thread that has not begun to run cannot be joined: the RuntimeError leaves
\* the handler, and start takes it for a failure of its own
StopRaises ==
    /\ handler
    /\ thread = "created"
    /\ Unwind
    /\ UNCHANGED <<starts, stop_event, poll_error, loss_counts, polling, ghosts>>

-----------------------------------------------------------------------------
(* _poll_loop, on the polling thread.                                         *)

\* The thread runs: start may return, and the assertion on self._bpf is tried
PollerRuns ==
    /\ poller = "launched"
    /\ thread' = IF thread = "created" THEN "started" ELSE thread
    /\ poller' = IF bpf THEN "checking" ELSE "dead"
    /\ UNCHANGED <<client, stop_event, bpf, poll_error, loss_counts, record, perf, ghosts>>

MutantPollForever ==
    /\ poller = "checking"
    /\ poller' = "polling"
    /\ UNCHANGED <<client, fields, loss_counts, record, perf, ghosts>>

CheckStop ==
    /\ poller = "checking"
    /\ poller' = IF stop_event THEN "dead" ELSE "polling"
    /\ UNCHANGED <<client, fields, loss_counts, record, perf, ghosts>>

\* perf_buffer_poll takes the next record and enters its callback
TakeRecord ==
    /\ poller = "polling"
    /\ perf # <<>>
    /\ record' = Head(perf)
    /\ perf' = Tail(perf)
    /\ poller' = "handling"
    /\ UNCHANGED <<client, fields, loss_counts, ghosts>>

\* _handle_event: ctypes swallows what the callback raises.  _handle_lost: only
\* positive counts are kept, and the loss callback's exceptions are logged
HandleRecord ==
    /\ poller = "handling"
    /\ IF record.lost
       THEN loss_counts' = loss_counts + record.count /\ UNCHANGED delivered
       ELSE delivered' = delivered + 1 /\ UNCHANGED loss_counts
    /\ handled' = Append(handled, record)
    /\ poller' = "polling"
    /\ UNCHANGED <<client, fields, record, perf, written, failed>>

\* The timeout has passed, or the ready rings are drained
PollReturns ==
    /\ poller = "polling"
    /\ poller' = "checking"
    /\ UNCHANGED <<client, fields, loss_counts, record, perf, ghosts>>

\* perf_buffer_poll raises an Exception, or something that is none
PollRaises ==
    /\ poller = "polling"
    /\ failed' = (failed \/ ~ stop_event)
    /\ poller' \in {"catching", "dead"}
    /\ UNCHANGED <<client, fields, loss_counts, record, perf, written, handled, delivered>>

RecordError ==
    /\ poller = "catching"
    /\ poll_error' = (poll_error \/ ~ stop_event)
    /\ poller' = "dead"
    /\ UNCHANGED <<client, stop_event, thread, bpf, loss_counts, record, perf, ghosts>>

\* The kernel writes a record for the attached program
KernelWrites ==
    /\ bpf
    /\ Len(written) < MaxRecords
    /\ \E r \in Records :
          /\ perf' = Append(perf, r)
          /\ written' = Append(written, r)
    /\ UNCHANGED <<client, fields, loss_counts, polling, handled, delivered, failed>>

StartStep == OpenBpf \/ CreateThread \/ LaunchThread \/ StartReturns \/ StartRaises
PollerStep ==
    PollerRuns \/ CheckStop \/ TakeRecord \/ HandleRecord \/ PollReturns \/ PollRaises \/ RecordError

Next ==
    \/ Start \/ StartStep \/ CheckHealth \/ Stop \/ StopReturns \/ StopRaises
    \/ PollerStep \/ KernelWrites

Spec == Init /\ [][Next]_vars

\* Calls go on unless they wait for the other thread; the wait loop keeps
\* calling check_health; perf_buffer_poll has a timeout and callbacks return
FairSpec ==
    /\ Spec
    /\ WF_vars(StartStep) /\ WF_vars(StopReturns \/ StopRaises)
    /\ WF_vars(CheckHealth) /\ WF_vars(PollerStep)

-----------------------------------------------------------------------------
\* The variables of the detector have their types.
TypeOK ==
    /\ pc \in {"off", "running", "condemned", "joining", "ended"} \cup Starting
    /\ thread \in {"none", "created", "started"}
    /\ poller \in {"none", "launched", "checking", "polling", "handling", "catching", "dead"}
    /\ {handler, stop_event, bpf, poll_error, failed} \subseteq BOOLEAN
    /\ handler => pc \in Starting
    /\ starts \in 0 .. MaxStarts /\ loss_counts \in Nat /\ delivered \in Nat
    /\ record \in Records /\ perf \in Seq(Records)

\* self._bpf is shared without a lock and cleared by stop and by a failing
\* start: wherever a signal interrupts start, the polling thread never calls
\* into a BPF object that is gone, nor runs a callback without one.
PollerHasBpf == poller \in {"polling", "handling"} => bpf

\* However start failed or was interrupted (between the creation of the thread
\* and its first step included), a detector at rest holds nothing and its
\* polling thread, if there still is one, has been told to stop.
ReleasedAtRest ==
    pc \in {"off", "ended"} =>
        /\ ~ bpf /\ thread = "none"
        /\ poller \notin {"none", "dead"} => stop_event /\ poller \in {"launched", "checking"}

\* What the client holds at each of its steps, and where the poller then is
Places ==
    /\ pc \in {"off", "ended", "compiling"} => ~ bpf /\ thread = "none"
    /\ pc = "opened" => bpf /\ thread = "none"
    /\ pc = "created" => bpf /\ thread = "created"
    /\ pc = "launching" => bpf /\ thread # "none" /\ (thread = "created" => poller = "launched")
    /\ pc \in {"running", "condemned"} => bpf /\ thread = "started"
    /\ pc = "joining" => thread # "created" /\ (thread = "started" => bpf)
    /\ poller = "launched" =>
           (pc = "launching" /\ thread = "created") \/ (pc = "ended" /\ stop_event)
    /\ poller \in {"checking", "polling", "handling", "catching"} =>
           \/ thread = "started" /\ pc \in {"launching", "running", "condemned", "joining"}
           \/ poller = "checking" /\ pc = "ended" /\ stop_event

\* The stop event is set exactly when somebody asked for it, and a poller that
\* ended, or recorded an error, without being asked has failed
Blame ==
    /\ Stopping => stop_event
    /\ pc \in {"created", "launching", "running", "condemned"} /\ ~ handler => ~ stop_event
    /\ poll_error => failed
    /\ ~ stop_event /\ (poller = "catching" \/ (thread = "started" /\ poller = "dead")) => failed
    /\ pc = "compiling" => ~ failed

\* The inductive invariant behind PollerHasBpf, ReleasedAtRest and the
\* refinement of the Detector protocol.
BccInv == TypeOK /\ Places /\ Blame /\ PollerHasBpf /\ ReleasedAtRest

\* The losses the summary reads are those of this run alone, each handled
\* record counted once, also when the detector is used again: nothing handled
\* for an earlier start is left in the counters, nothing is handled after stop.
Counts(records) == [i \in 1 .. Len(records) |-> IF records[i].lost THEN records[i].count ELSE 0]
LossesAreThisRuns ==
    /\ loss_counts = Total(Counts(handled))
    /\ handled = SubSeq(written, 1, Len(handled))

\* What the kernel wrote since start is handled, in the poller's hands or still
\* in the buffer, in this order, as long as there is a buffer
InHand == IF poller = "handling" THEN 1 ELSE 0
Flow ==
    /\ written \in Seq(Records) /\ handled \in Seq(Records)
    /\ Len(handled) <= Len(written)
    /\ \A i \in 1 .. Len(handled) : handled[i] = written[i]
    /\ pc = "compiling" => written = <<>>
    /\ bpf => /\ Len(written) = Len(handled) + InHand + Len(perf)
              /\ poller = "handling" => record = written[Len(handled) + 1]
              /\ \A i \in 1 .. Len(perf) : perf[i] = written[Len(handled) + InHand + i]

\* The inductive invariant behind LossesAreThisRuns.
LossInv == BccInv /\ Flow /\ LossesAreThisRuns

\* The protocol of core.py: what BccDetector implements
Status ==
    IF Stopping THEN "stopping"
    ELSE IF pc \in Starting THEN "starting"
    ELSE IF pc = "running" THEN "on"
    ELSE IF pc = "ended" THEN "off" ELSE pc

Contract == INSTANCE Detector WITH status <- Status, losses <- loss_counts

\* BccDetector implements the Detector protocol: no event or loss outside a run,
\* no failing health check without a failure, start from scratch every time.
ImplementsDetector == Contract!Spec

\* "Surface failed or unexpectedly dead BCC polling threads" (check_health):
\* a poller that ends on its own ends the session, unless the client stops first.
FailureSurfaces == (pc = "running" /\ failed) ~> (pc # "running")

\* stop returns although its join has no timeout, as long as callbacks return,
\* and so does a start that a handler interrupted.
CallsReturn == (Stopping \/ pc \in Starting) ~> ~ (Stopping \/ pc \in Starting)
=============================================================================
