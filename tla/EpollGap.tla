------------------------------ MODULE EpollGap ------------------------------
(* The CO-RE collector: the BPF programs of core_blockdetect.bpf.c, which     *)
(* time the target thread from an epoll return to its next epoll entry, and   *)
(* the loader blocksnoop_ebpf.c, which attaches them one tracepoint at a time *)
(* and turns the perf buffer, one ring per CPU, into lines on its standard    *)
(* output.                                                                    *)
EXTENDS Accumulation, FiniteSets

CONSTANTS
    Tasks,         \* every thread of the machine, [pidns, tgid, tid]
    Config,        \* struct detector_config: pidns, target_tgid, target_tid
    Threshold,     \* detector_config.threshold_ns
    VariantCount,  \* enabled epoll variants, attached in the order 1, 2, ...
    Uses,          \* the variants each task calls
    None,          \* no entry in a BPF map
    CpuCount,      \* libbpf_num_possible_cpus(): one perf ring each
    PerfCapacity,  \* records a ring holds
    MaxTime        \* bound on bpf_ktime_get_ns()

Cpus == 1 .. CpuCount
Tids == {t.tid : t \in Tasks} \cup {Config.target_tid}

\* Thread ids are unique within a PID namespace
ASSUME TasksAssumption ==
    \A t, u \in Tasks : t.pidns = u.pidns /\ t.tgid = u.tgid /\ t.tid = u.tid => t = u
ASSUME UsesAssumption == Uses \in [Tasks -> SUBSET (1 .. VariantCount)]
ASSUME BoundsAssumption ==
    /\ VariantCount \in Nat \ {0}
    /\ CpuCount \in Nat \ {0}
    /\ Threshold \in Nat
    /\ MaxTime \in Nat
    /\ None \notin Nat

VARIABLES
    phase,           \* the loader: "loading", "attaching", "attached", "polling", "exited"
    link_count,      \* bpf_links held: exit then enter of each variant in turn
    where,           \* per task: 0 running a callback, v inside epoll variant v
    callback_start,  \* the BPF hash, from namespace-local tid to time
    perf,            \* per CPU, its ring: samples and PERF_RECORD_LOST records
    pending_lost,    \* per CPU: drops not announced by a record yet
    stdout,          \* the lines the loader wrote
    truncated,       \* samples too short to read, reported on stderr only
    clock,           \* bpf_ktime_get_ns()
    \* What really happened, for the properties:
    running_since,   \* per task: when the target last left epoll
    callbacks,       \* <<start, end>> of the target's callbacks over Threshold
    outputs,         \* <<start, end>> passed to bpf_perf_event_output
    attached_at      \* when the last probe was attached (MaxTime until then)

vars == <<phase, link_count, where, callback_start, perf, pending_lost, stdout,
          truncated, clock, running_since, callbacks, outputs, attached_at>>

loader == <<phase, link_count, stdout, truncated>>
target == <<where, callback_start, running_since, callbacks, outputs>>

LinkTotal == 2 * VariantCount

Event(start_ns, end_ns) == [type |-> "event", start_ns |-> start_ns, end_ns |-> end_ns]
Lost(count) == [type |-> "lost", count |-> count]
Ready == [type |-> "ready"]
Fatal == [type |-> "fatal"]

\* blocksnoop attaches to a process that is already somewhere in its loop
Init ==
    /\ phase = "loading"
    /\ link_count = 0
    /\ where \in [Tasks -> 0 .. VariantCount]
    /\ \A t \in Tasks : where[t] \in Uses[t] \cup {0}
    /\ callback_start = [tid \in Tids |-> None]
    /\ perf = [cpu \in Cpus |-> <<>>]
    /\ pending_lost = [cpu \in Cpus |-> 0]
    /\ stdout = <<>>
    /\ truncated = 0
    /\ clock = 0
    /\ running_since = [t \in Tasks |-> 0]
    /\ callbacks = {}
    /\ outputs = {}
    /\ attached_at = MaxTime

-----------------------------------------------------------------------------
(* The loader.                                                                *)

\* The object is opened and loaded, the maps are sized for every possible CPU
\* and configured, and the rings are created
Load ==
    /\ phase = "loading"
    /\ phase' = "attaching"
    /\ UNCHANGED <<link_count, stdout, truncated, target, perf, pending_lost, clock, attached_at>>

\* The links are created exit before enter, variant by variant
ExitAttached(v) == link_count >= 2 * v - 1
EnterAttached(v) == link_count >= 2 * v

Attach ==
    /\ phase = "attaching"
    /\ link_count' = link_count + 1
    /\ IF link_count' = LinkTotal
       THEN phase' = "attached" /\ attached_at' = clock
       ELSE UNCHANGED <<phase, attached_at>>
    /\ UNCHANGED <<stdout, truncated, target, perf, pending_lost, clock>>

EmitReady ==
    /\ phase = "attached"
    /\ phase' = "polling"
    /\ stdout' = Append(stdout, Ready)
    /\ UNCHANGED <<link_count, truncated, target, perf, pending_lost, clock, attached_at>>

\* emit_fatal, then cleanup
Die ==
    /\ phase' = "exited"
    /\ link_count' = 0
    /\ stdout' = Append(stdout, Fatal)
    /\ UNCHANGED <<truncated, target, perf, pending_lost, clock, attached_at>>

LoadFails == phase = "loading" /\ Die

AttachFails == phase = "attaching" /\ Die

PollFails == phase = "polling" /\ Die

IsEvent(record) == record.type = "event"

MutantNoLostCallback(record) ==
    /\ stdout' = IF record.type = "lost" THEN stdout ELSE Append(stdout, record)
    /\ UNCHANGED truncated

MutantLossesOnly(record) ==
    /\ stdout' = IF record.type = "lost" THEN Append(stdout, record) ELSE stdout
    /\ UNCHANGED truncated

\* handle_sample and handle_lost: each record becomes a line, but for a sample
\* shorter than struct blocking_event, which is dropped with a word on stderr
Emit(record) ==
    \/ stdout' = Append(stdout, record) /\ UNCHANGED truncated
    \/ IsEvent(record) /\ truncated' = truncated + 1 /\ UNCHANGED stdout

\* perf_buffer__poll reads the rings that have records, in any order
Poll(cpu) ==
    /\ phase = "polling"
    /\ perf[cpu] # <<>>
    /\ Emit(Head(perf[cpu]))
    /\ perf' = [perf EXCEPT ![cpu] = Tail(@)]
    /\ UNCHANGED <<phase, link_count, pending_lost, target, clock, attached_at>>

\* SIGTERM: the default action before the handlers are installed, afterwards
\* the loop ends without another poll and unread records are dropped
Stop ==
    /\ phase # "exited"
    /\ phase' = "exited"
    /\ link_count' = 0
    /\ UNCHANGED <<stdout, truncated, target, perf, pending_lost, clock, attached_at>>

-----------------------------------------------------------------------------
(* The BPF programs, run by the kernel at the system calls of every task.     *)

MutantIsTarget(t) == t.tgid = Config.target_tgid /\ t.tid = Config.target_tid

\* bpf_get_ns_current_pid_tgid fails for a task of another PID namespace
IsTarget(t) ==
    /\ t.pidns = Config.pidns
    /\ t.tgid = Config.target_tgid
    /\ t.tid = Config.target_tid

\* Until cleanup destroys the links
Traced == phase # "exited"

\* on_epoll_exit at the return of variant where[t]
EpollExit(t) ==
    /\ Traced
    /\ where[t] # 0
    /\ where' = [where EXCEPT ![t] = 0]
    /\ running_since' = IF IsTarget(t) THEN [running_since EXCEPT ![t] = clock] ELSE running_since
    /\ callback_start' = IF ExitAttached(where[t]) /\ IsTarget(t)
                         THEN [callback_start EXCEPT ![t.tid] = clock]
                         ELSE callback_start
    /\ UNCHANGED <<loader, perf, pending_lost, clock, callbacks, outputs, attached_at>>

\* The ring of the CPU the task runs on (BPF_F_CURRENT_CPU): drops that were
\* not announced yet go ahead of the next sample as one PERF_RECORD_LOST; what
\* does not fit is dropped and counted
PerfOutput(cpu, sample) ==
    LET records == IF pending_lost[cpu] = 0 THEN <<sample>>
                   ELSE <<Lost(pending_lost[cpu]), sample>>
    IN  IF Len(perf[cpu]) + Len(records) <= PerfCapacity
        THEN /\ perf' = [perf EXCEPT ![cpu] = @ \o records]
             /\ pending_lost' = [pending_lost EXCEPT ![cpu] = 0]
        ELSE /\ pending_lost' = [pending_lost EXCEPT ![cpu] = @ + 1]
             /\ UNCHANGED perf

\* A callback that ran for longer than the threshold
Exceeds(start, end) == end - start > Threshold

\* on_epoll_enter: reports the gap and always forgets its start
OnEpollEnter(t, v) ==
    LET start_ns == callback_start[t.tid]
    IN  IF EnterAttached(v) /\ IsTarget(t) /\ start_ns # None
        THEN /\ IF Exceeds(start_ns, clock)
                THEN /\ \E cpu \in Cpus : PerfOutput(cpu, Event(start_ns, clock))
                     /\ outputs' = outputs \cup {<<start_ns, clock>>}
                ELSE UNCHANGED <<perf, pending_lost, outputs>>
             /\ callback_start' = [callback_start EXCEPT ![t.tid] = None]
        ELSE UNCHANGED <<callback_start, perf, pending_lost, outputs>>

EpollEnter(t, v) ==
    /\ Traced
    /\ where[t] = 0
    /\ where' = [where EXCEPT ![t] = v]
    /\ OnEpollEnter(t, v)
    /\ callbacks' = IF IsTarget(t) /\ Exceeds(running_since[t], clock)
                    THEN callbacks \cup {<<running_since[t], clock>>}
                    ELSE callbacks
    /\ UNCHANGED <<loader, clock, running_since, attached_at>>

Tick ==
    /\ Traced
    /\ clock < MaxTime
    /\ clock' = clock + 1
    /\ UNCHANGED <<loader, target, perf, pending_lost, attached_at>>

Next ==
    \/ Load \/ LoadFails \/ Attach \/ AttachFails \/ EmitReady \/ PollFails \/ Stop \/ Tick
    \/ \E cpu \in Cpus : Poll(cpu)
    \/ \E t \in Tasks : EpollExit(t) \/ \E v \in Uses[t] : EpollEnter(t, v)

Spec == Init /\ [][Next]_vars

\* perf_buffer__poll waits on all rings and wakes up for a record in any
FairSpec == Spec /\ \A cpu \in Cpus : WF_vars(Poll(cpu))

-----------------------------------------------------------------------------
\* The collector's variables have their types.
TypeOK ==
    /\ phase \in {"loading", "attaching", "attached", "polling", "exited"}
    /\ link_count \in 0 .. LinkTotal
    /\ phase \in {"attached", "polling"} => link_count = LinkTotal
    /\ phase \in {"loading", "attaching"} => link_count < LinkTotal
    /\ where \in [Tasks -> 0 .. VariantCount]
    /\ callback_start \in [Tids -> (0 .. MaxTime) \cup {None}]
    /\ clock \in 0 .. MaxTime
    /\ running_since \in [Tasks -> 0 .. MaxTime]
    /\ callbacks \subseteq (0 .. MaxTime) \X (0 .. MaxTime)
    /\ outputs \subseteq (0 .. MaxTime) \X (0 .. MaxTime)
    /\ attached_at \in 0 .. MaxTime

Since(gaps, t0) == {g \in gaps : g[1] > t0}

\* From the moment every probe is attached the programs report exactly the
\* target's long callbacks, each with its own start and end: the idle time in
\* epoll is never part of a gap, no long callback is missed, and neither a
\* sibling thread nor a task with the same ids in another PID namespace
\* contributes, whichever epoll variants the target mixes.
ExactGaps == Since(outputs, attached_at) = Since(callbacks, attached_at)

\* The comment above the generated probes (bpf/blockdetect.c): "All pairs share
\* the callback_start map, so a thread is timed across exit->enter regardless of
\* which variant it uses": every reported gap is a callback the target ran.
TimedAcrossVariants == outputs \subseteq callbacks

\* The times kept or reported are past ones
Past ==
    /\ phase \in {"attached", "polling"} => attached_at <= clock
    /\ phase \in {"loading", "attaching"} => attached_at = MaxTime
    /\ \A t \in Tasks : running_since[t] <= clock
    /\ callback_start[Config.target_tid] # None => callback_start[Config.target_tid] <= clock
    /\ \A g \in outputs \cup callbacks : g[1] <= clock

\* The hash and the target agree on a callback begun since every probe is
\* attached: the entry is there exactly while the callback runs
Tracking ==
    phase \in {"attached", "polling"} =>
        \A t \in Tasks : IsTarget(t) =>
            LET start_ns == callback_start[t.tid]
            IN  /\ where[t] = 0 /\ running_since[t] > attached_at => start_ns = running_since[t]
                /\ start_ns # None /\ start_ns > attached_at
                       => where[t] = 0 /\ start_ns = running_since[t]

\* The inductive strengthening of ExactGaps: the types, the order of the times
\* the collector keeps, and the agreement between the hash and the target.
GapInv == TypeOK /\ Past /\ Tracking /\ ExactGaps

\* What a line or a record stands for: a sample for itself, a loss for its count
Weights(records) ==
    [i \in 1 .. Len(records) |->
        IF IsEvent(records[i]) THEN 1 ELSE IF records[i].type = "lost" THEN records[i].count ELSE 0]
Account(records) == Total(Weights(records))

\* What is on its way on each CPU: unread records and unannounced drops
Pending == [cpu \in Cpus |-> Account(perf[cpu]) + pending_lost[cpu]]

Reported(records, gaps) ==
    \A i \in 1 .. Len(records) : IsEvent(records[i]) =>
        <<records[i].start_ns, records[i].end_ns>> \in gaps

\* native/README.md: "a dropped event is never counted twice", and none is
\* forgotten: however the target migrates and the loader picks rings, at any
\* moment the samples written, the losses announced, the truncated samples and,
\* over all CPUs, the records unread and the drops still pending add up to the
\* gaps passed to the perf buffer; and no line or record shows another gap.
LossAccounting ==
    /\ Account(stdout) + truncated + Total(Pending) = Cardinality(outputs)
    /\ Reported(stdout, outputs)
    /\ \A cpu \in Cpus : Reported(perf[cpu], outputs)

Records ==
    [type : {"event"}, start_ns : 0 .. MaxTime, end_ns : 0 .. MaxTime]
    \cup [type : {"lost"}, count : Nat] \cup {Ready, Fatal}

\* A reported gap is over, and over before the callback under way began
Over ==
    /\ stdout \in Seq(Records) /\ perf \in [Cpus -> Seq(Records)]
    /\ pending_lost \in [Cpus -> Nat] /\ truncated \in Nat
    /\ IsFiniteSet(outputs)
    /\ \A g \in outputs :
          /\ g[2] <= clock
          /\ callback_start[Config.target_tid] # None => g[2] <= callback_start[Config.target_tid]

\* The inductive strengthening of LossAccounting.
BooksInv == GapInv /\ Over /\ LossAccounting

\* The long callbacks of the target end up on the collector's output: again and
\* again there is a moment when all of them are there, unless the collector has
\* exited, a sample was truncated or an overflow of a ring is on record.
LongCallbackSurfaces ==
    []<>(\/ phase # "polling"
         \/ truncated > 0
         \/ \E cpu \in Cpus : pending_lost[cpu] > 0
         \/ \E i \in 1 .. Len(stdout) : stdout[i].type = "lost"
         \/ \A g \in Since(callbacks, attached_at) :
                \E i \in 1 .. Len(stdout) : stdout[i] = Event(g[1], g[2]))
=============================================================================
