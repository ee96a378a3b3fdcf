--------------------------- MODULE TargetIdentity ---------------------------
(* How blocksnoop finds out who its target is.  The user gives host numbers;  *)
(* the probes and Austin need a PID namespace and the numbers in there.  They *)
(* come from several files under /proc, read one after the other while the    *)
(* target may exit and its numbers be given to somebody else.  The doctor, the*)
(* Core detector, the BCC detector and the sampler each read them in an order *)
(* of their own, and each has its own idea of what to do when a read fails.   *)
EXTENDS Integers, Sequences

CONSTANTS
    Pid,         \* the host PID the user gave
    Thread,      \* another host number that may be given as --tid
    Tables,      \* what /proc may show for the two at first
    Newcomers,   \* per number: the tasks that may take it over
    Bystanders,  \* tasks that have other host numbers
    OwnNs,       \* blocksnoop's PID namespace
    OwnMnt,      \* and its mount namespace
    Gone,        \* no entry under /proc
    MaxReuses    \* bound on the numbers given away during one resolution

Numbers == {Pid, Thread}

\* A task: its Tgid and, for its deepest PID namespace, what NSpid says of its
\* process and of itself
IsTask(t) == DOMAIN t = {"tgid", "ns", "ltgid", "local", "mnt"}

\* Threads of one process
Kin(t, u) == t.tgid = u.tgid /\ t.ns = u.ns /\ t.ltgid = u.ltgid

\* What the kernel guarantees at any one time: the threads of a process live in
\* its namespace; a process is known there by the number of its first thread;
\* and a number of a namespace has one holder.
Numbered(table) ==
    \A m, n \in Numbers :
        /\ table[m].tgid = n => Kin(table[m], table[n])
        /\ table[n].tgid = n => table[n].local = table[n].ltgid
        /\ table[m].ns = table[n].ns /\ table[m].local = table[n].local => m = n
        /\ table[m].ns = table[n].ns /\ table[m].ltgid = table[n].local => table[m].tgid = n

KnownTasks == {table[n] : table \in Tables, n \in Numbers} \cup UNION {Newcomers[n] : n \in Numbers}

ASSUME TablesAssumption ==
    /\ \A table \in Tables : table \in [Numbers -> KnownTasks] /\ Numbered(table)
    /\ \A t \in KnownTasks : IsTask(t) /\ t # Gone
    /\ MaxReuses \in Nat

\* A bystander keeps its own number and that of its process
ASSUME BystandersAssumption ==
    \A b \in Bystanders : \A t \in KnownTasks : t.ns = b.ns => t.local \notin {b.local, b.ltgid}

VARIABLES
    procfs,   \* /proc: per number, the task or Gone
    tid,      \* the thread to watch: DetectorConfig.tid
    seen,     \* what the resolution under way has read so far
    reuses,   \* numbers given away during that resolution
    changed,  \* some task of /proc has exited
    wanted    \* the task the user meant

identity == <<procfs, tid, seen, reuses, changed, wanted>>

\* Without --tid, the main thread (DetectorConfig.__post_init__)
IdentityInit ==
    /\ procfs \in Tables
    /\ tid \in Numbers
    /\ seen = <<>>
    /\ reuses = 0
    /\ changed = FALSE
    /\ wanted = procfs[tid]

-----------------------------------------------------------------------------
(* The files each resolution reads, in order, by the number in their path.    *)

\* _check_namespace: both ns/pid, then both status
DoctorReads == <<Pid, tid, Pid, tid>>

\* _build_command: ns/pid and NSpid of the process; status, ns/pid, NSpid of the thread
CoreReads == <<Pid, Pid, tid, tid, tid>>

\* _start: NSpid of the process and of the thread, then ns/pid
BccReads == <<Pid, tid, Pid>>

\* AustinSampler.start: ns/mnt; an unreadable mount namespace counts as the same
\* one, and only a sampler that crosses goes on to both NSpid
Crossing == seen[1] # Gone /\ seen[1].mnt # OwnMnt
SamplerReads == IF seen # <<>> /\ ~ Crossing THEN <<Pid>> ELSE <<Pid, Pid, tid>>

Read(files) ==
    /\ Len(seen) < Len(files)
    /\ seen' = Append(seen, procfs[files[Len(seen) + 1]])
    /\ UNCHANGED <<procfs, tid, reuses, changed, wanted>>

AllRead(files) == Len(seen) = Len(files)
Readable == \A i \in 1 .. Len(seen) : seen[i] # Gone

-----------------------------------------------------------------------------
(* What each makes of it.                                                     *)

\* The thread belongs to the process and shares its PID namespace
DoctorAccepts ==
    /\ Readable
    /\ seen[4].tgid = Pid
    /\ seen[1].ns = seen[2].ns

MutantNoValidation == Readable

\* _validate_target_tid, between the two reads of NSpid; every read may raise
CoreAccepts ==
    /\ Readable
    /\ seen[3].tgid = Pid
    /\ seen[4].ns = seen[1].ns

CoreFilter == [ns |-> seen[1].ns, pid |-> seen[2].local, tid |-> seen[5].local]

\* _resolve_target_ns_tgid and _resolve_ns_pid fall back to the host number
LocalOr(task, number) == IF task = Gone THEN number ELSE task.local

\* _get_pidns_info falls back to blocksnoop's own namespace
BccNamespace == IF seen[3] = Gone THEN OwnNs ELSE seen[3].ns

MutantHostTgid == [ns |-> BccNamespace, pid |-> Pid, tid |-> LocalOr(seen[2], tid)]

\* _build_bpf_source makes a program that compares all three
BccFilter == [ns |-> BccNamespace, pid |-> LocalOr(seen[1], Pid), tid |-> LocalOr(seen[2], tid)]

MutantHostTid ==
    IF Crossing THEN [pid |-> LocalOr(seen[2], Pid), tid |-> tid]
    ELSE [pid |-> Pid, tid |-> tid]

\* A crossing Austin lives in the target's namespaces and numbers tasks as they do
SamplerTarget ==
    IF Crossing THEN [pid |-> LocalOr(seen[2], Pid), tid |-> LocalOr(seen[3], tid)]
    ELSE [pid |-> Pid, tid |-> tid]

\* The tasks whose system calls pass the filter of the probes
LiveTasks == {procfs[n] : n \in Numbers} \ {Gone}
Matches(filter) ==
    {t \in LiveTasks \cup Bystanders : t.ns = filter.ns /\ t.ltgid = filter.pid /\ t.local = filter.tid}

-----------------------------------------------------------------------------
(* The system (external).                                                     *)

\* A thread exits, or a process with all its threads
TaskExits(n) ==
    /\ procfs[n] # Gone
    /\ procfs' = [m \in Numbers |->
                   IF m = n \/ (procfs[m] # Gone /\ procfs[m].tgid = n)
                   THEN Gone ELSE procfs[m]]
    /\ changed' = TRUE
    /\ UNCHANGED <<tid, seen, reuses, wanted>>

NumberReused(n) ==
    /\ procfs[n] = Gone
    /\ reuses < MaxReuses
    /\ \E t \in Newcomers[n] :
          /\ t.tgid \in Numbers \ {n} => procfs[t.tgid] # Gone /\ Kin(t, procfs[t.tgid])
          /\ procfs' = [procfs EXCEPT ![n] = t]
    /\ reuses' = reuses + 1
    /\ UNCHANGED <<tid, seen, changed, wanted>>

TargetMoves == \E n \in Numbers : TaskExits(n) \/ NumberReused(n)
=============================================================================
