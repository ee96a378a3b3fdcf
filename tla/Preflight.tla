------------------------------ MODULE Preflight ------------------------------
(* From "blocksnoop doctor PID" to "blocksnoop PID": the doctor's checks      *)
(* (diagnostics.py), the command's own validation (cli.py, backends.py), and  *)
(* the resolution of the target by sampler and detector up to the moment the  *)
(* probes are attached.  The environment stays as it is; the target may exit  *)
(* and its numbers be reused between any two reads.                           *)
EXTENDS TargetIdentity, FiniteSets

CONSTANTS
    Environments  \* what the host may look like

ASSUME EnvironmentsAssumption ==
    \A e \in Environments :
        /\ \A fact \in {"platform", "root", "austin", "privileges", "pid_namespace_helper",
                      "sidecar"} : e[fact] \in BOOLEAN
        \* BLOCKSNOOP_BPF_OBJECT; the object beside the path of the sidecar that
        \* was found, and beside the executable this path leads to
        /\ e.object_path \in {"unset", "readable", "unreadable"}
        /\ e.object_beside \subseteq {"given", "real"}
        \* Kernel headers: in place, in /usr/src, there but not to be linked
        /\ e.headers \in {"built", "usr_src", "unlinkable", "absent"}
        /\ e.bcc \in {"importable", "broken", "absent"}
        /\ e.mounts \subseteq {"tracing", "debug"}
        /\ e.files \subseteq {"enter", "exit"}

VARIABLES
    env,     \* the host
    opts,    \* the command line: backend, stats, and whether the doctor got a PID
    phase,   \* where the two commands are
    report,  \* the doctor's verdict
    sampler_target, \* what the sampler was told to sample
    filter   \* what the probes were told to watch

preflightVars == <<identity, env, opts, phase, report, sampler_target, filter>>

Options == [backend : {"core", "bcc"}, stats : BOOLEAN, targeted : BOOLEAN]

PreflightInit ==
    /\ IdentityInit
    /\ env \in Environments
    /\ opts \in Options
    /\ phase = "doctor"
    /\ report = "none"
    /\ sampler_target = "none" /\ filter = "none"

-----------------------------------------------------------------------------
(* collect_diagnostics.                                                       *)

\* The first mounted tracefs with a complete pair of epoll tracepoints will do
TracepointsFound == env.mounts # {} /\ env.files = {"enter", "exit"}

\* The object the doctor looks for: around the path it found the sidecar at
ObjectFound ==
    IF env.object_path # "unset" THEN env.object_path = "readable"
    ELSE env.sidecar /\ "given" \in env.object_beside

MutantRequired ==
    {"platform", "root", "tracepoints", "privileges"}
    \cup (IF opts.backend = "bcc" THEN {"bcc"}
          ELSE {"pid_namespace_helper", "sidecar", "bpf_object"})
    \cup (IF opts.targeted THEN {"namespace"} ELSE {})

Required ==
    {"platform", "root", "tracepoints", "privileges"}
    \cup (IF opts.backend = "bcc" THEN {"bcc"}
          ELSE {"pid_namespace_helper", "sidecar", "bpf_object"})
    \cup (IF opts.stats THEN {} ELSE {"austin"})
    \cup (IF opts.targeted THEN {"namespace"} ELSE {})

\* The checks with status "pass"; one that cannot be decided is a "warn".
\* find_spec finds a bcc that does not import
HostPasses == {name \in {"platform", "root", "austin"} : env[name]}
BackendPasses ==
    {name \in {"privileges", "pid_namespace_helper", "sidecar"} : env[name]}
    \cup {name \in {"bpf_object"} : ObjectFound}
    \cup {name \in {"bcc"} : env.bcc # "absent"}
    \cup {name \in {"tracepoints"} : TracepointsFound}
NamespacePasses == {name \in {"namespace"} : opts.targeted /\ DoctorAccepts}

\* No required check short of "pass"
Healthy == Required \subseteq HostPasses \cup BackendPasses \cup NamespacePasses

ReadForDoctor ==
    /\ phase = "doctor"
    /\ opts.targeted
    /\ Read(DoctorReads)
    /\ UNCHANGED <<env, opts, phase, report, sampler_target, filter>>

Report ==
    /\ phase = "doctor"
    /\ opts.targeted => AllRead(DoctorReads)
    /\ report' = IF Healthy THEN "ready" ELSE "not_ready"
    /\ phase' = "validate"
    /\ seen' = <<>> /\ reuses' = 0
    /\ UNCHANGED <<procfs, tid, changed, wanted, env, opts, sampler_target, filter>>

-----------------------------------------------------------------------------
(* main: _validate_environment, then the start of sampler and detector.       *)

\* validate_backend_available imports bcc, or looks for the sidecar
BackendAvailable == IF opts.backend = "bcc" THEN env.bcc = "importable" ELSE env.sidecar

Valid == env.root /\ (opts.stats \/ env.austin) /\ BackendAvailable

Validate ==
    /\ phase = "validate"
    /\ phase' = IF ~ Valid THEN "refused" ELSE IF opts.stats THEN "detector" ELSE "sampler"
    /\ UNCHANGED <<identity, env, opts, report, sampler_target, filter>>

ReadForSampler ==
    /\ phase = "sampler"
    /\ Read(SamplerReads)
    /\ UNCHANGED <<env, opts, phase, report, sampler_target, filter>>

AimSampler ==
    /\ phase = "sampler"
    /\ AllRead(SamplerReads)
    /\ sampler_target' = [crossing |-> Crossing, pid |-> SamplerTarget.pid, tid |-> SamplerTarget.tid]
    /\ phase' = "detector"
    /\ seen' = <<>> /\ reuses' = 0
    /\ UNCHANGED <<procfs, tid, changed, wanted, env, opts, report, filter>>

DetectorReads == IF opts.backend = "bcc" THEN BccReads ELSE CoreReads

ReadForDetector ==
    /\ phase = "detector"
    /\ Read(DetectorReads)
    /\ UNCHANGED <<env, opts, phase, report, sampler_target, filter>>

\* The object the loader looks for: around /proc/self/exe, whatever link led there
ObjectLoads ==
    IF env.object_path # "unset" THEN env.object_path = "readable"
    ELSE "real" \in env.object_beside

\* The loader looks for the object, and for both events under either mount
CoreAttaches == TracepointsFound /\ ObjectLoads

\* _ensure_kernel_headers links what it finds in /usr/src if none are in place;
\* a link that cannot be made raises, and without headers BCC does not compile
HeadersProvided == env.headers \in {"built", "usr_src"}

\* _detect_epoll_syscalls looks for the enter event under debugfs alone; the
\* program needs the exit event too, and the kernel's headers
BccAttaches == "debug" \in env.mounts /\ env.files = {"enter", "exit"} /\ HeadersProvided

\* Either program calls bpf_get_ns_current_pid_tgid
Attachable ==
    /\ env.platform /\ env.privileges /\ env.pid_namespace_helper
    /\ IF opts.backend = "bcc" THEN BccAttaches ELSE CoreAttaches

\* create_detector and start: exactly the backend that was asked for
AimDetector ==
    /\ phase = "detector"
    /\ AllRead(DetectorReads)
    /\ IF Attachable /\ (opts.backend = "core" => CoreAccepts)
       THEN /\ filter' = IF opts.backend = "bcc" THEN BccFilter ELSE CoreFilter
            /\ phase' = "watching"
       ELSE phase' = "refused" /\ UNCHANGED filter
    /\ seen' = <<>>
    /\ UNCHANGED <<procfs, tid, reuses, changed, wanted, env, opts, report, sampler_target>>

\* What comes after the attach is EpollGap's subject
TargetChanges ==
    /\ phase \notin {"refused", "watching"}
    /\ TargetMoves
    /\ UNCHANGED <<env, opts, phase, report, sampler_target, filter>>

PreflightNext ==
    \/ ReadForDoctor \/ Report \/ Validate \/ ReadForSampler \/ AimSampler
    \/ ReadForDetector \/ AimDetector \/ TargetChanges

PreflightSpec == PreflightInit /\ [][PreflightNext]_preflightVars

-----------------------------------------------------------------------------
Watched == Matches(filter)

\* The user's PID and TID do belong together
WellAimed == wanted.tgid = Pid

\* The prerequisites of BCC that the doctor does not look at: bcc is found but
\* not imported, debugfs is not told from tracefs, the helper of kernel 5.7
\* is required for Core only, and nobody looks for kernel headers.
BccUnchecked ==
    /\ opts.backend = "bcc"
    /\ \/ env.bcc = "broken"
       \/ "debug" \notin env.mounts
       \/ ~ env.pid_namespace_helper
       \/ ~ HeadersProvided

\* The one of Core: the doctor finds an object beside a link to the sidecar,
\* and the loader follows the link.
CoreUnchecked ==
    opts.backend = "core" /\ env.object_path = "unset" /\ env.object_beside = {"given"}

Unchecked == BccUnchecked \/ CoreUnchecked

\* "doctor is a useful pre-flight check for the actual command rather than
\* merely for its eBPF half" (collect_diagnostics): a command that is refused,
\* by its validation, by the resolution of its target or at attach, was not
\* called ready for this target before, unless the target has exited since or
\* one of the prerequisites named above is missing.
ReadyMeansRunnable ==
    phase = "refused" /\ report = "ready" /\ opts.targeted =>
        changed \/ Unchecked

\* A target that did not exit is watched, itself and nobody else: Core's probes
\* match exactly its thread; BCC's match it too.  BCC does not ask whether the
\* TID belongs to the process: its probes then match nothing, or a thread of the
\* process that has in there the number which the TID has in a namespace of its own.
WatchesTheTarget ==
    phase = "watching" /\ ~ changed =>
        /\ WellAimed => Watched = {wanted}
        /\ ~ WellAimed =>
              opts.backend = "bcc" /\ \A t \in Watched : t.tgid = Pid /\ t.ns # wanted.ns

\* "Core cannot attach but observe a different process" (_build_command): when
\* the target exits and its numbers are reused while Core reads /proc, its
\* probes still match nobody who never had those numbers.  This takes the reads
\* as they are ordered, and holds up to two reuses: with a third, the namespace
\* of one holder can meet the numbers of another.
CoreSparesBystanders ==
    phase = "watching" /\ opts.backend = "core" /\ reuses <= 2 => Watched \cap Bystanders = {}

\* The comment in AustinSampler.start: without both translations "every sample
\* ... gets rejected as wrong tid".  The thread the sampler keeps is the one the
\* probes watch, numbered as Austin sees it from where it runs.
SamplerAgrees ==
    phase = "watching" /\ ~ changed /\ WellAimed /\ ~ opts.stats =>
        LET t == CHOOSE t \in Watched : TRUE
        IN  IF sampler_target.crossing
            THEN sampler_target.pid = t.ltgid /\ sampler_target.tid = t.local
            ELSE sampler_target.pid = t.tgid /\ sampler_target.tid = tid

\* The same promise for the BCC backend, whose resolution falls back to the
\* host's numbers and namespace.
BccSparesBystanders ==
    phase = "watching" /\ opts.backend = "bcc" => Watched \cap Bystanders = {}

\* The doctor's promise for every backend: README.md offers "blocksnoop doctor
\* --backend bcc" and retains BCC for "hosts that cannot run the supported Core
\* path, such as older kernels".
ReadyMeansRunnableForAll ==
    phase = "refused" /\ report = "ready" /\ opts.targeted => changed

-----------------------------------------------------------------------------
(* The inductive invariant of the proofs.                                     *)

PreflightTypeOK ==
    /\ procfs \in [Numbers -> KnownTasks \cup {Gone}]
    /\ tid \in Numbers
    /\ seen \in Seq(KnownTasks \cup {Gone})
    /\ reuses \in 0 .. MaxReuses
    /\ env \in Environments
    /\ opts \in Options
    /\ phase \in {"doctor", "validate", "sampler", "detector", "watching", "refused"}

\* The reads of the resolution under way; a sampler may stop after the first
Paths ==
    IF phase = "doctor" THEN DoctorReads
    ELSE IF phase = "sampler" THEN <<Pid, Pid, tid>> ELSE DetectorReads

\* A thread in /proc has its process there
ThreadsHaveProcess ==
    \A n \in Numbers :
        procfs[n] # Gone /\ procfs[n].tgid \in Numbers =>
            procfs[procfs[n].tgid] # Gone /\ Kin(procfs[n], procfs[procfs[n].tgid])

\* Until something exits, all that was read describes one and the same table
Snapshot ==
    /\ phase \in {"validate", "watching", "refused"} => seen = <<>>
    /\ Len(seen) <= Len(Paths)
    /\ ~ changed =>
          /\ procfs \in Tables
          /\ wanted = procfs[tid]
          /\ \A i \in 1 .. Len(seen) : seen[i] = procfs[Paths[i]]

DoctorIsRight ==
    report = "ready" =>
        /\ (Valid /\ Attachable) \/ Unchecked
        /\ opts.targeted /\ ~ changed => WellAimed

\* Where sampler and probes look, if nothing has exited
AimedAtTable ==
    ~ changed =>
        /\ phase = "watching" =>
              /\ filter = [ns |-> procfs[Pid].ns, pid |-> procfs[Pid].local, tid |-> wanted.local]
              /\ opts.backend = "core" => WellAimed
        /\ phase \in {"detector", "watching"} /\ ~ opts.stats =>
              sampler_target = IF procfs[Pid].mnt # OwnMnt
                               THEN [crossing |-> TRUE, pid |-> procfs[Pid].local, tid |-> wanted.local]
                               ELSE [crossing |-> FALSE, pid |-> Pid, tid |-> tid]

\* Outside of the namespace that Core read first
Elsewhere(t) == t # Gone /\ t.ns # seen[1].ns
JoinedPid(t) == t # Gone /\ t.tgid = Pid

\* How many reuses it takes that Core has read what it has read, and that /proc
\* is as it is now.  Only reads that Core accepts matter: Slipped(k) says that
\* the second was of another namespace, and the next ones up to k went through.
Slipped(k) ==
    /\ Len(seen) >= k
    /\ seen[2].ns # seen[1].ns
    /\ k >= 3 => seen[3].tgid = Pid
    /\ k >= 4 => seen[4].ns = seen[1].ns

ReusesNeeded ==
    phase = "detector" /\ opts.backend = "core" /\ Readable =>
        /\ Len(seen) >= 1 /\ Elsewhere(procfs[Pid]) =>
              reuses >= 1 /\ (tid # Pid /\ JoinedPid(procfs[tid]) => reuses >= 2)
        /\ Slipped(2) =>
              /\ reuses >= 1
              /\ reuses = 1 /\ procfs[Pid] # Gone => Elsewhere(procfs[Pid])
              /\ tid # Pid /\ JoinedPid(procfs[tid]) =>
                    reuses >= 2 /\ (reuses = 2 => Elsewhere(procfs[tid]))
        /\ Slipped(3) /\ tid # Pid =>
              reuses >= 2 /\ (reuses = 2 /\ procfs[tid] # Gone => Elsewhere(procfs[tid]))
        /\ Slipped(4) => reuses >= 2 /\ (reuses = 2 => tid = Pid /\ ~ Elsewhere(procfs[Pid]))
        /\ Slipped(5) /\ seen[5].ns # seen[1].ns => reuses >= 3

PreflightInv ==
    /\ PreflightTypeOK
    /\ ThreadsHaveProcess
    /\ Snapshot
    /\ DoctorIsRight
    /\ ReadyMeansRunnable
    /\ AimedAtTable
    /\ ReusesNeeded
    /\ CoreSparesBystanders
=============================================================================
