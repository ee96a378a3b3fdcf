---------------------------- MODULE CoreDetector ----------------------------
(* blocksnoop/core_backend.py: the client thread that starts, watches and     *)
(* stops the sidecar, the reader thread that turns the sidecar's NDJSON lines *)
(* into callbacks and flags, and the sidecar at the other end of the pipe.    *)
(* Flags are shared between the two threads without a lock.                   *)
EXTENDS Accumulation

CONSTANTS
    MaxSessions,    \* bound on the start() calls that launch a sidecar
    MaxLines,       \* bound on the lines one sidecar writes
    PipeCapacity,   \* lines that fit in the pipe
    JoinMayTimeOut  \* whether reader.join(timeout=2) may give up on a busy reader

ASSUME CoreBoundsAssumption ==
    MaxSessions \in Nat /\ MaxLines \in Nat /\ PipeCapacity \in Nat \ {0}
ASSUME JoinAssumption == JoinMayTimeOut \in BOOLEAN

Sessions == 1 .. MaxSessions

\* A line by what _handle_line makes of it: a ready that matches the request, a
\* valid event, an event that is skipped, a valid loss record, and everything
\* that calls _set_error (fatal, malformed, wrong version, mismatching ready)
Lines == {"ready", "event", "ignored", "lost", "error"}

VARIABLES
    pc,              \* where the client thread is
    session,         \* sidecars launched so far
    process,         \* self._process: 0 for None
    victim,          \* the process _cleanup_locked took over
    after,           \* where the client goes when stop returns
    ready,           \* self._ready
    stop_requested,  \* self._stop_requested
    startup_error,   \* self._startup_error is not None
    runtime_error,   \* self._runtime_error is not None
    loss_counts,     \* self._loss_counts, summed
    reported,        \* the losses the final summary was given
    sidecar,         \* per session: "none", "alive", "exited"
    signalled,       \* per session: SIGTERM was sent
    pipe,            \* per session: the sidecar's stdout
    reader,          \* per session: where the reader thread is
    source,          \* per session: the process whose stdout the thread reads
    line,            \* per session: the line the thread handles
    resume,          \* per session: where the thread goes after _set_error
    \* What really happened, for the properties:
    written,         \* per session: every line the sidecar wrote
    faulty,          \* per session: it wrote an error line or died unasked
    handshaken,      \* per session: a matching ready was handled
    delivered        \* per session: events handed to the callback

client == <<pc, session, process, victim, after, reported>>
flags == <<ready, stop_requested, startup_error, runtime_error, loss_counts>>
world == <<sidecar, signalled, pipe, written, faulty>>
threads == <<reader, source, line, resume, handshaken, delivered>>
vars == <<client, flags, world, threads>>

Init ==
    /\ pc = "idle" /\ session = 0 /\ process = 0 /\ victim = 0 /\ after = "stopped"
    /\ ready = FALSE /\ stop_requested = FALSE
    /\ startup_error = FALSE /\ runtime_error = FALSE
    /\ loss_counts = 0 /\ reported = 0
    /\ sidecar = [s \in Sessions |-> "none"]
    /\ signalled = [s \in Sessions |-> FALSE]
    /\ pipe = [s \in Sessions |-> <<>>]
    /\ reader = [s \in Sessions |-> "none"]
    /\ source = [s \in Sessions |-> 0]
    /\ line = [s \in Sessions |-> "ignored"]
    /\ resume = [s \in Sessions |-> "done"]
    /\ written = [s \in Sessions |-> <<>>]
    /\ faulty = [s \in Sessions |-> FALSE]
    /\ handshaken = [s \in Sessions |-> FALSE]
    /\ delivered = [s \in Sessions |-> 0]

-----------------------------------------------------------------------------
(* stop and _cleanup_locked.                                                  *)

MutantStopForgetsFlag(next) ==
    /\ victim' = process /\ process' = 0 /\ after' = next
    /\ pc' = "terminating"
    /\ UNCHANGED <<session, reported, flags>>

BeginStop(next) ==
    /\ stop_requested' = TRUE
    /\ victim' = process
    /\ process' = 0
    /\ after' = next
    /\ pc' = "terminating"
    /\ UNCHANGED <<session, reported, ready, startup_error, runtime_error, loss_counts>>

\* stop is safe before start and more than once
Stop ==
    /\ pc \in {"idle", "running", "raised", "stopped"}
    /\ BeginStop("stopped")
    /\ UNCHANGED <<world, threads>>

Terminate ==
    /\ pc = "terminating"
    /\ IF victim = 0
       THEN pc' = after /\ UNCHANGED signalled
       ELSE /\ pc' = "waiting"
            /\ signalled' = [signalled EXCEPT ![victim] = @ \/ sidecar[victim] = "alive"]
    /\ UNCHANGED <<session, process, victim, after, reported, flags>>
    /\ UNCHANGED <<sidecar, pipe, written, faulty, threads>>

Wait ==
    /\ pc = "waiting"
    /\ sidecar[victim] = "exited"
    /\ pc' = "joining"
    /\ UNCHANGED <<session, process, victim, after, reported, flags, world, threads>>

\* The sidecar does not exit within the two seconds
Kill ==
    /\ pc = "waiting"
    /\ sidecar[victim] = "alive"
    /\ sidecar' = [sidecar EXCEPT ![victim] = "exited"]
    /\ pc' = "joining"
    /\ UNCHANGED <<session, process, victim, after, reported, flags>>
    /\ UNCHANGED <<signalled, pipe, written, faulty, threads>>

MutantNoJoin ==
    /\ pc = "joining"
    /\ pc' = after
    /\ UNCHANGED <<session, process, victim, after, reported, flags, world, threads>>

Join ==
    /\ pc = "joining"
    /\ reader[victim] = "done"
    /\ pc' = after
    /\ UNCHANGED <<session, process, victim, after, reported, flags, world, threads>>

MutantJoinForever == FALSE

JoinTimesOut ==
    /\ JoinMayTimeOut
    /\ pc = "joining"
    /\ reader[victim] # "done"
    /\ pc' = after
    /\ UNCHANGED <<session, process, victim, after, reported, flags, world, threads>>

-----------------------------------------------------------------------------
(* start, check_health and the final report.                                  *)

\* find_sidecar returns None
StartWithoutSidecar ==
    /\ pc \in {"idle", "reported"}
    /\ pc' = "raised"
    /\ UNCHANGED <<session, process, victim, after, reported, flags, world, threads>>

StartReset ==
    /\ pc \in {"idle", "reported"}
    /\ session < MaxSessions
    /\ session' = session + 1
    /\ ready' = FALSE /\ stop_requested' = FALSE
    /\ startup_error' = FALSE /\ runtime_error' = FALSE
    /\ loss_counts' = 0
    /\ pc' = "spawning"
    /\ UNCHANGED <<process, victim, after, reported, world, threads>>

\* _build_command or Popen raises
SpawnFails ==
    /\ pc = "spawning"
    /\ pc' = "raised"
    /\ UNCHANGED <<session, process, victim, after, reported, flags, world, threads>>

Spawn ==
    /\ pc = "spawning"
    /\ process' = session
    /\ sidecar' = [sidecar EXCEPT ![session] = "alive"]
    /\ reader' = [reader EXCEPT ![session] = "starting"]
    /\ pc' = "awaiting"
    /\ UNCHANGED <<session, victim, after, reported, flags>>
    /\ UNCHANGED <<signalled, pipe, written, faulty>>
    /\ UNCHANGED <<source, line, resume, handshaken, delivered>>

MutantAwaitReady ==
    /\ pc = "awaiting"
    /\ ready
    /\ pc' = "running"
    /\ UNCHANGED <<session, process, victim, after, reported, flags, world, threads>>

\* ready.wait returns: the handshake failed or it is complete
AwaitReady ==
    /\ pc = "awaiting"
    /\ ready
    /\ \/ startup_error /\ BeginStop("raised")
       \/ /\ ~ startup_error
          /\ pc' = "running"
          /\ UNCHANGED <<session, process, victim, after, reported, flags>>
    /\ UNCHANGED <<world, threads>>

MutantTimeoutLeaks ==
    /\ pc = "awaiting"
    /\ ~ ready
    /\ process' = 0
    /\ pc' = "raised"
    /\ UNCHANGED <<session, victim, after, reported, flags, world, threads>>

ReadyTimesOut ==
    /\ pc = "awaiting"
    /\ ~ ready
    /\ BeginStop("raised")
    /\ UNCHANGED <<world, threads>>

\* A signal handler calls stop while start waits and never resumes it
InterruptStart ==
    /\ pc = "awaiting"
    /\ BeginStop("stopped")
    /\ UNCHANGED <<world, threads>>

MutantPollOnly ==
    /\ pc = "running"
    /\ sidecar[process] = "exited"
    /\ pc' = "raised"
    /\ UNCHANGED <<session, process, victim, after, reported, flags, world, threads>>

CheckHealthRaises ==
    /\ pc = "running"
    /\ runtime_error \/ (sidecar[process] = "exited" /\ ~ stop_requested)
    /\ pc' = "raised"
    /\ UNCHANGED <<session, process, victim, after, reported, flags, world, threads>>

\* _on_exit reads loss_counts for the session summary
Report ==
    /\ pc = "stopped"
    /\ reported' = loss_counts
    /\ pc' = "reported"
    /\ UNCHANGED <<session, process, victim, after, flags, world, threads>>

-----------------------------------------------------------------------------
(* _read_messages on the thread of session r.                                 *)

\* _set_error: after the handshake it keeps the first error for check_health;
\* before, it fails the handshake and wakes start in a second step
SetError(r, next) ==
    IF ready
    THEN /\ runtime_error' = TRUE
         /\ reader' = [reader EXCEPT ![r] = next]
         /\ UNCHANGED <<ready, startup_error, resume>>
    ELSE /\ startup_error' = TRUE
         /\ reader' = [reader EXCEPT ![r] = "waking"]
         /\ resume' = [resume EXCEPT ![r] = next]
         /\ UNCHANGED <<ready, runtime_error>>

Wake(r) ==
    /\ reader[r] = "waking"
    /\ ready' = TRUE
    /\ reader' = [reader EXCEPT ![r] = resume[r]]
    /\ UNCHANGED <<client, world, stop_requested, startup_error, runtime_error, loss_counts>>
    /\ UNCHANGED <<source, line, resume, handshaken, delivered>>

\* The thread looks self._process up when it first runs: stop may have taken it
ReaderStart(r) ==
    /\ reader[r] = "starting"
    /\ \/ /\ process = 0
          /\ SetError(r, "done")
          /\ UNCHANGED source
       \/ /\ process # 0
          /\ source' = [source EXCEPT ![r] = process]
          /\ reader' = [reader EXCEPT ![r] = "reading"]
          /\ UNCHANGED <<ready, startup_error, runtime_error, resume>>
    /\ UNCHANGED <<client, world, stop_requested, loss_counts, line, handshaken, delivered>>

ReadLine(r) ==
    /\ reader[r] = "reading"
    /\ pipe[source[r]] # <<>>
    /\ line' = [line EXCEPT ![r] = Head(pipe[source[r]])]
    /\ pipe' = [pipe EXCEPT ![source[r]] = Tail(@)]
    /\ reader' = [reader EXCEPT ![r] = "handling"]
    /\ UNCHANGED <<client, flags, sidecar, signalled, written, faulty>>
    /\ UNCHANGED <<source, resume, handshaken, delivered>>

HandleReady(r) ==
    /\ line[r] = "ready"
    /\ ready' = TRUE
    /\ handshaken' = [handshaken EXCEPT ![source[r]] = TRUE]
    /\ reader' = [reader EXCEPT ![r] = "reading"]
    /\ UNCHANGED <<startup_error, runtime_error, loss_counts, delivered, resume>>

\* The callback may raise: the exception is logged and reading goes on
HandleEvent(r) ==
    /\ line[r] \in {"event", "ignored"}
    /\ delivered' = [delivered EXCEPT ![source[r]] = @ + (IF line[r] = "event" THEN 1 ELSE 0)]
    /\ reader' = [reader EXCEPT ![r] = "reading"]
    /\ UNCHANGED <<ready, startup_error, runtime_error, loss_counts, handshaken, resume>>

MutantHandleLost(r) ==
    /\ line[r] = "lost"
    /\ loss_counts' = IF stop_requested THEN loss_counts ELSE loss_counts + 1
    /\ reader' = [reader EXCEPT ![r] = "reading"]
    /\ UNCHANGED <<ready, startup_error, runtime_error, handshaken, delivered, resume>>

HandleLost(r) ==
    /\ line[r] = "lost"
    /\ loss_counts' = loss_counts + 1
    /\ reader' = [reader EXCEPT ![r] = "reading"]
    /\ UNCHANGED <<ready, startup_error, runtime_error, handshaken, delivered, resume>>

HandleBad(r) ==
    /\ line[r] = "error"
    /\ SetError(r, "reading")
    /\ UNCHANGED <<loss_counts, handshaken, delivered>>

HandleLine(r) ==
    /\ reader[r] = "handling"
    /\ HandleReady(r) \/ HandleEvent(r) \/ HandleLost(r) \/ HandleBad(r)
    /\ UNCHANGED <<client, world, stop_requested, source, line>>

\* End of file is an error unless a stop was requested or one is known already
ReadEOF(r) ==
    /\ reader[r] = "reading"
    /\ pipe[source[r]] = <<>>
    /\ sidecar[source[r]] = "exited"
    /\ IF stop_requested \/ startup_error \/ runtime_error
       THEN /\ reader' = [reader EXCEPT ![r] = "done"]
            /\ UNCHANGED <<ready, startup_error, runtime_error, resume>>
       ELSE SetError(r, "done")
    /\ UNCHANGED <<client, world, stop_requested, loss_counts>>
    /\ UNCHANGED <<source, line, handshaken, delivered>>

-----------------------------------------------------------------------------
(* The sidecar of session s.                                                  *)

Write(s, l) ==
    /\ sidecar[s] = "alive"
    /\ Len(written[s]) < MaxLines
    /\ Len(pipe[s]) < PipeCapacity
    /\ pipe' = [pipe EXCEPT ![s] = Append(@, l)]
    /\ written' = [written EXCEPT ![s] = Append(@, l)]
    /\ faulty' = [faulty EXCEPT ![s] = @ \/ l = "error"]
    /\ UNCHANGED <<client, flags, sidecar, signalled, threads>>

\* It obeys SIGTERM, fails, or crashes
Exit(s) ==
    /\ sidecar[s] = "alive"
    /\ sidecar' = [sidecar EXCEPT ![s] = "exited"]
    /\ faulty' = [faulty EXCEPT ![s] = @ \/ ~ signalled[s]]
    /\ UNCHANGED <<client, flags, signalled, pipe, written, threads>>

ClientStep ==
    \/ StartWithoutSidecar \/ StartReset \/ SpawnFails \/ Spawn
    \/ AwaitReady \/ ReadyTimesOut \/ InterruptStart \/ CheckHealthRaises
    \/ Stop \/ Terminate \/ Wait \/ Kill \/ Join \/ JoinTimesOut \/ Report

ReaderStep(r) ==
    ReaderStart(r) \/ ReadLine(r) \/ HandleLine(r) \/ Wake(r) \/ ReadEOF(r)

SidecarStep(s) == Exit(s) \/ \E l \in Lines : Write(s, l)

Next == ClientStep \/ \E s \in Sessions : ReaderStep(s) \/ SidecarStep(s)

Spec == Init /\ [][Next]_vars

\* Every wait of the client has a timeout, so a call it is in goes on
InsideCall ==
    AwaitReady \/ ReadyTimesOut \/ SpawnFails \/ Spawn
    \/ Terminate \/ Wait \/ Kill \/ Join \/ JoinTimesOut

ClientFairSpec == Spec /\ WF_vars(InsideCall)

\* The wait loop keeps calling check_health, and the callbacks of the reader
\* thread return
HealthIsPolled ==
    /\ WF_vars(CheckHealthRaises)
    /\ \A r \in Sessions : WF_vars(ReaderStep(r))

-----------------------------------------------------------------------------
Resting == {"idle", "running", "raised", "stopped", "reported"}

\* The variables of the detector have their types.
TypeOK ==
    /\ pc \in Resting \cup {"spawning", "awaiting", "terminating", "waiting", "joining"}
    /\ session \in 0 .. MaxSessions
    /\ process \in 0 .. session
    /\ victim \in 0 .. session
    /\ after \in {"raised", "stopped"}
    /\ ready \in BOOLEAN /\ stop_requested \in BOOLEAN
    /\ startup_error \in BOOLEAN /\ runtime_error \in BOOLEAN
    /\ loss_counts \in Nat /\ reported \in Nat
    /\ sidecar \in [Sessions -> {"none", "alive", "exited"}]
    /\ signalled \in [Sessions -> BOOLEAN]
    /\ pipe \in [Sessions -> Seq(Lines)]
    /\ reader \in [Sessions -> {"none", "starting", "reading", "handling", "waking", "done"}]
    /\ source \in [Sessions -> 0 .. MaxSessions]
    /\ line \in [Sessions -> Lines]
    /\ resume \in [Sessions -> {"reading", "done"}]
    /\ faulty \in [Sessions -> BOOLEAN]
    /\ handshaken \in [Sessions -> BOOLEAN]

\* start returns normally only for a sidecar whose matching ready was handled,
\* although the same event wakes it for a failed handshake.
StartedMeansReady == pc = "running" => handshaken[process]

\* Whichever way start fails, is interrupted, or stop returns, no sidecar
\* outlives the call: one that is alive is still held by the detector.
NoSidecarLeak ==
    \A s \in Sessions : sidecar[s] = "alive" =>
        process = s \/ (victim = s /\ pc \in {"terminating", "waiting"})

\* stop suppresses the expected end of file: a runtime error is recorded only
\* for a sidecar that wrote an error line or exited without being asked to.
StopIsSilent == runtime_error => session > 0 /\ faulty[session]

\* The process the client holds is the current session's, and later sessions
\* have not begun
HeldProcess ==
    /\ pc \notin {"awaiting", "running", "raised"} => process = 0
    /\ pc \in {"awaiting", "running"} => process = session
    /\ pc \in {"spawning", "awaiting", "running"} => session > 0
    /\ pc \in {"waiting", "joining"} => victim # 0
    /\ process # 0 => process = session
    /\ \A s \in Sessions :
          s > session \/ (pc = "spawning" /\ s = session) =>
              sidecar[s] = "none" /\ reader[s] = "none" /\ ~ signalled[s]

\* The only thread at work is that of the current session; it reads its own
\* sidecar, and it is past or joined before the flags are reset
ReaderPlace ==
    \A r \in Sessions : reader[r] \notin {"none", "done"} =>
        /\ r = session
        /\ r = process \/ (victim = r /\ pc \in {"terminating", "waiting", "joining"})
        /\ reader[r] \in {"reading", "handling"} => source[r] = r
        /\ reader[r] = "waking" => startup_error /\ (resume[r] = "reading" => source[r] = r)
        /\ reader[r] = "starting" => ~ ready
        /\ reader[r] = "handling" /\ line[r] = "error" => faulty[r]

\* start sees ready without an error only after a handshake
Handshake ==
    /\ pc = "spawning" => ~ ready
    /\ pc = "awaiting" /\ ready /\ ~ startup_error => handshaken[process]
    /\ StartedMeansReady

\* Before a stop is requested, an end of file and an error line have a culprit
Blame ==
    /\ pc \in {"terminating", "waiting", "joining"} => stop_requested
    /\ \A s \in Sessions : \A i \in 1 .. Len(pipe[s]) : pipe[s][i] = "error" => faulty[s]
    /\ \A s \in Sessions : s = session /\ ~ stop_requested =>
          ~ signalled[s] /\ (sidecar[s] = "exited" => faulty[s])
    /\ StopIsSilent

\* The inductive invariant behind StartedMeansReady and StopIsSilent when join
\* does not give up on the reader.
DetectorInv ==
    TypeOK /\ HeldProcess /\ NoSidecarLeak /\ ReaderPlace /\ Handshake /\ Blame

\* How many of the lines are an l
Marks(l, lines) == [i \in 1 .. Len(lines) |-> IF lines[i] = l THEN 1 ELSE 0]
Count(l, lines) == Total(Marks(l, lines))

\* stop's comment (core_backend.py): "Keep readers alive until EOF so any loss
\* records already in the pipe reach the CLI summary": the summary of a session
\* that got its ready counts every loss record its sidecar wrote, and every
\* event reached the callback.
LossesReachSummary ==
    pc = "reported" /\ session > 0 /\ handshaken[session] =>
        /\ reported = Count("lost", written[session])
        /\ delivered[session] = Count("event", written[session])

\* A session that has not begun has left no trace
Untouched ==
    /\ written \in [Sessions -> Seq(Lines)] /\ delivered \in [Sessions -> Nat]
    /\ \A s \in Sessions : s > session \/ (pc = "spawning" /\ s = session) =>
          written[s] = <<>> /\ pipe[s] = <<>> /\ ~ faulty[s] /\ delivered[s] = 0

\* What the current sidecar wrote has been counted, is in the hands of the
\* reader, or is still in the pipe
InHand(l) == IF reader[session] = "handling" /\ line[session] = l THEN 1 ELSE 0
Balance == session > 0 =>
    /\ Count("lost", written[session]) =
           loss_counts + InHand("lost") + Count("lost", pipe[session])
    /\ Count("event", written[session]) =
           delivered[session] + InHand("event") + Count("event", pipe[session])

\* A reader that saw a handshake gives up only at the end of file
Drained ==
    /\ pc = "reported" => reported = loss_counts
    /\ \A r \in Sessions :
          /\ reader[r] \in {"none", "starting"} => ~ handshaken[r]
          /\ reader[r] = "done" \/ (reader[r] = "waking" /\ resume[r] = "done") =>
                 ~ handshaken[r] \/ (pipe[r] = <<>> /\ sidecar[r] = "exited")

\* The inductive invariant behind LossesReachSummary and the refinement of the
\* Detector protocol.
LedgerInv == DetectorInv /\ Untouched /\ Balance /\ Drained

\* start and stop return, whatever the sidecar and the reader thread do.
CallsReturn == (pc \notin Resting) ~> (pc \in Resting)

\* A sidecar that reports an error or dies while the session runs ends the
\* session: check_health raises, unless the client stops first.
FailureSurfaces ==
    HealthIsPolled => ((pc = "running" /\ faulty[process]) ~> (pc # "running"))

\* The protocol of core.py, as the client sees it.  A detector whose start has
\* raised, or that has been stopped, holds no process
Status ==
    IF pc \in {"terminating", "waiting", "joining"} THEN "stopping"
    ELSE IF pc \in {"spawning", "awaiting"} THEN "starting"
    ELSE IF pc = "running" THEN "on"
    ELSE IF process # 0 THEN "condemned" ELSE "off"
Delivered == IF session = 0 THEN 0 ELSE delivered[session]
Failed == session > 0 /\ faulty[session]

Contract == INSTANCE Detector WITH
    status <- Status, delivered <- Delivered, losses <- loss_counts, failed <- Failed

\* CoreDetector implements the Detector protocol as long as join does not give
\* up on the reader: the callback is not entered after stop, a health check
\* blames only a sidecar that failed, and no session sees another's events.
ImplementsDetector == Contract!Spec
=============================================================================
