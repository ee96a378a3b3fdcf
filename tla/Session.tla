------------------------------- MODULE Session -------------------------------
(* blocksnoop/cli.py: one session from main() to its exit.  The main thread   *)
(* runs _run_loop; SIGINT and SIGTERM interrupt it between any two of its     *)
(* steps and run _shutdown on top of whatever it was doing, on the same       *)
(* thread.  _cleanup runs at most once, either in _run_loop's own frame or in *)
(* the handler's; a later signal finds cleaned_up set, does nothing but raise *)
(* SystemExit, and so unwinds the running cleanup.                            *)
EXTENDS Integers, Sequences

CONSTANTS
    MaxSignals,     \* bound on the signals sent to blocksnoop
    StartHoldsLock  \* the detector's start and stop share a non-reentrant lock
                    \* (CoreDetector); FALSE for BccDetector

ASSUME SessionAssumption == MaxSignals \in Nat /\ StartHoldsLock \in BOOLEAN

VARIABLES
    pc,           \* where _run_loop's frame (and main's around it) is
    cleaned_up,   \* _run_loop's flag
    stage,        \* the step of _cleanup that runs next, "none" outside it
    owner,        \* the frame _cleanup runs in: "none", "base" or "handler"
    reason,       \* its termination_reason
    raising,      \* the exception _cleanup ends with: "no", "error", "SystemExit"
    handlers,     \* _shutdown is installed
    detector_up,  \* the sidecar runs
    sampler_up,   \* Austin runs
    sampler_held, \* and the sampler knows of it (its _austin is set)
    child,        \* the launched target: "none", "running", "exited", "reaped"
    child_ok,     \* it exited with status 0
    summaries,    \* the session_summary records written, by reason
    exit,         \* how blocksnoop ends: "no", "ok", "child", "signal", "error", "policy"
    signals,      \* signals sent so far
    \* What really happened, for the properties:
    cut,          \* a signal landed inside the cleanup
    sinks_failed  \* on_exit raised

teardown == <<cleaned_up, stage, owner, reason, raising>>
sampling == <<sampler_up, sampler_held>>
services == <<detector_up, sampling>>
target == <<child, child_ok>>
ghosts == <<cut, sinks_failed>>
vars == <<pc, teardown, handlers, services, target, summaries, exit, signals, ghosts>>

Init ==
    /\ pc = "main"
    /\ cleaned_up = FALSE /\ stage = "none" /\ owner = "none"
    /\ reason = "none" /\ raising = "no"
    /\ handlers = FALSE
    /\ detector_up = FALSE /\ sampler_up = FALSE /\ sampler_held = FALSE
    /\ child = "none" /\ child_ok = FALSE
    /\ summaries = <<>>
    /\ exit = "no"
    /\ signals = 0
    /\ cut = FALSE /\ sinks_failed = FALSE

\* The points of the try body that a handler interrupts and never resumes
TryBody == {"reporter", "sampler", "detector", "spawned", "await", "unwind", "loop"}

\* The base frame runs unless a handler is on top of it
BaseRuns == owner # "handler"

\* The interrupted start() holds the detector's lock: while it launches the
\* sidecar, and inside its own stop() after a failed handshake
LockHeldByStart == StartHoldsLock /\ pc \in {"detector", "spawned", "unwind"}

-----------------------------------------------------------------------------
(* main, up to _run_loop.                                                     *)

\* A command is launched, or an existing process is the target
Launch ==
    /\ pc = "main"
    /\ child' \in {"none", "running"}
    /\ pc' = "sinks"
    /\ UNCHANGED <<teardown, handlers, services, child_ok, summaries, exit, signals, ghosts>>

\* _build_sinks (a log file that cannot be opened) or the detector's set-up raises
SinksFail ==
    /\ pc = "sinks"
    /\ pc' = "exited"
    /\ exit' = "error"
    /\ UNCHANGED <<teardown, handlers, services, target, summaries, signals, ghosts>>

InstallHandlers ==
    /\ pc = "sinks"
    /\ handlers' = TRUE
    /\ pc' = "reporter"
    /\ UNCHANGED <<teardown, services, target, summaries, exit, signals, ghosts>>

-----------------------------------------------------------------------------
(* _start: reporter, sampler, detector, and the wait loop.                    *)

BeginCleanup(frame, termination_reason, exception) ==
    /\ cleaned_up' = TRUE
    /\ stage' = "detector"
    /\ owner' = frame
    /\ reason' = termination_reason
    /\ raising' = exception

\* An exception leaves the try body: "except BaseException: _cleanup(...); raise"
BaseFails ==
    /\ BeginCleanup("base", "runtime_error", "error")
    /\ pc' = "cleanup"

StartReporter ==
    /\ BaseRuns /\ pc = "reporter"
    /\ pc' = "sampler"
    /\ UNCHANGED <<teardown, handlers, services, target, summaries, exit, signals, ghosts>>

StartSampler ==
    /\ BaseRuns /\ pc = "sampler"
    /\ sampler_up' = TRUE /\ sampler_held' = TRUE
    /\ pc' = "detector"
    /\ UNCHANGED <<teardown, handlers, detector_up, target, summaries, exit, signals, ghosts>>

MutantStartOutsideTry ==
    /\ BaseRuns /\ pc \in {"reporter", "sampler", "detector"}
    /\ pc' = "exited" /\ exit' = "error"
    /\ UNCHANGED <<teardown, handlers, services, target, summaries, signals, ghosts>>

\* reporter.start, sampler.start, or detector.start before there is a sidecar
StartRaises ==
    /\ BaseRuns /\ pc \in {"reporter", "sampler", "detector"}
    /\ BaseFails
    /\ UNCHANGED <<handlers, services, target, summaries, exit, signals, ghosts>>

SpawnDetector ==
    /\ BaseRuns /\ pc = "detector"
    /\ detector_up' = TRUE
    /\ pc' = "spawned"
    /\ UNCHANGED <<teardown, handlers, sampling, target, summaries, exit, signals, ghosts>>

ReleaseLock ==
    /\ BaseRuns /\ pc = "spawned"
    /\ pc' = "await"
    /\ UNCHANGED <<teardown, handlers, services, target, summaries, exit, signals, ghosts>>

HandshakeDone ==
    /\ BaseRuns /\ pc = "await"
    /\ pc' = "loop"
    /\ UNCHANGED <<teardown, handlers, services, target, summaries, exit, signals, ghosts>>

\* No ready in time, or an error instead: start calls stop, then raises
HandshakeFails ==
    /\ BaseRuns /\ pc = "await"
    /\ pc' = "unwind"
    /\ UNCHANGED <<teardown, handlers, services, target, summaries, exit, signals, ghosts>>

StartUnwinds ==
    /\ BaseRuns /\ pc = "unwind"
    /\ detector_up' = FALSE
    /\ BaseFails
    /\ UNCHANGED <<handlers, sampling, target, summaries, exit, signals, ghosts>>

HealthFails ==
    /\ BaseRuns /\ pc = "loop"
    /\ BaseFails
    /\ UNCHANGED <<handlers, services, target, summaries, exit, signals, ghosts>>

MutantChildAlwaysClean ==
    /\ BaseRuns /\ pc = "loop"
    /\ child = "exited"
    /\ child' = "reaped"
    /\ BeginCleanup("base", "clean", "no")
    /\ pc' = "cleanup"
    /\ UNCHANGED <<handlers, services, child_ok, summaries, exit, signals, ghosts>>

\* poll() sees that the child has exited and wait() reaps it
ChildSeen ==
    /\ BaseRuns /\ pc = "loop"
    /\ child = "exited"
    /\ child' = "reaped"
    /\ BeginCleanup("base", IF child_ok THEN "clean" ELSE "child_exit", "no")
    /\ pc' = "cleanup"
    /\ UNCHANGED <<handlers, services, child_ok, summaries, exit, signals, ghosts>>

\* The environment
ChildEnds ==
    /\ child = "running"
    /\ child' = "exited"
    /\ child_ok' \in BOOLEAN
    /\ UNCHANGED <<pc, teardown, handlers, services, summaries, exit, signals, ghosts>>

-----------------------------------------------------------------------------
(* _cleanup, in either frame.                                                 *)

\* detector.stop() waits for the lock of the frame it interrupted
StopBlocked == owner = "handler" /\ LockHeldByStart

StopDetector ==
    /\ stage = "detector"
    /\ ~ StopBlocked
    /\ detector_up' = FALSE
    /\ stage' = "sampler"
    /\ UNCHANGED <<pc, cleaned_up, owner, reason, raising, handlers, sampling, target>>
    /\ UNCHANGED <<summaries, exit, signals, ghosts>>

\* sampler.stop swallows what terminate and join raise, joins for five seconds,
\* and lets go of Austin in any case: it may return with Austin still running
StopSampler ==
    /\ stage = "sampler"
    /\ sampler_up' \in {FALSE, sampler_up}
    /\ sampler_held' = FALSE
    /\ stage' = "summary"
    /\ UNCHANGED <<pc, cleaned_up, owner, reason, raising, handlers, detector_up, target>>
    /\ UNCHANGED <<summaries, exit, signals, ghosts>>

MutantStopRaises ==
    /\ stage \in {"detector", "sampler"}
    /\ ~ StopBlocked
    /\ raising' = "error"
    /\ stage' = "summary"
    /\ UNCHANGED <<pc, cleaned_up, owner, reason, handlers, services, target>>
    /\ UNCHANGED <<summaries, exit, signals, ghosts>>

\* stop() raises: on_exit("runtime_error") is still run, the rest of stop is not
StopRaises ==
    /\ stage \in {"detector", "sampler"}
    /\ ~ StopBlocked
    /\ reason' = "runtime_error"
    /\ raising' = "error"
    /\ stage' = "summary"
    /\ UNCHANGED <<pc, cleaned_up, owner, handlers, services, target>>
    /\ UNCHANGED <<summaries, exit, signals, ghosts>>

\* on_exit: reporter.summary, then reporter.close
EmitSummary ==
    /\ stage = "summary"
    /\ summaries' = Append(summaries, reason)
    /\ stage' = "close"
    /\ UNCHANGED <<pc, cleaned_up, owner, reason, raising, handlers, services, target>>
    /\ UNCHANGED <<exit, signals, ghosts>>

Close ==
    /\ stage = "close"
    /\ stage' = "reap"
    /\ UNCHANGED <<pc, cleaned_up, owner, reason, raising, handlers, services, target>>
    /\ UNCHANGED <<summaries, exit, signals, ghosts>>

MutantSinkSkipsChild ==
    /\ stage \in {"summary", "close"}
    /\ stage' = "over"
    /\ raising' = "error"
    /\ sinks_failed' = TRUE
    /\ UNCHANGED <<pc, cleaned_up, owner, reason, handlers, services, target>>
    /\ UNCHANGED <<summaries, exit, signals, cut>>

\* A sink raises: "finally: _stop_child(child_process)" still runs
OnExitRaises ==
    /\ stage \in {"summary", "close"}
    /\ stage' = "reap"
    /\ raising' = "error"
    /\ sinks_failed' = TRUE
    /\ UNCHANGED <<pc, cleaned_up, owner, reason, handlers, services, target>>
    /\ UNCHANGED <<summaries, exit, signals, cut>>

MutantWaitForever ==
    /\ stage = "reap"
    /\ child # "running"
    /\ child' = IF child = "none" THEN "none" ELSE "reaped"
    /\ stage' = "over"
    /\ UNCHANGED <<pc, cleaned_up, owner, reason, raising, handlers, services, child_ok>>
    /\ UNCHANGED <<summaries, exit, signals, ghosts>>

\* _stop_child: terminate, wait, and kill when that times out
StopChild ==
    /\ stage = "reap"
    /\ child' = IF child = "none" THEN "none" ELSE "reaped"
    /\ stage' = "over"
    /\ UNCHANGED <<pc, cleaned_up, owner, reason, raising, handlers, services, child_ok>>
    /\ UNCHANGED <<summaries, exit, signals, ghosts>>

\* _cleanup returns or raises, and so does the frame below: the handler raises
\* SystemExit into the code it interrupted, whose own _cleanup is a no-op
CleanupOver ==
    /\ stage = "over"
    /\ stage' = "none"
    /\ owner' = "none"
    /\ pc' = "restore"
    /\ exit' = IF raising = "error" THEN "error"
               ELSE IF raising = "SystemExit" \/ owner = "handler" THEN "signal"
               ELSE IF child_ok THEN "ok" ELSE "child"
    /\ UNCHANGED <<cleaned_up, reason, raising, handlers, services, target>>
    /\ UNCHANGED <<summaries, signals, ghosts>>

\* The finally clause restores the handlers; main then applies the policy
RestoreHandlers ==
    /\ pc = "restore"
    /\ handlers' = FALSE
    /\ pc' = "exited"
    /\ exit' \in IF exit = "ok" THEN {"ok", "policy"} ELSE {exit}
    /\ UNCHANGED <<teardown, services, target, summaries, signals, ghosts>>

-----------------------------------------------------------------------------
(* Signals.                                                                   *)

MutantSignalIgnoresFlag ==
    /\ signals < MaxSignals
    /\ handlers
    /\ pc \in TryBody \cup {"cleanup"}
    /\ signals' = signals + 1
    /\ BeginCleanup("handler", "signal", "no")
    /\ UNCHANGED <<pc, handlers, services, target, summaries, exit, ghosts>>

\* The first signal of a session that is not cleaning up yet
SignalInBody ==
    /\ signals < MaxSignals
    /\ handlers /\ ~ cleaned_up
    /\ pc \in TryBody
    /\ signals' = signals + 1
    /\ BeginCleanup("handler", "signal", "no")
    /\ UNCHANGED <<pc, handlers, services, target, summaries, exit, ghosts>>

\* A signal inside the cleanup raises SystemExit at the step it interrupts.
\* What that step was doing may be done or not; stop() in this state counts as
\* failed, on_exit goes on with its finally clause, _stop_child is abandoned
SignalInCleanup ==
    /\ signals < MaxSignals
    /\ handlers /\ stage # "none"
    /\ signals' = signals + 1
    /\ cut' = TRUE
    /\ raising' = "SystemExit"
    /\ \/ /\ stage \in {"detector", "sampler"}
          /\ stage' = "summary"
          /\ reason' = "runtime_error"
       \/ /\ stage \in {"summary", "close"}
          /\ stage' = "reap"
          /\ UNCHANGED reason
       \/ /\ stage \in {"reap", "over"}
          /\ stage' = "over"
          /\ UNCHANGED reason
    /\ UNCHANGED <<pc, cleaned_up, owner, handlers, services, target>>
    /\ UNCHANGED <<summaries, exit, sinks_failed>>

\* A signal between the cleanup and the restored handlers
SignalInRestore ==
    /\ signals < MaxSignals
    /\ handlers /\ pc = "restore"
    /\ signals' = signals + 1
    /\ exit' = "signal"
    /\ pc' = "exited"
    /\ UNCHANGED <<teardown, handlers, services, target, summaries, ghosts>>

\* Before the handlers are installed the default action ends the process
SignalDefault ==
    /\ signals < MaxSignals
    /\ ~ handlers /\ pc \in {"main", "sinks"}
    /\ signals' = signals + 1
    /\ pc' = "killed"
    /\ UNCHANGED <<teardown, handlers, services, target, summaries, exit, ghosts>>

Signal == SignalInBody \/ SignalInCleanup \/ SignalInRestore \/ SignalDefault

Cleanup ==
    \/ StopDetector \/ StopSampler \/ StopRaises \/ EmitSummary \/ Close
    \/ OnExitRaises \/ StopChild \/ CleanupOver

Base ==
    \/ Launch \/ SinksFail \/ InstallHandlers \/ StartReporter \/ StartSampler
    \/ StartRaises \/ SpawnDetector \/ ReleaseLock \/ HandshakeDone \/ HandshakeFails
    \/ StartUnwinds \/ ChildSeen \/ RestoreHandlers

Next == Base \/ HealthFails \/ Cleanup \/ ChildEnds \/ Signal

Spec == Init /\ [][Next]_vars

\* Every wait of the main thread other than the lock is bounded by a timeout
FairSpec == Spec /\ WF_vars(Base) /\ WF_vars(Cleanup)

-----------------------------------------------------------------------------
\* The session's variables have their types.
TypeOK ==
    /\ pc \in TryBody \cup {"main", "sinks", "cleanup", "restore", "exited", "killed"}
    /\ stage \in {"none", "detector", "sampler", "summary", "close", "reap", "over"}
    /\ owner \in {"none", "base", "handler"}
    /\ reason \in {"none", "clean", "child_exit", "signal", "runtime_error"}
    /\ raising \in {"no", "error", "SystemExit"}
    /\ cleaned_up \in BOOLEAN /\ handlers \in BOOLEAN /\ child_ok \in BOOLEAN
    /\ detector_up \in BOOLEAN /\ sampler_up \in BOOLEAN /\ sampler_held \in BOOLEAN
    /\ cut \in BOOLEAN /\ sinks_failed \in BOOLEAN
    /\ child \in {"none", "running", "exited", "reaped"}
    /\ summaries \in Seq({"clean", "child_exit", "signal", "runtime_error"})
    /\ exit \in {"no", "ok", "child", "signal", "error", "policy"}
    /\ signals \in 0 .. MaxSignals

\* Reporter.summary emits "the single final session summary": however many
\* signals arrive, whatever fails and wherever cleanup is interrupted, a
\* session writes at most one, and none before its cleanup reaches it.
SingleSummary ==
    /\ Len(summaries) <= 1
    /\ stage \in {"detector", "sampler", "summary"} => summaries = <<>>

\* "A session cannot claim to have completed when teardown did not" (cli.py): a
\* summary with any reason but runtime_error stands only for a session whose
\* detector is down and whose sampler has been through its stop, wherever signals
\* and failures cut the teardown short.
TruthfulSummary ==
    \A i \in 1 .. Len(summaries) :
        summaries[i] # "runtime_error" => ~ detector_up /\ ~ sampler_held

\* An exit status of success, or of a failed policy, is backed by a summary of a
\* clean session; the child's own status by a summary that says so.
ExitMatchesSummary ==
    pc = "exited" =>
        /\ exit \in {"ok", "policy"} => summaries = <<"clean">> /\ child_ok /\ child = "reaped"
        /\ exit = "child" => summaries = <<"child_exit">> /\ child = "reaped"

\* The comment in _run_loop: interruptions while start runs "need the same
\* cleanup, summary, and child reaping guarantees as a running session".  A
\* session that entered the try body and whose cleanup was not itself
\* interrupted exits with the child reaped, even when a sink fails, and with a
\* summary when none does.
OrderlyExit ==
    pc = "exited" /\ cleaned_up /\ ~ cut =>
        /\ child \in {"none", "reaped"}
        /\ ~ sinks_failed => Len(summaries) = 1

\* Where the cleanup can be: it runs in a frame exactly while it has a next
\* step, only after cleaned_up is set, and on top of the try body or after it
CleanupPlace ==
    /\ (stage = "none") <=> (owner = "none")
    /\ stage # "none" => cleaned_up /\ handlers
    /\ owner = "base" => pc = "cleanup"
    /\ owner = "handler" => pc \in TryBody
    /\ pc \in TryBody /\ owner = "none" => ~ cleaned_up
    /\ pc \in {"main", "sinks", "killed"} => ~ cleaned_up
    /\ pc = "cleanup" => owner = "base"
    /\ pc = "restore" => cleaned_up
    /\ pc \in TryBody => handlers
    /\ ~ cleaned_up => summaries = <<>> /\ reason = "none" /\ ~ cut /\ ~ sinks_failed
    /\ cleaned_up => reason # "none"

\* main launches the child before the sinks are built and the handlers are
\* installed, and nothing reaps it if that fails or a signal comes first.  The
\* child is all that such a session leaves: whoever ends without a cleanup has
\* started neither detector nor sampler, and has announced no end.
EarlyExitHoldsNothing ==
    pc \in {"exited", "killed"} /\ ~ cleaned_up =>
        ~ detector_up /\ ~ sampler_up /\ ~ sampler_held /\ summaries = <<>>

\* Services go down in order, and stay down once the cleanup is past them; none
\* is up outside the try body before the cleanup began
TeardownOrder ==
    /\ pc \in {"main", "sinks", "killed", "exited"} /\ ~ cleaned_up =>
          ~ detector_up /\ ~ sampler_up /\ ~ sampler_held
    /\ stage = "sampler" => ~ detector_up
    /\ stage = "summary" /\ reason # "runtime_error" => ~ detector_up /\ ~ sampler_held

\* What the cleanup has achieved by each of its last steps when no signal cut it
Achieved ==
    /\ (stage \in {"close", "reap", "over"} \/ pc \in {"restore", "exited"}) /\ cleaned_up
          /\ ~ cut /\ ~ sinks_failed => summaries = <<reason>>
    /\ (stage = "over" \/ pc \in {"restore", "exited"}) /\ cleaned_up /\ ~ cut
          => child \in {"none", "reaped"}

\* A cleanup that raises nothing in _run_loop's frame is that of a child's exit
Verdict ==
    /\ cut \/ sinks_failed => raising # "no"
    /\ owner = "base" /\ raising = "no" =>
          child = "reaped" /\ reason = IF child_ok THEN "clean" ELSE "child_exit"
    /\ exit # "no" <=> pc \in {"restore", "exited"}
    /\ exit \in {"ok", "policy"} => summaries = <<"clean">> /\ child_ok /\ child = "reaped"
    /\ exit = "child" => summaries = <<"child_exit">> /\ child = "reaped"

\* The inductive invariant behind the session's safety properties: where the
\* cleanup is, what it has done by then, and what the exit status rests on.
SessionInv ==
    /\ TypeOK /\ CleanupPlace /\ SingleSummary
    /\ TeardownOrder /\ TruthfulSummary /\ Achieved /\ Verdict

\* A signal ends the session, from wherever it lands, unless the handler waits
\* for the lock of the start it interrupted.
SignalEndsUnlessBlocked == (signals > 0) ~> (pc \in {"exited", "killed"} \/ StopBlocked)

\* The same without the exception: CHANGELOG v0.11.1 says that SIGTERM cleanup
\* stops everything and exits "instead of hanging".
SignalEnds == (signals > 0) ~> (pc \in {"exited", "killed"})

\* What that comment would promise if stop told whether it succeeded: no summary
\* but runtime_error while Austin still runs.
CompletedMeansDown ==
    \A i \in 1 .. Len(summaries) : summaries[i] # "runtime_error" => ~ sampler_up

\* CHANGELOG v0.11.1 again: cleanup exits "after emitting session_summary".
SummaryOnExit ==
    pc = "exited" /\ cleaned_up /\ ~ sinks_failed => Len(summaries) = 1
=============================================================================
