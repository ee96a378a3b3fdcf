--------------------------- MODULE AustinSampler ---------------------------
(* blocksnoop/profiler.py: AustinSampler and _LoopspyAustin.  The main thread *)
(* starts and stops Austin; austin-python's thread spawns the process and     *)
(* reads its samples; a timer thread warns when there are none.  For a target *)
(* in another mount namespace the process is a temporary script that becomes, *)
(* in a session of its own, nsenter and its child Austin.  A signal may run   *)
(* stop on top of any step of start, which then never goes on.                *)
EXTENDS Integers

CONSTANT MaxSamples  \* bound on the samples accepted

ASSUME SamplerAssumption == MaxSamples \in Nat \ {0}

VARIABLES
    place,          \* where the main thread is
    crossing,       \* the target is in another mount namespace
    file,           \* the wrapper script is on disk
    nsenter_wrapper,  \* self._nsenter_wrapper is not None
    austin,         \* self._austin is not None
    health_timer,   \* the health timer
    thread,         \* austin-python's thread: "none", "spawning", "reading", "done"
    proc,           \* its _proc: "none", "execed", "shell", "austin", "exited"
    sample_count,
    silence_logged, \* "no samples" was logged
    \* What really happened, for the properties:
    stopped_at,     \* where the main thread was when stop was called
    sampled,        \* there was a sample when stop called terminate
    signalled,      \* who got the SIGTERM: Austin, its nsenter "parent"
    script_missing  \* the script was gone when the process needed it

starter == <<place, crossing>>
files == <<file, nsenter_wrapper>>
process == <<thread, proc, script_missing>>
health == <<health_timer, silence_logged>>
stopping == <<stopped_at, sampled, signalled>>
samplerVars == <<starter, files, austin, health, process, sample_count, stopping>>

SamplerInit ==
    /\ place = "off" /\ crossing = FALSE
    /\ file = FALSE /\ nsenter_wrapper = FALSE
    /\ austin = FALSE
    /\ health_timer = "none" /\ silence_logged = FALSE
    /\ thread = "none" /\ proc = "none" /\ script_missing = FALSE
    /\ sample_count = 0
    /\ stopped_at = "none" /\ sampled = FALSE /\ signalled = {}

-----------------------------------------------------------------------------
(* start.                                                                     *)

\* _in_same_mount_ns: also when the namespaces cannot be read
StartSame ==
    /\ place = "off"
    /\ place' = "wrapped"
    /\ UNCHANGED <<crossing, files, austin, health, process, sample_count, stopping>>

\* _create_nsenter_wrapper has the file from mkstemp and fills it
StartCrossing ==
    /\ place = "off"
    /\ crossing' = TRUE
    /\ file' = TRUE
    /\ place' = "wrapping"
    /\ UNCHANGED <<nsenter_wrapper, austin, health, process, sample_count, stopping>>

\* No austin in PATH; writing or chmod fails, and the file is unlinked again
WrapperFails ==
    /\ place \in {"off", "wrapping"}
    /\ file' = FALSE
    /\ place' = "raised"
    /\ UNCHANGED <<crossing, nsenter_wrapper, austin, health, process, sample_count, stopping>>

KeepWrapper ==
    /\ place = "wrapping"
    /\ nsenter_wrapper' = TRUE
    /\ place' = "wrapped"
    /\ UNCHANGED <<crossing, file, austin, health, process, sample_count, stopping>>

Construct ==
    /\ place = "wrapped"
    /\ austin' = TRUE
    /\ place' = "constructed"
    /\ UNCHANGED <<crossing, files, health, process, sample_count, stopping>>

\* ThreadedAustin.start: the process comes later, on the thread
LaunchAustin ==
    /\ place = "constructed"
    /\ thread' = "spawning"
    /\ place' = "launched"
    /\ UNCHANGED <<crossing, files, austin, health, proc, script_missing, sample_count, stopping>>

ArmTimer ==
    /\ place = "launched"
    /\ health_timer' = "armed"
    /\ place' = "sampling"
    /\ UNCHANGED <<crossing, files, austin, silence_logged, process, sample_count, stopping>>

CleanupNsenterWrapper ==
    /\ file' = (file /\ ~ nsenter_wrapper)
    /\ nsenter_wrapper' = FALSE

MutantLaunchFails ==
    /\ place \in {"wrapped", "constructed"}
    /\ austin' = FALSE
    /\ place' = "raised"
    /\ UNCHANGED <<crossing, files, health, process, sample_count, stopping>>

LaunchFails ==
    /\ place \in {"wrapped", "constructed"}
    /\ austin' = FALSE
    /\ CleanupNsenterWrapper
    /\ place' = "raised"
    /\ UNCHANGED <<crossing, health, process, sample_count, stopping>>

-----------------------------------------------------------------------------
(* stop, by the session or by a handler on top of start.                      *)

Stop ==
    /\ stopped_at = "none"
    /\ stopped_at' = place
    /\ health_timer' = IF health_timer = "armed" THEN "cancelled" ELSE health_timer
    /\ place' = IF austin THEN "terminating" ELSE "stopped"
    /\ UNCHANGED <<crossing, files, austin, silence_logged, process, sample_count, sampled, signalled>>

MutantNoGroup ==
    signalled' = IF proc = "austin"
                 THEN IF crossing THEN {"parent"} ELSE {"austin"}
                 ELSE {}

\* _LoopspyAustin.terminate: killpg finds no group before setsid has run, and
\* without a process there is nobody to signal; either is taken for "already
\* terminated"
Signalled ==
    signalled' = IF proc = "austin"
                 THEN IF crossing THEN {"parent", "austin"} ELSE {"austin"}
                 ELSE {}

Terminate ==
    /\ place = "terminating"
    /\ Signalled
    /\ sampled' = (sample_count > 0)
    /\ place' = "joining"
    /\ UNCHANGED <<crossing, files, austin, health, process, sample_count, stopped_at>>

\* join(timeout=5) returns when the thread has ended, when there is none (it
\* raises, which is swallowed), and when it has waited long enough
Join ==
    /\ place = "joining"
    /\ austin' = FALSE
    /\ CleanupNsenterWrapper
    /\ place' = "stopped"
    /\ UNCHANGED <<crossing, health, process, sample_count, stopping>>

-----------------------------------------------------------------------------
(* austin-python's thread and the process (external), and on_sample.          *)

\* Popen, which may fail for reasons of its own
Spawn ==
    /\ thread = "spawning"
    /\ \/ /\ crossing => file
          /\ thread' = "reading"
          /\ proc' = IF crossing THEN "execed" ELSE "austin"
          /\ UNCHANGED script_missing
       \/ /\ thread' = "done"
          /\ script_missing' = (script_missing \/ (crossing /\ ~ file))
          /\ UNCHANGED proc
    /\ UNCHANGED <<starter, files, austin, health, sample_count, stopping>>

\* /bin/sh opens the script by its name
OpenScript ==
    /\ proc = "execed"
    /\ proc' = IF file THEN "shell" ELSE "exited"
    /\ script_missing' = (script_missing \/ ~ file)
    /\ UNCHANGED <<starter, files, austin, health, thread, sample_count, stopping>>

\* exec setsid nsenter -m -p ... austin
SetSid ==
    /\ proc = "shell"
    /\ proc' = "austin"
    /\ UNCHANGED <<starter, files, austin, health, thread, script_missing, sample_count, stopping>>

OnSample ==
    /\ thread = "reading" /\ proc = "austin"
    /\ sample_count < MaxSamples
    /\ sample_count' = sample_count + 1
    /\ UNCHANGED <<starter, files, austin, health, process, stopping>>

\* The target has ended, Austin cannot attach, or it obeys
AustinExits ==
    /\ proc = "austin"
    /\ proc' = "exited"
    /\ UNCHANGED <<starter, files, austin, health, thread, script_missing, sample_count, stopping>>

AustinObeys == "austin" \in signalled /\ AustinExits

\* End of file: on_terminate
ThreadEnds ==
    /\ thread = "reading" /\ proc = "exited"
    /\ thread' = "done"
    /\ silence_logged' = (silence_logged \/ sample_count = 0)
    /\ UNCHANGED <<starter, files, austin, health_timer, proc, script_missing, sample_count, stopping>>

-----------------------------------------------------------------------------
(* _check_health on the timer's thread reads self._austin twice.              *)

TimerFires ==
    /\ health_timer = "armed"
    /\ health_timer' = IF austin THEN "checking" ELSE "done"
    /\ UNCHANGED <<starter, files, austin, silence_logged, process, sample_count, stopping>>

CheckHealth ==
    /\ health_timer = "checking"
    /\ health_timer' = IF austin THEN "done" ELSE "crashed"
    /\ silence_logged' = (silence_logged \/ (austin /\ sample_count = 0))
    /\ UNCHANGED <<starter, files, austin, process, sample_count, stopping>>

-----------------------------------------------------------------------------
StartStep ==
    \/ StartSame \/ StartCrossing \/ WrapperFails \/ KeepWrapper
    \/ Construct \/ LaunchFails \/ LaunchAustin \/ ArmTimer

StopStep == Terminate \/ Join
TimerStep == TimerFires \/ CheckHealth
ProcessStep == Spawn \/ OpenScript \/ SetSid \/ ThreadEnds

SamplerNext ==
    \/ stopped_at = "none" /\ StartStep
    \/ Stop \/ StopStep \/ TimerStep
    \/ ProcessStep \/ OnSample \/ AustinExits

SamplerSpec == SamplerInit /\ [][SamplerNext]_samplerVars

\* Calls go on; the timer runs out; the system runs what was spawned; Austin
\* obeys SIGTERM
FairSamplerSpec ==
    /\ SamplerSpec
    /\ WF_samplerVars(StopStep) /\ WF_samplerVars(TimerStep)
    /\ WF_samplerVars(ProcessStep) /\ WF_samplerVars(AustinObeys)

-----------------------------------------------------------------------------
\* The sampler's variables have their types.
SamplerTypeOK ==
    /\ place \in {"off", "wrapping", "wrapped", "constructed", "launched", "sampling",
                  "raised", "terminating", "joining", "stopped"}
    /\ crossing \in BOOLEAN /\ file \in BOOLEAN /\ nsenter_wrapper \in BOOLEAN
    /\ austin \in BOOLEAN /\ silence_logged \in BOOLEAN /\ sampled \in BOOLEAN
    /\ script_missing \in BOOLEAN
    /\ health_timer \in {"none", "armed", "cancelled", "checking", "done", "crashed"}
    /\ thread \in {"none", "spawning", "reading", "done"}
    /\ proc \in {"none", "execed", "shell", "austin", "exited"}
    /\ sample_count \in 0 .. MaxSamples
    /\ signalled \subseteq {"parent", "austin"}

\* "Remove the temporary cross-namespace wrapper, if one was created": when
\* stop has returned or start has raised, whichever step failed, no script is
\* left on disk.  The exception is a signal between mkstemp and the assignment
\* of self._austin: stop then returns early and nobody unlinks the file.
WrapperRemoved ==
    place \in {"raised", "stopped"} /\ file => stopped_at \in {"wrapping", "wrapped"}

\* The script is read after start has returned, by a process that start does
\* not wait for: it is still there unless stop has been called.
ScriptIsThere == script_missing => stopped_at # "none"

\* The wrapper script is on disk as long as somebody will read it, and no longer:
\* removed by whoever fails or stops, never before the shell has opened it.
WrapperLifetime == WrapperRemoved /\ ScriptIsThere

\* What the sampler holds at each step of start and stop
Places ==
    /\ austin <=> place \in {"constructed", "launched", "sampling", "terminating", "joining"}
    /\ (stopped_at # "none") <=> place \in {"terminating", "joining", "stopped"}
    /\ place = "wrapping" => file /\ crossing /\ ~ nsenter_wrapper
    /\ place = "wrapped" \/ austin => (nsenter_wrapper <=> crossing)
    /\ nsenter_wrapper => file
    /\ file /\ ~ nsenter_wrapper => "wrapping" \in {place, stopped_at}
    /\ thread # "none" => place \notin {"off", "wrapping", "wrapped", "constructed", "raised"}
    /\ proc # "none" => thread # "none"
    /\ proc = "execed" => crossing
    /\ place = "off" => ~ file /\ ~ crossing

\* The inductive invariant behind WrapperLifetime: at each step the sampler knows
\* the script exactly if it has to remove it.
SamplerInv == SamplerTypeOK /\ Places /\ WrapperLifetime

\* An Austin that delivered a sample ends after stop, also behind nsenter, whose
\* own death would not end it ("Terminate Austin and its nsenter parent when
\* crossing PID namespaces").
SamplerEndsAustin == (place = "stopped" /\ sampled) ~> (proc = "exited")

\* stop returns, also when the signal reached nobody and the thread goes on
\* reading.
StopReturns == (stopped_at # "none") ~> (place = "stopped")

\* A sampler that runs without a sample says so, from the timer or at the end
\* of Austin.
SilenceIsReported ==
    (place = "sampling") ~> (silence_logged \/ sample_count > 0 \/ place # "sampling")

\* stop's docstring, "Terminate Austin and wait for the thread": whenever stop
\* has returned, an Austin that runs has got its SIGTERM.
StopTerminatesAustin == place = "stopped" /\ proc = "austin" => "austin" \in signalled

\* The health check of a timer that fired before its cancel survives the stop.
HealthCheckSurvives == health_timer # "crashed"
=============================================================================
