--------------------------- MODULE Session_proofs ---------------------------
(* The safety properties of a session, for any number of signals and for both *)
(* backends.  SessionInv is inductive: each action preserves its parts, which *)
(* together follow the cleanup from step to step.  Then those of the sampler  *)
(* and of the statistics, which a session starts and stops, and of the checks *)
(* and readings of /proc that come before them.                               *)
EXTENDS Session, AustinSampler, StatsCollector, Preflight, Accumulation_proofs, FiniteSetTheorems

LEMMA SessionInit == Init => SessionInv
  <1> SUFFICES ASSUME Init PROVE SessionInv
    OBVIOUS
  <1>1. TypeOK
    <2>1. /\ cleaned_up \in BOOLEAN /\ handlers \in BOOLEAN /\ child_ok \in BOOLEAN
          /\ detector_up \in BOOLEAN /\ sampler_up \in BOOLEAN /\ sampler_held \in BOOLEAN
          /\ cut \in BOOLEAN /\ sinks_failed \in BOOLEAN
      BY Zenon DEF Init
    <2> QED
      BY <2>1, SessionAssumption DEF Init, TypeOK
  <1>2. CleanupPlace /\ SingleSummary /\ TruthfulSummary
    BY DEF Init, CleanupPlace, SingleSummary, TruthfulSummary, TryBody
  <1>3. TeardownOrder /\ Achieved /\ Verdict
    BY DEF Init, TeardownOrder, Achieved, Verdict
  <1> QED
    BY <1>1, <1>2, <1>3 DEF SessionInv

LEMMA BaseStep == SessionInv /\ Base => SessionInv'
  <1> SUFFICES ASSUME SessionInv, Base PROVE SessionInv'
    OBVIOUS
  <1> USE SessionAssumption DEF SessionInv, TypeOK, CleanupPlace, SingleSummary,
          TeardownOrder, TruthfulSummary, Achieved, Verdict, TryBody, BaseRuns,
          teardown, services, sampling, target, ghosts
  <1>1. CASE Launch
    BY <1>1 DEF Launch
  <1>2. CASE SinksFail
    BY <1>2 DEF SinksFail
  <1>3. CASE InstallHandlers
    BY <1>3 DEF InstallHandlers
  <1>4. CASE StartReporter
    BY <1>4 DEF StartReporter
  <1>5. CASE StartSampler
    BY <1>5 DEF StartSampler
  <1>6. CASE StartRaises
    BY <1>6 DEF StartRaises, BaseFails, BeginCleanup
  <1>7. CASE SpawnDetector
    BY <1>7 DEF SpawnDetector
  <1>8. CASE ReleaseLock
    BY <1>8 DEF ReleaseLock
  <1>9. CASE HandshakeDone
    BY <1>9 DEF HandshakeDone
  <1>10. CASE HandshakeFails
    BY <1>10 DEF HandshakeFails
  <1>11. CASE StartUnwinds
    BY <1>11 DEF StartUnwinds, BaseFails, BeginCleanup
  <1>12. CASE ChildSeen
    BY <1>12 DEF ChildSeen, BeginCleanup
  <1>13. CASE RestoreHandlers
    <2>1. TypeOK'
      <3>1. handlers' \in BOOLEAN
        BY <1>13, Zenon DEF RestoreHandlers
      <3> QED
        BY <1>13, <3>1 DEF RestoreHandlers
    <2>2. CleanupPlace'
      BY <1>13 DEF RestoreHandlers
    <2>3. SingleSummary'
      BY <1>13 DEF RestoreHandlers
    <2>4. TeardownOrder'
      BY <1>13 DEF RestoreHandlers
    <2>5. TruthfulSummary'
      BY <1>13 DEF RestoreHandlers
    <2>6. Achieved'
      BY <1>13 DEF RestoreHandlers
    <2>7. Verdict'
      BY <1>13 DEF RestoreHandlers
    <2> QED
      BY <2>1, <2>2, <2>3, <2>4, <2>5, <2>6, <2>7
  <1> QED
    BY <1>1, <1>2, <1>3, <1>4, <1>5, <1>6, <1>7, <1>8, <1>9, <1>10, <1>11, <1>12, <1>13 DEF Base

LEMMA CleanupStep == SessionInv /\ Cleanup => SessionInv'
  <1> SUFFICES ASSUME SessionInv, Cleanup PROVE SessionInv'
    OBVIOUS
  <1> USE SessionAssumption DEF SessionInv, TypeOK, CleanupPlace, SingleSummary,
          TeardownOrder, TruthfulSummary, Achieved, Verdict, TryBody, BaseRuns,
          teardown, services, sampling, target, ghosts
  <1>1. CASE StopDetector
    <2>1. TypeOK'
      <3>1. detector_up' \in BOOLEAN
        BY <1>1, Zenon DEF StopDetector
      <3> QED
        BY <1>1, <3>1 DEF StopDetector
    <2>2. CleanupPlace'
      BY <1>1 DEF StopDetector
    <2>3. SingleSummary'
      BY <1>1 DEF StopDetector
    <2>4. TeardownOrder'
      BY <1>1 DEF StopDetector
    <2>5. TruthfulSummary'
      BY <1>1 DEF StopDetector
    <2>6. Achieved'
      BY <1>1 DEF StopDetector
    <2>7. Verdict'
      BY <1>1 DEF StopDetector
    <2> QED
      BY <2>1, <2>2, <2>3, <2>4, <2>5, <2>6, <2>7
  <1>2. CASE StopSampler
    <2>1. TypeOK'
      <3>1. sampler_up \in BOOLEAN
        OBVIOUS
      <3>2. sampler_up' \in BOOLEAN /\ sampler_held' \in BOOLEAN
        BY <1>2, <3>1, Zenon DEF StopSampler
      <3> QED
        BY <1>2, <3>2 DEF StopSampler
    <2>2. CleanupPlace'
      BY <1>2 DEF StopSampler
    <2>3. SingleSummary'
      BY <1>2 DEF StopSampler
    <2>4. TeardownOrder'
      BY <1>2 DEF StopSampler
    <2>5. TruthfulSummary'
      BY <1>2 DEF StopSampler
    <2>6. Achieved'
      BY <1>2 DEF StopSampler
    <2>7. Verdict'
      BY <1>2 DEF StopSampler
    <2> QED
      BY <2>1, <2>2, <2>3, <2>4, <2>5, <2>6, <2>7
  <1>3. CASE StopRaises
    BY <1>3 DEF StopRaises
  <1>4. CASE EmitSummary
    BY <1>4 DEF EmitSummary
  <1>5. CASE Close
    BY <1>5 DEF Close
  <1>6. CASE OnExitRaises
    BY <1>6 DEF OnExitRaises
  <1>7. CASE StopChild
    BY <1>7 DEF StopChild
  <1>8. CASE CleanupOver
    BY <1>8 DEF CleanupOver
  <1> QED
    BY <1>1, <1>2, <1>3, <1>4, <1>5, <1>6, <1>7, <1>8 DEF Cleanup

LEMMA SignalStep == SessionInv /\ Signal => SessionInv'
  <1> SUFFICES ASSUME SessionInv, Signal PROVE SessionInv'
    OBVIOUS
  <1> USE SessionAssumption DEF SessionInv, TypeOK, CleanupPlace, SingleSummary,
          TeardownOrder, TruthfulSummary, Achieved, Verdict, TryBody, BaseRuns,
          teardown, services, sampling, target, ghosts
  <1>1. CASE SignalInBody
    BY <1>1 DEF SignalInBody, BeginCleanup
  <1>2. CASE SignalInCleanup
    BY <1>2 DEF SignalInCleanup
  <1>3. CASE SignalInRestore
    BY <1>3 DEF SignalInRestore
  <1>4. CASE SignalDefault
    BY <1>4 DEF SignalDefault
  <1> QED
    BY <1>1, <1>2, <1>3, <1>4 DEF Signal

LEMMA SessionStep == SessionInv /\ [Next]_vars => SessionInv'
  <1> SUFFICES ASSUME SessionInv, [Next]_vars PROVE SessionInv'
    OBVIOUS
  <1> USE DEF SessionInv, TypeOK, CleanupPlace, SingleSummary, TeardownOrder,
          TruthfulSummary, Achieved, Verdict, TryBody, BaseRuns, teardown, services, sampling,
          target, ghosts
  <1>1. CASE HealthFails
    BY <1>1 DEF HealthFails, BaseFails, BeginCleanup
  <1>2. CASE ChildEnds
    BY <1>2 DEF ChildEnds
  <1>3. CASE UNCHANGED vars
    BY <1>3 DEF vars
  <1> QED
    BY <1>1, <1>2, <1>3, BaseStep, CleanupStep, SignalStep DEF Next

\* For any number of signals, wherever they land: SessionInv always holds.
THEOREM SessionInvariant == Spec => []SessionInv
  BY SessionInit, SessionStep, PTL DEF Spec

\* A session writes at most one summary, whatever interrupts its cleanup.
THEOREM OneSummary == Spec => []SingleSummary
  <1>1. SessionInv => SingleSummary
    BY DEF SessionInv
  <1> QED
    BY <1>1, SessionInvariant, PTL

\* No session claims to have completed while its detector or its sampler is up.
THEOREM SummariesAreTruthful == Spec => []TruthfulSummary
  <1>1. SessionInv => TruthfulSummary
    BY DEF SessionInv
  <1> QED
    BY <1>1, SessionInvariant, PTL

\* A successful exit status is backed by the summary of a clean session.
THEOREM ExitStatusBacked == Spec => []ExitMatchesSummary
  <1>1. SessionInv => ExitMatchesSummary
    BY DEF SessionInv, Verdict, ExitMatchesSummary
  <1> QED
    BY <1>1, SessionInvariant, PTL

\* A session whose cleanup no signal cut short reaps its child and, when its
\* sinks work, writes its summary.
THEOREM ExitIsOrderly == Spec => []OrderlyExit
  <1>1. SessionInv => OrderlyExit
    BY DEF SessionInv, Achieved, OrderlyExit
  <1> QED
    BY <1>1, SessionInvariant, PTL

\* A session that ends before its handlers are installed leaves no detector, no
\* sampler and no summary behind: only a launched child can outlive it.
THEOREM EarlyExitIsBare == Spec => []EarlyExitHoldsNothing
  <1>1. SessionInv => EarlyExitHoldsNothing
    BY DEF SessionInv, CleanupPlace, TeardownOrder, EarlyExitHoldsNothing
  <1> QED
    BY <1>1, SessionInvariant, PTL

-----------------------------------------------------------------------------
(* The sampler.                                                               *)

LEMMA SamplerBegins == SamplerInit => SamplerInv
  <1> SUFFICES ASSUME SamplerInit PROVE SamplerInv
    OBVIOUS
  <1>1. /\ crossing \in BOOLEAN /\ file \in BOOLEAN /\ nsenter_wrapper \in BOOLEAN
        /\ austin \in BOOLEAN /\ silence_logged \in BOOLEAN /\ sampled \in BOOLEAN
        /\ script_missing \in BOOLEAN
    BY Zenon DEF SamplerInit
  <1>2. SamplerTypeOK
    BY <1>1, SamplerAssumption DEF SamplerInit, SamplerTypeOK
  <1>3. Places /\ WrapperLifetime
    BY <1>1 DEF SamplerInit, Places,
         WrapperLifetime, WrapperRemoved, ScriptIsThere
  <1> QED BY <1>2, <1>3 DEF SamplerInv

LEMMA SamplerStarts ==
    ASSUME SamplerInv, stopped_at = "none", StartStep
    PROVE  SamplerInv'
  <1> USE DEF SamplerInv, SamplerTypeOK, Places, WrapperLifetime,
          WrapperRemoved, ScriptIsThere, files, process,
          health, stopping, starter
  <1>1. CASE StartSame
    BY <1>1 DEF StartSame
  <1>2. CASE StartCrossing
    BY <1>2 DEF StartCrossing
  <1>3. CASE WrapperFails
    BY <1>3 DEF WrapperFails
  <1>4. CASE KeepWrapper
    BY <1>4 DEF KeepWrapper
  <1>5. CASE Construct
    BY <1>5 DEF Construct
  <1>6. CASE LaunchFails
    BY <1>6 DEF LaunchFails, CleanupNsenterWrapper
  <1>7. CASE LaunchAustin
    BY <1>7 DEF LaunchAustin
  <1>8. CASE ArmTimer
    BY <1>8 DEF ArmTimer
  <1> QED BY <1>1, <1>2, <1>3, <1>4, <1>5, <1>6, <1>7, <1>8 DEF StartStep

LEMMA SamplerOthers ==
    ASSUME SamplerInv,
           \/ Stop \/ StopStep \/ TimerStep
           \/ ProcessStep \/ OnSample \/ AustinExits
           \/ UNCHANGED samplerVars
    PROVE  SamplerInv'
  <1> USE DEF SamplerInv, SamplerTypeOK, Places, WrapperLifetime,
          WrapperRemoved, ScriptIsThere, files, process,
          health, stopping, starter
  <1>1. CASE Stop
    BY <1>1 DEF Stop
  <1>2. CASE Terminate
    BY <1>2 DEF Terminate, Signalled
  <1>3. CASE Join
    <2>1. file' \in BOOLEAN /\ nsenter_wrapper' \in BOOLEAN /\ austin' \in BOOLEAN
      BY <1>3, Zenon DEF Join, CleanupNsenterWrapper
    <2>2. SamplerTypeOK'
      BY <1>3, <2>1 DEF Join
    <2>3. Places' /\ WrapperLifetime'
      BY <1>3, <2>1 DEF Join, CleanupNsenterWrapper
    <2> QED BY <2>2, <2>3
  <1>4. CASE TimerFires
    BY <1>4 DEF TimerFires
  <1>5. CASE CheckHealth
    BY <1>5 DEF CheckHealth
  <1>6. CASE Spawn
    BY <1>6 DEF Spawn
  <1>7. CASE OpenScript
    BY <1>7 DEF OpenScript
  <1>8. CASE SetSid
    BY <1>8 DEF SetSid
  <1>9. CASE ThreadEnds
    BY <1>9 DEF ThreadEnds
  <1>10. CASE OnSample
    BY <1>10, SamplerAssumption DEF OnSample
  <1>11. CASE AustinExits
    BY <1>11 DEF AustinExits
  <1>12. CASE UNCHANGED samplerVars
    BY <1>12 DEF samplerVars
  <1> QED BY <1>1, <1>2, <1>3, <1>4, <1>5, <1>6, <1>7, <1>8, <1>9, <1>10, <1>11, <1>12
          DEF StopStep, TimerStep, ProcessStep

\* AustinSampler.start and stop, in any interleaving with Austin's thread, its
\* process and the health timer: at each step the sampler knows the wrapper
\* script exactly if it has to remove it.
THEOREM SamplerInvariant == SamplerSpec => []SamplerInv
  <1>1. SamplerInit => SamplerInv
    BY SamplerBegins
  <1>2. SamplerInv /\ [SamplerNext]_samplerVars => SamplerInv'
    BY SamplerStarts, SamplerOthers DEF SamplerNext
  <1> QED BY <1>1, <1>2, PTL DEF SamplerSpec

\* _cleanup_nsenter_wrapper: whoever fails or stops removes the wrapper script,
\* never before the shell has opened it, unless a signal cut start short.
THEOREM WrapperOutlivesItsReaders == SamplerSpec => []WrapperLifetime
  <1>1. SamplerInv => WrapperLifetime
    BY DEF SamplerInv
  <1>2. SamplerSpec => []SamplerInv
    BY SamplerInvariant
  <1> QED BY <1>1, <1>2, PTL

-----------------------------------------------------------------------------
(* The statistics.                                                            *)

\* bisect.insort keeps a sorted array sorted
LEMMA InsortAscends ==
    ASSUME NEW a \in Seq(Nat), Ascending(a), NEW x \in Nat
    PROVE  /\ Insort(a, x) \in Seq(Nat)
           /\ Len(Insort(a, x)) = Len(a) + 1
           /\ Ascending(Insort(a, x))
  <1> DEFINE n == Len(a)
             left == {i \in 1 .. Len(a) : ~ (x < a[i])}
             pos == Bisect(left, n)
             b == Insort(a, x)
             at(i) == IF i <= pos THEN a[i] ELSE IF i = pos + 1 THEN x ELSE a[i - 1]
  <1>1. n \in Nat /\ \A i \in 1 .. n : a[i] \in Nat
    OBVIOUS
  <1>2. b = [i \in 1 .. n + 1 |-> at(i)]
    BY DEF Insort, BisectRight
  <1>3. \A i \in 1 .. n : i \in left <=> a[i] <= x
    BY <1>1
  <1>4. \A i, j \in 1 .. n : i <= j => a[i] <= a[j]
    BY DEF Ascending
  <1> HIDE DEF left, n
  <1>5. pos \in 0 .. n /\ \A i \in 1 .. n : i \in left <=> i <= pos
    <2>1. \A i, j \in 1 .. n : i <= j /\ j \in left => i \in left
      BY <1>1, <1>3, <1>4
    <2> QED BY <1>1, <2>1, BisectSplits
  <1> HIDE DEF pos, b
  <1>6. \A i \in 1 .. n + 1 : at(i) \in Nat
    BY <1>1, <1>5
  <1>7. b \in Seq(Nat) /\ Len(b) = n + 1 /\ \A i \in 1 .. n + 1 : b[i] = at(i)
    <2> HIDE DEF at
    <2> QED BY <1>1, <1>2, <1>6
  <1>8. ASSUME NEW i \in 1 .. n + 1, NEW j \in 1 .. n + 1, i <= j PROVE at(i) <= at(j)
    <2>1. \A k \in 1 .. n : a[k] <= x <=> k <= pos
      BY <1>3, <1>5
    <2>2. CASE i <= pos
      BY <1>1, <1>4, <1>5, <1>8, <2>1, <2>2
    <2>3. CASE i = pos + 1
      BY <1>1, <1>4, <1>5, <1>8, <2>1, <2>3
    <2>4. CASE i > pos + 1
      BY <1>1, <1>4, <1>5, <1>8, <2>1, <2>4
    <2> QED BY <1>5, <2>2, <2>3, <2>4
  <1> HIDE DEF at
  <1>9. Ascending(b)
    BY <1>7, <1>8 DEF Ascending
  <1> QED BY <1>7, <1>9 DEF b, n

\* The index of a percentile, counted from 1
Rank(p, n) == 1 + (p * (n - 1)) \div 100

LEMMA RankBounds ==
    ASSUME NEW p \in Percentages, NEW n \in Nat \ {0}
    PROVE  /\ Rank(p, n) \in 1 .. n
           /\ 100 * (Rank(p, n) - 1) <= p * n
           /\ 100 * (n - Rank(p, n)) < (100 - p) * (n - 1) + 100
  <1>1. CASE p = 50
    BY <1>1 DEF Rank
  <1>2. CASE p = 90
    BY <1>2 DEF Rank
  <1>3. CASE p = 95
    BY <1>3 DEF Rank
  <1>4. CASE p = 99
    BY <1>4 DEF Rank
  <1> QED BY <1>1, <1>2, <1>3, <1>4 DEF Percentages

LEMMA RanksAscend ==
    ASSUME NEW n \in Nat \ {0}
    PROVE  Rank(50, n) <= Rank(90, n) /\ Rank(90, n) <= Rank(95, n) /\ Rank(95, n) <= Rank(99, n)
  BY DEF Rank

\* At most p percent of a sorted array lie below its p-th percentile, and the
\* values above it are those behind its rank
LEMMA AscendingSplits ==
    ASSUME NEW a \in Seq(Nat), Ascending(a)
    PROVE  Splits(a)
  <1> SUFFICES ASSUME a # <<>>, NEW p \in Percentages
               PROVE  LET v == Percentile(a, p)
                          n == Len(a)
                      IN  /\ 100 * Cardinality({i \in 1 .. n : a[i] < v}) <= p * n
                          /\ 100 * Cardinality({i \in 1 .. n : a[i] > v})
                                 < (100 - p) * (n - 1) + 100
    BY DEF Splits
  <1> DEFINE v == Percentile(a, p)
             n == Len(a)
             k == Rank(p, n)
             low == {i \in 1 .. n : a[i] < v}
             high == {i \in 1 .. n : a[i] > v}
  <1>1. n \in Nat \ {0} /\ \A i \in 1 .. n : a[i] \in Nat
    OBVIOUS
  <1>2. v = a[k]
    BY DEF Percentile, Rank
  <1> HIDE DEF v, k, n
  <1>3. /\ k \in 1 .. n
        /\ 100 * (k - 1) <= p * n
        /\ 100 * (n - k) < (100 - p) * (n - 1) + 100
    BY <1>1, RankBounds DEF k
  <1>4. \A i, j \in 1 .. n : i <= j => a[i] <= a[j]
    BY DEF Ascending, n
  <1>5. low \subseteq 1 .. (k - 1) /\ high \subseteq (k + 1) .. n
    <2>1. ASSUME NEW i \in 1 .. n, a[i] < v PROVE i < k
      BY <1>1, <1>2, <1>3, <1>4, <2>1
    <2>2. ASSUME NEW i \in 1 .. n, a[i] > v PROVE i > k
      BY <1>1, <1>2, <1>3, <1>4, <2>2
    <2> QED BY <1>1, <1>3, <2>1, <2>2
  <1> HIDE DEF low, high
  <1>6. /\ IsFiniteSet(1 .. (k - 1)) /\ Cardinality(1 .. (k - 1)) = k - 1
        /\ IsFiniteSet((k + 1) .. n) /\ Cardinality((k + 1) .. n) = n - k
    <2>1. 1 \in Int /\ k - 1 \in Int /\ k + 1 \in Int /\ n \in Int
      BY <1>1, <1>3
    <2>2. IsFiniteSet(1 .. (k - 1))
          /\ Cardinality(1 .. (k - 1)) = IF 1 > k - 1 THEN 0 ELSE (k - 1) - 1 + 1
      BY <2>1, FS_Interval
    <2>3. IsFiniteSet((k + 1) .. n)
          /\ Cardinality((k + 1) .. n) = IF k + 1 > n THEN 0 ELSE n - (k + 1) + 1
      BY <2>1, FS_Interval
    <2> QED BY <1>1, <1>3, <2>2, <2>3
  <1>7. /\ Cardinality(low) \in Nat /\ Cardinality(low) <= k - 1
        /\ Cardinality(high) \in Nat /\ Cardinality(high) <= n - k
    <2>1. IsFiniteSet(low) /\ Cardinality(low) <= Cardinality(1 .. (k - 1))
      BY <1>5, <1>6, FS_Subset
    <2>2. IsFiniteSet(high) /\ Cardinality(high) <= Cardinality((k + 1) .. n)
      BY <1>5, <1>6, FS_Subset
    <2> QED BY <1>6, <2>1, <2>2, FS_CardinalityType
  <1>8. 100 * Cardinality(low) <= 100 * (k - 1) /\ 100 * Cardinality(high) <= 100 * (n - k)
    BY <1>1, <1>3, <1>7
  <1>9. p * n \in Int /\ (100 - p) * (n - 1) \in Int
    BY <1>1 DEF Percentages
  <1>10. /\ 100 * Cardinality(low) <= p * n
         /\ 100 * Cardinality(high) < (100 - p) * (n - 1) + 100
    BY <1>1, <1>3, <1>7, <1>8, <1>9
  <1> QED BY <1>10 DEF low, high, v, n

\* A frame printed from sorted durations is a frame, with its numbers in order
LEMMA StatsOrdered ==
    ASSUME durations \in Seq(Nat), warned \in BOOLEAN, Ascending(durations),
           NEW caller \in {"tick", "stop"}
    PROVE  LET f == Stats(caller)
           IN  /\ f \in Frames /\ f.by = caller
               /\ f.count = Len(durations) /\ f.warned = warned /\ InOrder(f)
  <1> DEFINE n == Len(durations)
             f == Stats(caller)
             per == [p \in Percentages |-> Percentile(durations, p)]
  <1>1. n \in Nat /\ (\A i \in 1 .. n : durations[i] \in Nat) /\ warned \in BOOLEAN
    OBVIOUS
  <1>2. CASE durations = <<>>
    <2>1. f = [by |-> caller, count |-> 0, warned |-> warned]
      BY <1>2 DEF Stats
    <2>2. f \in Frames
      BY <1>1, <2>1 DEF Frames
    <2> HIDE DEF f
    <2>3. n = 0
      BY <1>2
    <2> QED BY <2>1, <2>2, <2>3 DEF f, InOrder
  <1>3. CASE durations # <<>>
    <2>1. n \in Nat \ {0}
      BY <1>1, <1>3
    <2>2. f = [by |-> caller, count |-> n, warned |-> warned, min |-> durations[1],
               max |-> durations[n], p |-> per]
      BY <1>3 DEF Stats
    <2> HIDE DEF f, n
    <2>3. \A p \in Percentages : Rank(p, n) \in 1 .. n /\ per[p] = durations[Rank(p, n)]
      BY <2>1, RankBounds DEF Percentile, Rank, n
    <2>4. per \in [Percentages -> Nat]
      <3>1. \A p \in Percentages : Percentile(durations, p) \in Nat
        BY <1>1, <2>3
      <3> QED BY <3>1
    <2> HIDE DEF per
    <2>5. f \in Frames
      BY <1>1, <2>1, <2>2, <2>4 DEF Frames
    <2>6. \A i, j \in 1 .. n : i <= j => durations[i] <= durations[j]
      BY DEF Ascending, n
    <2>7. /\ durations[1] <= per[50] /\ per[50] <= per[90]
          /\ per[90] <= per[95] /\ per[95] <= per[99] /\ per[99] <= durations[n]
      <3>1. {50, 90, 95, 99} \subseteq Percentages
        BY DEF Percentages
      <3>2. /\ Rank(50, n) \in 1 .. n /\ Rank(90, n) \in 1 .. n
            /\ Rank(95, n) \in 1 .. n /\ Rank(99, n) \in 1 .. n
            /\ per[50] = durations[Rank(50, n)] /\ per[90] = durations[Rank(90, n)]
            /\ per[95] = durations[Rank(95, n)] /\ per[99] = durations[Rank(99, n)]
        BY <2>3, <3>1
      <3>3. 1 \in 1 .. n /\ n \in 1 .. n /\ 1 <= Rank(50, n) /\ Rank(99, n) <= n
        BY <2>1, <3>2
      <3>4. Rank(50, n) <= Rank(90, n) /\ Rank(90, n) <= Rank(95, n) /\ Rank(95, n) <= Rank(99, n)
        BY <2>1, RanksAscend
      <3>5. durations[1] <= per[50] /\ per[99] <= durations[n]
        BY <2>6, <3>2, <3>3
      <3>6. per[50] <= per[90] /\ per[90] <= per[95] /\ per[95] <= per[99]
        BY <2>6, <3>2, <3>4
      <3> QED BY <3>5, <3>6
    <2>8. /\ f.by = caller /\ f.count = n /\ f.warned = warned
          /\ f.min = durations[1] /\ f.max = durations[n] /\ f.p = per
      BY <2>2
    <2>9. InOrder(f)
      BY <2>7, <2>8 DEF InOrder
    <2> QED BY <2>5, <2>8, <2>9 DEF f, n
  <1> QED BY <1>2, <1>3

\* StatsInv in three parts: what the lock protects and the terminal, the timers,
\* and the reader with what it leaves for the final print
DisplayInv ==
    /\ json_mode \in BOOLEAN /\ warned \in BOOLEAN
    /\ durations \in Seq(Nat) /\ frames \in Seq(Frames)
    /\ screen \in Seq(Nat) /\ others \in Nat /\ torn \in Nat
    /\ lines_printed \in {0, FrameLines(FALSE), FrameLines(TRUE)}
    /\ Ascending(durations) /\ Printed /\ ScreenAccounts /\ FramesAreTrue

TimerStates == {"none", "created", "waiting", "print", "assign", "daemon", "launch", "dead"}

MainStates ==
    {"start", "launch", "detector", "running", "test", "cancel", "clear",
     "print", "stopped", "failed", "unstopped"}

ChainInv ==
    /\ timers \in [1 .. MaxTimers -> TimerStates]
    /\ timer \in 1 .. MaxTimers \cup {None} /\ cancelled \subseteq 1 .. MaxTimers
    /\ overtaken \in BOOLEAN
    /\ \A t, u \in Live : t = u
    /\ ~ overtaken /\ main \in {"clear", "print", "stopped", "failed"} => Pending = {}
    /\ ChainPlace

ReaderInv ==
    /\ reader_on \in BOOLEAN /\ late \in BOOLEAN
    /\ main \in MainStates
    /\ ReaderPlace /\ FinalPlace /\ FinalIsComplete
    /\ ~ overtaken => FinalIsLast

LEMMA StatsParts == StatsInv <=> DisplayInv /\ ChainInv /\ ReaderInv
  <1>1. StatsInv => DisplayInv
    BY DEF StatsInv, StatsTypes, DisplayInv
  <1>2. StatsInv => ChainInv
    BY DEF StatsInv, StatsTypes, OneChain, ChainInv, TimerStates
  <1>3. StatsInv => ReaderInv
    BY DEF StatsInv, StatsTypes, OneChain, ReaderInv, MainStates
  <1>4. DisplayInv /\ ChainInv /\ ReaderInv => StatsInv
    <2>1. DisplayInv /\ ChainInv /\ ReaderInv => StatsTypes
      BY DEF StatsTypes, DisplayInv, ChainInv, ReaderInv, TimerStates, MainStates
    <2>2. ChainInv /\ ReaderInv => OneChain
      BY DEF OneChain, ChainInv, ReaderInv
    <2> QED BY <2>1, <2>2 DEF StatsInv, DisplayInv, ChainInv, ReaderInv
  <1> QED BY <1>1, <1>2, <1>3, <1>4

LEMMA StatsPartsAfter == DisplayInv' /\ ChainInv' /\ ReaderInv' => StatsInv'
  BY StatsParts, PTL

LEMMA StatsBegins == StatsInit => StatsInv
  <1> SUFFICES ASSUME StatsInit PROVE StatsInv
    OBVIOUS
  <1>1. DisplayInv
    <2>1. json_mode \in BOOLEAN /\ warned \in BOOLEAN
      BY Zenon DEF StatsInit
    <2>2. /\ durations = <<>> /\ frames = <<>> /\ lines_printed = 0
          /\ screen = <<>> /\ others = 0 /\ torn = 0
      BY DEF StatsInit
    <2>3. Splits(durations)
      BY <2>2 DEF Splits
    <2>4. Printed /\ ScreenAccounts
      BY <2>2 DEF Printed, ScreenAccounts, FrameLines
    <2> QED BY <2>1, <2>2, <2>3, <2>4 DEF DisplayInv, Ascending, FramesAreTrue
  <1>2. ChainInv
    <2>1. overtaken \in BOOLEAN
      BY Zenon DEF StatsInit
    <2> QED BY <2>1, StatsAssumption
            DEF StatsInit, ChainInv, ChainPlace, Live, TimerStates
  <1>3. ReaderInv
    <2>1. reader_on \in BOOLEAN /\ late \in BOOLEAN /\ ~ reader_on
      BY Zenon DEF StatsInit
    <2>2. frames = <<>> /\ main = "start"
      BY DEF StatsInit
    <2> QED BY <2>1, <2>2
            DEF ReaderInv, MainStates, ReaderPlace, FinalPlace, FinalIsComplete, FinalIsLast
  <1> QED BY <1>1, <1>2, <1>3, StatsParts

-----------------------------------------------------------------------------
(* What the lock protects, and the terminal.                                  *)

LEMMA DisplayStays ==
    ASSUME DisplayInv, UNCHANGED <<display, data>>
    PROVE  DisplayInv'
  <1>1. /\ json_mode' = json_mode /\ lines_printed' = lines_printed /\ frames' = frames
        /\ screen' = screen /\ others' = others /\ torn' = torn
        /\ durations' = durations /\ warned' = warned
    BY DEF display, data
  <1>2. Ascending(durations)' /\ Printed'
    BY <1>1 DEF DisplayInv, Ascending, Printed, FrameLines
  <1>3. ScreenAccounts'
    BY <1>1 DEF DisplayInv, ScreenAccounts, NewestIsWhole, FrameLines
  <1>4. FramesAreTrue'
    BY <1>1 DEF DisplayInv, FramesAreTrue
  <1> QED BY <1>1, <1>2, <1>3, <1>4 DEF DisplayInv, FrameLines

\* An insertion changes no frame
LEMMA EventKeepsDisplay ==
    ASSUME DisplayInv, NEW d \in Durations, OnEvent(d)
    PROVE  DisplayInv'
  <1> DEFINE n == Len(durations)
  <1>1. /\ json_mode' = json_mode /\ lines_printed' = lines_printed
        /\ frames' = frames /\ screen' = screen /\ others' = others /\ torn' = torn
    BY DEF OnEvent, display
  <1>2. durations \in Seq(Nat) /\ Ascending(durations) /\ n \in Nat /\ d \in Nat
    BY StatsAssumption DEF DisplayInv
  <1>3. durations' \in Seq(Nat) /\ Len(durations') = n + 1 /\ Ascending(durations')
    BY <1>2, InsortAscends DEF OnEvent
  <1>4. warned' \in BOOLEAN /\ (warned => warned')
    BY Zenon DEF OnEvent
  <1>5. Printed'
    <2>1. frames \in Seq(Frames) /\ \A i \in 1 .. Len(frames) : frames[i].count \in Nat
      BY DEF DisplayInv, Frames
    <2>2. \A i \in 1 .. Len(frames) : frames[i].count <= n + 1
      <3>1. \A i \in 1 .. Len(frames) : frames[i].count <= n
        BY DEF DisplayInv, Printed
      <3> HIDE DEF n
      <3> QED BY <1>2, <2>1, <3>1
    <2>3. lines_printed' = FrameLines(TRUE)' => warned'
      BY <1>1, <1>4 DEF DisplayInv, Printed, FrameLines
    <2> QED BY <1>1, <1>3, <2>2, <2>3 DEF DisplayInv, Printed
  <1>6. ScreenAccounts'
    BY <1>1 DEF DisplayInv, ScreenAccounts, NewestIsWhole, FrameLines
  <1>7. FramesAreTrue'
    <2>1. Splits(durations')
      BY <1>3, AscendingSplits
    <2> QED BY <1>1, <2>1 DEF DisplayInv, FramesAreTrue
  <1>8. Ascending(durations)'
    BY <1>3 DEF Ascending
  <1> QED BY <1>1, <1>3, <1>4, <1>5, <1>6, <1>7, <1>8 DEF DisplayInv, FrameLines

\* A line below the newest frame leaves that frame as it is
LEMMA OtherKeepsDisplay ==
    ASSUME DisplayInv, OtherWrites
    PROVE  DisplayInv'
  <1>1. /\ json_mode' = json_mode /\ lines_printed' = lines_printed /\ frames' = frames
        /\ others' = others + 1 /\ torn' = torn /\ durations' = durations /\ warned' = warned
        /\ screen' = Append(screen, 0)
    BY DEF OtherWrites, data
  <1> DEFINE n == Len(screen)
  <1>2. /\ n \in Nat /\ screen' \in Seq(Nat) /\ Len(screen') = n + 1 /\ screen'[n + 1] = 0
        /\ \A i \in 1 .. n : screen'[i] = screen[i]
    BY <1>1 DEF DisplayInv
  <1> HIDE DEF n
  <1>3. Ascending(durations)' /\ Printed'
    BY <1>1 DEF DisplayInv, Ascending, Printed, FrameLines
  <1>4. FramesAreTrue'
    BY <1>1 DEF DisplayInv, FramesAreTrue
  <1>5. ASSUME ~ json_mode, frames # <<>> PROVE NewestIsWhole'
    <2> DEFINE F == FrameLines(frames[Len(frames)].warned)
    <2>1. PICK below \in 0 .. n :
             /\ n - below - F >= 0
             /\ \A i \in 1 .. n : i > n - below - F =>
                   screen[i] = IF i <= n - below THEN Len(frames) ELSE 0
      BY <1>5 DEF DisplayInv, ScreenAccounts, NewestIsWhole, n
    <2>2. F \in Nat
      BY DEF FrameLines
    <2> HIDE DEF F
    <2>3. /\ below + 1 \in 0 .. n + 1
          /\ (n + 1) - (below + 1) - F >= 0
          /\ (n + 1) - (below + 1) - F = n - below - F
          /\ (n + 1) - (below + 1) = n - below
      BY <1>2, <2>1, <2>2
    <2>4. \A i \in 1 .. n + 1 : i > n - below - F =>
             screen'[i] = IF i <= n - below THEN Len(frames) ELSE 0
      <3> SUFFICES ASSUME NEW i \in 1 .. n + 1, i > n - below - F
                   PROVE  screen'[i] = IF i <= n - below THEN Len(frames) ELSE 0
        OBVIOUS
      <3>1. CASE i = n + 1
        BY <1>2, <2>1, <3>1
      <3>2. CASE i \in 1 .. n
        BY <1>2, <2>1, <3>2
      <3> QED BY <1>2, <3>1, <3>2
    <2>5. FrameLines(frames'[Len(frames')].warned) = F
      BY <1>1 DEF F
    <2>6. \E b \in 0 .. Len(screen') :
             /\ Len(screen') - b - F >= 0
             /\ \A i \in 1 .. Len(screen') : i > Len(screen') - b - F =>
                   screen'[i] = IF i <= Len(screen') - b THEN Len(frames') ELSE 0
      <3>1. \A i \in 1 .. n + 1 : i > (n + 1) - (below + 1) - F =>
               screen'[i] = IF i <= (n + 1) - (below + 1) THEN Len(frames') ELSE 0
        BY <1>1, <2>3, <2>4
      <3>2. below + 1 \in 0 .. Len(screen')
        BY <1>2, <2>3
      <3> WITNESS below + 1 \in 0 .. Len(screen')
      <3> QED BY <1>2, <2>3, <3>1
    <2> QED BY <2>5, <2>6 DEF NewestIsWhole, FrameLines
  <1>6. ScreenAccounts'
    <2>1. ~ json_mode => Len(screen') = lines_printed' + others' + torn'
      BY <1>1, <1>2 DEF DisplayInv, ScreenAccounts, FrameLines, n
    <2>2. others' + torn' # 0
      BY <1>1 DEF DisplayInv
    <2> QED BY <1>1, <1>5, <2>1, <2>2 DEF ScreenAccounts
  <1> QED BY <1>1, <1>2, <1>3, <1>4, <1>6 DEF DisplayInv, FrameLines

LEMMA NoSummand == \A a, b \in Nat : a + b = 0 => a = 0 /\ b = 0
  OBVIOUS

\* A write erases the lines the collector counts and adds a frame, which is true;
\* it is counted, or, when the flush fails, remembered as torn
LEMMA WriteKeepsDisplay ==
    ASSUME DisplayInv, NEW caller \in {"tick", "stop"}, Write(caller),
           UNCHANGED <<json_mode, others, data>>,
           \/ lines_printed' = (IF json_mode THEN lines_printed ELSE Lines) /\ torn' = torn
           \/ lines_printed' = lines_printed /\ torn' = torn + Lines - lines_printed
    PROVE  DisplayInv'
  <1> DEFINE f == Stats(caller)
             n == Len(frames)
             kept == Len(screen) - lines_printed
             l == Lines
  <1>1. /\ f \in Frames /\ f.by = caller /\ f.count = Len(durations) /\ f.warned = warned
        /\ InOrder(f)
    BY StatsOrdered DEF DisplayInv
  <1>2. /\ durations' = durations /\ warned' = warned
        /\ json_mode' = json_mode /\ others' = others
    BY DEF data
  <1>3. /\ frames' = Append(frames, f)
        /\ screen' = [i \in 1 .. kept + l |-> IF i <= kept THEN screen[i] ELSE n + 1]
    BY DEF Write
  <1> HIDE DEF f
  <1>4. /\ frames \in Seq(Frames) /\ n \in Nat /\ frames' \in Seq(Frames) /\ Len(frames') = n + 1
        /\ (\A i \in 1 .. n : frames'[i] = frames[i]) /\ frames'[n + 1] = f
    BY <1>1, <1>3 DEF DisplayInv
  <1>5. /\ l \in Nat /\ lines_printed \in Nat /\ l >= lines_printed
        /\ ~ json_mode => l = FrameLines(warned)
    BY DEF DisplayInv, Printed, Lines, FrameLines
  <1>6. /\ kept \in Nat
        /\ ~ json_mode => kept = others + torn
    BY <1>5 DEF DisplayInv, Printed, ScreenAccounts, FrameLines
  <1>7. /\ lines_printed' \in {0, FrameLines(FALSE), FrameLines(TRUE)}
        /\ lines_printed' = FrameLines(TRUE) => warned
        /\ json_mode => lines_printed' = 0
    BY DEF DisplayInv, Printed, Lines, FrameLines
  <1>8. torn \in Nat /\ torn' \in Nat /\ others \in Nat /\ (torn' = 0 => torn = 0)
    BY <1>5 DEF DisplayInv
  <1> DEFINE s == [i \in 1 .. kept + l |-> IF i <= kept THEN screen[i] ELSE n + 1]
  <1>9. /\ screen' \in Seq(Nat) /\ Len(screen') = kept + l
        /\ \A i \in 1 .. kept + l : i > kept => screen'[i] = n + 1
    <2>1. \A i \in 1 .. kept + l : (IF i <= kept THEN screen[i] ELSE n + 1) \in Nat
      <3> SUFFICES ASSUME NEW i \in 1 .. kept + l
                   PROVE  (IF i <= kept THEN screen[i] ELSE n + 1) \in Nat
        OBVIOUS
      <3>1. CASE i <= kept
        <4>1. i \in 1 .. Len(screen)
          BY <1>5, <1>6, <3>1 DEF DisplayInv
        <4> QED BY <3>1, <4>1 DEF DisplayInv
      <3>2. CASE ~ (i <= kept)
        BY <1>4, <3>2
      <3> QED BY <3>1, <3>2
    <2> HIDE DEF kept, l, n
    <2>2. kept + l \in Nat
      BY <1>5, <1>6
    <2>3. s \in Seq(Nat) /\ Len(s) = kept + l
      BY <2>1, <2>2
    <2>4. \A i \in 1 .. kept + l : i > kept => s[i] = n + 1
      BY <1>6, <2>2
    <2> QED BY <1>3, <2>3, <2>4
  <1> HIDE DEF n, kept, l, s
  <1>10. Printed'
    <2>1. \A i \in 1 .. n + 1 : frames'[i].count <= Len(durations)
      <3>1. \A i \in 1 .. n : frames[i].count <= Len(durations)
        BY DEF DisplayInv, Printed, n
      <3>2. Len(durations) <= Len(durations)
        BY DEF DisplayInv
      <3> QED BY <1>1, <1>4, <3>1, <3>2
    <2> QED BY <1>2, <1>4, <1>7, <2>1 DEF Printed, FrameLines
  <1>11. ScreenAccounts'
    <2> SUFFICES ASSUME ~ json_mode PROVE ScreenAccounts'
      BY DEF ScreenAccounts
    <2>1. Len(screen') = lines_printed' + others' + torn'
      <3>1. \/ lines_printed' = l /\ torn' = torn
            \/ lines_printed' = lines_printed /\ torn' = torn + l - lines_printed
        BY DEF l
      <3>2. Len(screen') = others + torn + l
        BY <1>6, <1>9
      <3> QED BY <1>2, <1>5, <1>8, <3>1, <3>2
    <2>2. NewestIsWhole'
      <3>1. FrameLines(frames'[Len(frames')].warned) = l
        BY <1>1, <1>4, <1>5 DEF FrameLines
      <3>2. /\ 0 \in 0 .. Len(screen')
            /\ Len(screen') - 0 = kept + l /\ (kept + l) - l = kept /\ kept >= 0
        BY <1>5, <1>6, <1>9
      <3>3. \A i \in 1 .. Len(screen') :
               i > kept => screen'[i] = IF i <= kept + l THEN Len(frames') ELSE 0
        BY <1>4, <1>9
      <3> QED BY <3>1, <3>2, <3>3 DEF NewestIsWhole, FrameLines
    <2>3. others' + torn' = 0 => \A i \in 1 .. Len(screen') : screen'[i] = Len(frames')
      <3> SUFFICES ASSUME others' + torn' = 0 PROVE kept = 0
        BY <1>4, <1>5, <1>9
      <3>1. others \in Nat /\ torn' \in Nat /\ others + torn' = 0
        BY <1>2, <1>8
      <3>2. others = 0 /\ torn' = 0
        BY <3>1, NoSummand, Zenon
      <3>3. torn = 0
        BY <1>8, <3>2
      <3>4. kept = others + torn
        BY <1>6
      <3> QED BY <3>2, <3>3, <3>4
    <2> QED BY <2>1, <2>2, <2>3 DEF ScreenAccounts
  <1>12. FramesAreTrue'
    <2>1. \A i \in 1 .. n : frames[i].count <= Len(durations)
      BY DEF DisplayInv, Printed, n
    <2>2. \A i \in 1 .. n - 1 : frames[i].count <= frames[i + 1].count
      BY DEF DisplayInv, FramesAreTrue, n
    <2>3. \A i \in 1 .. n : frames'[i].count <= frames'[i + 1].count
      <3> SUFFICES ASSUME NEW i \in 1 .. n PROVE frames'[i].count <= frames'[i + 1].count
        OBVIOUS
      <3>1. CASE i = n
        BY <1>1, <1>4, <2>1, <3>1
      <3>2. CASE i < n
        <4>1. i \in 1 .. n - 1 /\ i + 1 \in 1 .. n
          BY <1>4, <3>2
        <4> QED BY <1>4, <2>2, <4>1
      <3> QED BY <1>4, <3>1, <3>2
    <2>4. \A i \in 1 .. n + 1 : InOrder(frames'[i])
      <3>1. \A i \in 1 .. n : InOrder(frames[i])
        BY DEF DisplayInv, FramesAreTrue, n
      <3> QED BY <1>1, <1>4, <3>1
    <2>5. Len(frames') - 1 = n
      BY <1>4
    <2> QED BY <1>2, <1>4, <2>3, <2>4, <2>5 DEF DisplayInv, FramesAreTrue
  <1>13. Ascending(durations)'
    BY <1>2 DEF DisplayInv, Ascending
  <1> QED BY <1>2, <1>4, <1>7, <1>8, <1>9, <1>10, <1>11, <1>12, <1>13 DEF DisplayInv, FrameLines

\* A print, whether it succeeds or fails
LEMMA PrintKeepsDisplay ==
    ASSUME DisplayInv, NEW caller \in {"tick", "stop"},
           PrintStats(caller) \/ PrintFails(caller), UNCHANGED data
    PROVE  DisplayInv'
  <1>1. CASE UNCHANGED display
    BY <1>1, DisplayStays
  <1>2. CASE PrintStats(caller)
    BY <1>2, WriteKeepsDisplay DEF PrintStats
  <1>3. CASE ~ (UNCHANGED display) /\ PrintFails(caller)
    <2>1. /\ Write(caller) /\ torn' = torn + Lines - lines_printed
          /\ UNCHANGED <<json_mode, lines_printed, others>>
      BY <1>3 DEF PrintFails
    <2> QED BY <2>1, WriteKeepsDisplay
  <1> QED BY <1>1, <1>2, <1>3

-----------------------------------------------------------------------------
(* The timers.                                                                *)

\* A live timer that goes on or dies makes no other one live
LEMMA TimerMoves ==
    ASSUME ChainInv, NEW t \in Live, NEW s \in {"print", "assign", "launch", "dead"},
           s = "print" => timers[t] = "waiting" /\ t \notin cancelled,
           s = "assign" => timers[t] = "print",
           timers' = [timers EXCEPT ![t] = s], UNCHANGED <<timer, cancelled, overtaken, main>>
    PROVE  ChainInv'
  <1>1. t \in 1 .. MaxTimers /\ timers[t] # "none" /\ timers \in [1 .. MaxTimers -> TimerStates]
    BY DEF ChainInv, Live
  <1>2. /\ timers' \in [1 .. MaxTimers -> TimerStates]
        /\ timers'[t] = s
        /\ \A u \in 1 .. MaxTimers : u # t => timers'[u] = timers[u]
    BY <1>1 DEF TimerStates
  <1>3. Live' \subseteq Live
    BY <1>1, <1>2 DEF Live
  <1>4. Pending' \subseteq Pending
    BY <1>1, <1>2 DEF Pending
  <1>5. main \notin {"start", "launch"}
    BY <1>1 DEF ChainInv, ChainPlace
  <1>6. ChainPlace'
    <2>1. \A u \in 1 .. MaxTimers : timers[u] # "none" => timers'[u] # "none"
      BY <1>1, <1>2
    <2>2. ASSUME main \notin {"print", "stopped", "failed"}
          PROVE  /\ timer # None
                 /\ \A u \in 1 .. MaxTimers : timers'[u] \in {"created", "waiting"} => u = timer
                 /\ \A u, v \in 1 .. MaxTimers :
                       timers'[u] \in {"print", "assign"} => timers'[v] # "created"
      <3>1. /\ timer # None
            /\ \A u \in 1 .. MaxTimers : timers[u] \in {"created", "waiting"} => u = timer
            /\ \A u, v \in 1 .. MaxTimers :
                  timers[u] \in {"print", "assign"} => timers[v] # "created"
        BY <1>1, <2>2 DEF ChainInv, ChainPlace
      <3>2. s \in {"print", "assign"} => \A v \in 1 .. MaxTimers : timers[v] # "created"
        BY <1>1, <3>1
      <3> QED BY <1>1, <1>2, <3>1, <3>2
    <2> QED BY <1>2, <1>5, <2>1, <2>2 DEF ChainInv, ChainPlace
  <1> QED BY <1>2, <1>3, <1>4, <1>6 DEF ChainInv

\* What _schedule's first line creates is a timer that was not there
LEMMA NewTimer ==
    ASSUME NEW states, Create(states)
    PROVE  /\ timer' \in 1 .. MaxTimers /\ timers[timer'] = "none"
           /\ timers' = [states EXCEPT ![timer'] = "created"]
  <1>1. Unused \in SUBSET Nat /\ Unused # {}
    BY StatsAssumption DEF Unused, Create
  <1>2. \E x \in Unused : \A y \in Unused : x <= y
    BY <1>1, LeastNat
  <1>3. Min(Unused) \in Unused
    BY <1>2 DEF Min
  <1> QED BY <1>3 DEF Unused, Create

\* The tick that creates a timer was the only live one
LEMMA CreateKeepsChain ==
    ASSUME ChainInv, NEW t \in 1 .. MaxTimers, TickCreates(t)
    PROVE  ChainInv'
  <1> DEFINE new == timer'
  <1>1. /\ timers[t] = "assign" /\ UNCHANGED <<cancelled, overtaken, main>>
        /\ new \in 1 .. MaxTimers /\ timers[new] = "none"
        /\ timers' = [[timers EXCEPT ![t] = "daemon"] EXCEPT ![new] = "created"]
    BY NewTimer DEF TickCreates
  <1>2. timers \in [1 .. MaxTimers -> TimerStates]
    BY DEF ChainInv
  <1> HIDE DEF new
  <1>3. /\ timers' \in [1 .. MaxTimers -> TimerStates]
        /\ new # t /\ timers'[new] = "created" /\ timers'[t] = "daemon"
        /\ \A u \in 1 .. MaxTimers : u # new /\ u # t => timers'[u] = timers[u]
    BY <1>1, <1>2 DEF TimerStates
  <1>4. t \in Live /\ t \in Pending
    BY <1>1 DEF Live, Pending
  <1>5. Live' \subseteq Live
    BY <1>3, <1>4 DEF Live
  <1>6. ~ overtaken' /\ main' \in {"clear", "print", "stopped", "failed"} => Pending' = {}
    BY <1>1, <1>4 DEF ChainInv
  <1>7. main \notin {"start", "launch"}
    BY <1>1, <1>4 DEF ChainInv, ChainPlace
  <1>8. \A u \in 1 .. MaxTimers : u # t => u \notin Live
    BY <1>4 DEF ChainInv
  <1>9. ASSUME main \notin {"print", "stopped", "failed"}
        PROVE  /\ \A u \in 1 .. MaxTimers : timers'[u] \in {"created", "waiting"} => u = new
               /\ \A u \in 1 .. MaxTimers : timers'[u] \notin {"print", "assign"}
    <2>1. \A u \in 1 .. MaxTimers : timers[u] # "created"
      BY <1>1, <1>9 DEF ChainInv, ChainPlace
    <2>2. \A u \in 1 .. MaxTimers : u # t => timers[u] \notin {"waiting", "print", "assign"}
      BY <1>8 DEF Live
    <2> QED BY <1>3, <2>1, <2>2
  <1>10. new # None
    BY <1>1, StatsAssumption
  <1> QED BY <1>1, <1>3, <1>5, <1>6, <1>7, <1>9, <1>10 DEF ChainInv, ChainPlace, new

\* The tick that starts a timer ends
LEMMA LaunchKeepsChain ==
    ASSUME ChainInv, NEW t \in 1 .. MaxTimers, TickLaunches(t)
    PROVE  ChainInv'
  <1>1. /\ timers[t] = "launch" /\ UNCHANGED <<timer, cancelled, overtaken, main>>
        /\ timers' = [u \in 1 .. MaxTimers |->
                        IF u = t THEN "dead"
                        ELSE IF Startable /\ u = timer THEN "waiting" ELSE timers[u]]
    BY DEF TickLaunches
  <1>2. timers \in [1 .. MaxTimers -> TimerStates] /\ timer \in 1 .. MaxTimers \cup {None}
    BY DEF ChainInv
  <1>3. t \in Live /\ \A u \in 1 .. MaxTimers : u # t => u \notin Live
    BY <1>1 DEF ChainInv, Live
  <1>4. /\ timers' \in [1 .. MaxTimers -> TimerStates] /\ timers'[t] = "dead"
        /\ \A u \in 1 .. MaxTimers :
              timers'[u] = timers[u] \/ u = t
              \/ (u = timer /\ timers[u] = "created" /\ timers'[u] = "waiting")
    BY <1>1, <1>2 DEF TimerStates, Startable
  <1>5. \A u \in Live' : u = timer
    BY <1>3, <1>4 DEF Live
  <1>6. Pending' \subseteq Pending
    BY <1>1, <1>4 DEF Pending
  <1>7. main \notin {"start", "launch"}
    BY <1>1, <1>3 DEF ChainInv, ChainPlace
  <1>8. \A u \in 1 .. MaxTimers : timers[u] # "none" => timers'[u] # "none"
    BY <1>1, <1>4
  <1>9. ASSUME main \notin {"print", "stopped", "failed"}
        PROVE  /\ timer # None
               /\ \A u \in 1 .. MaxTimers : timers'[u] \in {"created", "waiting"} => u = timer
               /\ \A u \in 1 .. MaxTimers : timers'[u] \notin {"print", "assign"}
    <2>1. /\ timer # None
          /\ \A u \in 1 .. MaxTimers : timers[u] \in {"created", "waiting"} => u = timer
      BY <1>1, <1>9 DEF ChainInv, ChainPlace
    <2>2. \A u \in 1 .. MaxTimers : u # t => timers[u] \notin {"print", "assign"}
      BY <1>3 DEF Live
    <2> QED BY <1>4, <2>1, <2>2
  <1>10. ChainPlace'
    BY <1>1, <1>2, <1>7, <1>8, <1>9 DEF ChainInv, ChainPlace
  <1> QED BY <1>1, <1>4, <1>5, <1>6, <1>10 DEF ChainInv

\* start creates and starts the first timer, with no other one there
LEMMA StartKeepsChain ==
    ASSUME ChainInv, Start \/ StartLaunches
    PROVE  ChainInv'
  <1>1. timers \in [1 .. MaxTimers -> TimerStates] /\ timer \in 1 .. MaxTimers \cup {None}
    BY DEF ChainInv
  <1>2. CASE Start
    <2> DEFINE new == timer'
    <2>1. /\ new \in 1 .. MaxTimers /\ timers' = [timers EXCEPT ![new] = "created"]
          /\ UNCHANGED <<cancelled, overtaken>> /\ main' = "launch"
          /\ \A u \in 1 .. MaxTimers : timers[u] = "none"
      BY <1>2, NewTimer DEF Start, ChainInv, ChainPlace
    <2> HIDE DEF new
    <2>2. /\ timers' \in [1 .. MaxTimers -> TimerStates] /\ timers'[new] = "created"
          /\ \A u \in 1 .. MaxTimers : u # new => timers'[u] = "none"
      BY <1>1, <2>1 DEF TimerStates
    <2>3. Live' = {}
      BY <2>2 DEF Live
    <2>4. (timer' # None => Startable') /\ timer' = new
      BY <2>2 DEF Startable, new
    <2>5. new # None
      BY <2>1, StatsAssumption
    <2> QED BY <2>1, <2>2, <2>3, <2>4, <2>5 DEF ChainInv, ChainPlace
  <1>3. CASE StartLaunches
    <2>1. /\ Startable /\ Live = {} /\ timers' = [timers EXCEPT ![timer] = "waiting"]
          /\ UNCHANGED <<timer, cancelled, overtaken>> /\ main = "launch" /\ main' = "detector"
      BY <1>3 DEF StartLaunches, ChainInv, ChainPlace
    <2>2. timer \in 1 .. MaxTimers /\ timer # None /\ timers[timer] = "created"
      BY <1>1, <2>1 DEF Startable
    <2>3. /\ timers' \in [1 .. MaxTimers -> TimerStates] /\ timers'[timer] = "waiting"
          /\ \A u \in 1 .. MaxTimers : u # timer => timers'[u] = timers[u]
      BY <1>1, <2>1, <2>2 DEF TimerStates
    <2>4. \A u \in 1 .. MaxTimers : timers[u] \notin {"waiting", "print", "assign", "daemon", "launch"}
      BY <2>1 DEF Live
    <2>5. \A u \in Live' : u = timer
      BY <2>3, <2>4 DEF Live
    <2>6. \A u \in 1 .. MaxTimers : timers[u] \in {"created", "waiting"} => u = timer
      BY <2>1 DEF ChainInv, ChainPlace
    <2>7. ChainPlace'
      BY <2>1, <2>2, <2>3, <2>4, <2>6 DEF ChainPlace
    <2> QED BY <2>1, <2>3, <2>5, <2>7 DEF ChainInv
  <1> QED BY <1>2, <1>3

\* stop's cancel finds the newest timer, which is the only one that could fire,
\* unless a tick has yet to create it
LEMMA CancelKeepsChain ==
    ASSUME ChainInv, StopCancels
    PROVE  ChainInv'
  <1>1. /\ main = "cancel" /\ main' = "clear" /\ UNCHANGED <<timer, timers>>
        /\ cancelled' = cancelled \cup {timer}
        /\ overtaken' = \E t \in Live : timers[t] \in {"print", "assign"}
    BY DEF StopCancels
  <1>2. timer # None /\ timer \in 1 .. MaxTimers
    BY <1>1 DEF ChainInv, ChainPlace
  <1>3. overtaken' \in BOOLEAN
    BY <1>1, Zenon
  <1>4. Live' = Live
    BY <1>1 DEF Live
  <1>5. ASSUME ~ overtaken' PROVE Pending' = {}
    <2>1. \A t \in 1 .. MaxTimers : timers[t] \notin {"print", "assign"}
      BY <1>1, <1>5 DEF Live
    <2>2. \A t \in 1 .. MaxTimers : timers[t] \in {"created", "waiting"} => t = timer
      BY <1>1 DEF ChainInv, ChainPlace
    <2> QED BY <1>1, <2>1, <2>2 DEF Pending
  <1>6. ChainPlace'
    BY <1>1, <1>2 DEF ChainInv, ChainPlace
  <1> QED BY <1>1, <1>2, <1>3, <1>4, <1>5, <1>6 DEF ChainInv

\* The main thread's other steps touch at most _timer
LEMMA MainKeepsChain ==
    ASSUME ChainInv, UNCHANGED <<timers, cancelled, overtaken>>,
           \/ UNCHANGED <<timer, main>>
           \/ timer' = timer /\ main' \in {"detector", "running", "test", "unstopped"}
              /\ main \in {"start", "launch", "detector", "running"}
           \/ timer' = timer /\ main = "test" /\ main' = (IF timer = None THEN "print" ELSE "cancel")
           \/ timer' = None /\ main = "clear" /\ main' = "print"
           \/ timer' = timer /\ main = "print" /\ main' \in {"stopped", "failed"}
    PROVE  ChainInv'
  <1>1. Live' = Live /\ Pending' = Pending
    BY DEF Live, Pending
  <1>2. ChainPlace'
    BY <1>1 DEF ChainInv, ChainPlace, Startable
  <1>3. ~ overtaken' /\ main' \in {"clear", "print", "stopped", "failed"} => Pending' = {}
    <2>1. CASE main = "test" /\ timer = None
      <3>1. \A t \in 1 .. MaxTimers : timers[t] = "none"
        BY <2>1 DEF ChainInv, ChainPlace
      <3> QED BY <1>1, <3>1 DEF Pending
    <2>2. CASE ~ (main = "test" /\ timer = None)
      BY <1>1, <2>2 DEF ChainInv
    <2> QED BY <2>1, <2>2
  <1>4. timer' \in 1 .. MaxTimers \cup {None}
    BY DEF ChainInv
  <1> QED BY <1>1, <1>2, <1>3, <1>4 DEF ChainInv

-----------------------------------------------------------------------------
(* The reader and the final print.                                            *)

\* Nothing that the reader and stop have left changes
LEMMA ReaderStays ==
    ASSUME ReaderInv, UNCHANGED <<durations, frames, reader_on, late, main, overtaken>>
    PROVE  ReaderInv'
  BY DEF ReaderInv, ReaderPlace, FinalPlace, FinalIsComplete, FinalIsLast

\* A frame of a timer: none comes behind stop's own, unless stop was overtaken
LEMMA TickKeepsReader ==
    ASSUME DisplayInv, ChainInv, ReaderInv, Pending # {}, Write("tick"),
           UNCHANGED <<durations, reader_on, late, main, overtaken>>
    PROVE  ReaderInv'
  <1> DEFINE f == Stats("tick")
             n == Len(frames)
  <1>1. f \in Frames /\ f.by = "tick" /\ frames' = Append(frames, f)
    BY StatsOrdered DEF DisplayInv, Write
  <1> HIDE DEF f
  <1>2. /\ n \in Nat /\ Len(frames') = n + 1 /\ frames'[n + 1] = f
        /\ \A i \in 1 .. n : frames'[i] = frames[i]
    BY <1>1 DEF DisplayInv
  <1>3. \A i \in 1 .. n + 1 : frames'[i].by = "stop" => i \in 1 .. n
    BY <1>1, <1>2
  <1> HIDE DEF n
  <1>4. FinalPlace'
    BY <1>2, <1>3 DEF ReaderInv, FinalPlace, n
  <1>5. FinalIsComplete'
    BY <1>2, <1>3 DEF ReaderInv, FinalIsComplete, n
  <1>6. ~ overtaken => main # "stopped"
    BY DEF ChainInv
  <1> QED BY <1>4, <1>5, <1>6 DEF ReaderInv, ReaderPlace, FinalIsLast

\* Events only come before the final print, unless the reader was not joined
LEMMA EventKeepsReader ==
    ASSUME ReaderInv, NEW d \in Durations, OnEvent(d)
    PROVE  ReaderInv'
  <1>1. reader_on /\ frames' = frames /\ UNCHANGED <<reader_on, main, late, overtaken>>
    BY DEF OnEvent, display, chain
  <1>2. late \/ main = "running"
    BY <1>1 DEF ReaderInv, ReaderPlace
  <1>3. FinalIsComplete'
    BY <1>1, <1>2 DEF ReaderInv, FinalPlace, FinalIsComplete
  <1> QED BY <1>1, <1>3 DEF ReaderInv, ReaderPlace, FinalPlace, FinalIsLast

\* The main thread's steps before the final print
LEMMA MainKeepsReader ==
    ASSUME ReaderInv, UNCHANGED <<durations, frames>>,
           \/ Start \/ StartLaunches \/ StartDetector \/ StopReader
           \/ StopTests \/ StopCancels \/ StopClears
    PROVE  ReaderInv'
  <1>1. main \notin {"stopped", "failed"} /\ main' \notin {"stopped", "failed"} /\ main' \in MainStates
    BY DEF Start, StartLaunches, StartDetector, StopReader, StopTests, StopCancels, StopClears,
           MainStates
  <1>2. FinalPlace' /\ FinalIsComplete' /\ FinalIsLast'
    BY <1>1 DEF ReaderInv, FinalPlace, FinalIsComplete, FinalIsLast
  <1>3. CASE Start \/ StartLaunches \/ StopTests \/ StopCancels \/ StopClears
    <2>1. UNCHANGED <<reader_on, late>> /\ main # "running"
      BY <1>3 DEF Start, StartLaunches, StopTests, StopCancels, StopClears
    <2> QED BY <1>1, <1>2, <2>1 DEF ReaderInv, ReaderPlace
  <1>4. CASE StartDetector
    <2>1. reader_on' \in BOOLEAN /\ late' = late /\ main' = "running"
      BY <1>4, Zenon DEF StartDetector
    <2> QED BY <1>1, <1>2, <2>1 DEF ReaderInv, ReaderPlace
  <1>5. CASE StopReader
    <2>1. reader_on \in BOOLEAN
      BY DEF ReaderInv
    <2>2. reader_on' \in BOOLEAN /\ late' \in BOOLEAN /\ (reader_on' => late')
      BY <1>5, <2>1, Zenon DEF StopReader
    <2> QED BY <1>1, <1>2, <2>2 DEF ReaderInv, ReaderPlace
  <1> QED BY <1>3, <1>4, <1>5

\* The final print counts what the joined reader has left, and is the last frame
LEMMA FinalKeepsReader ==
    ASSUME DisplayInv, ReaderInv, StopPrints \/ StopPrintFails
    PROVE  ReaderInv'
  <1>1. /\ main = "print" /\ UNCHANGED <<durations, reader_on, late, overtaken>>
        /\ main' \in {"stopped", "failed"} /\ (StopPrintFails => main' = "failed")
    BY DEF StopPrints, StopPrintFails, data, chain
  <1>2. \A i \in 1 .. Len(frames) : frames[i].by # "stop"
    BY <1>1 DEF ReaderInv, FinalPlace
  <1>3. CASE Write("stop")
    <2> DEFINE f == Stats("stop")
               n == Len(frames)
    <2>1. f \in Frames /\ f.by = "stop" /\ f.count = Len(durations) /\ frames' = Append(frames, f)
      BY <1>3, StatsOrdered DEF DisplayInv, Write
    <2> HIDE DEF f
    <2>2. /\ n \in Nat /\ Len(frames') = n + 1 /\ frames'[n + 1] = f /\ frames' # <<>>
          /\ \A i \in 1 .. n : frames'[i] = frames[i]
      BY <2>1 DEF DisplayInv
    <2>3. \A i \in 1 .. n + 1 : frames'[i].by = "stop" => i = n + 1
      BY <1>2, <2>2
    <2> HIDE DEF n
    <2>4. FinalIsComplete'
      BY <1>1, <2>1, <2>2, <2>3 DEF FinalIsComplete
    <2>5. FinalIsLast'
      BY <2>1, <2>2 DEF FinalIsLast
    <2> QED BY <1>1, <2>2, <2>4, <2>5 DEF ReaderInv, MainStates, ReaderPlace, FinalPlace
  <1>4. CASE ~ Write("stop")
    <2>1. frames' = frames /\ main' = "failed"
      BY <1>1, <1>4 DEF StopPrints, StopPrintFails, PrintStats, PrintFails, display
    <2> QED BY <1>1, <2>1
            DEF ReaderInv, MainStates, ReaderPlace, FinalPlace, FinalIsComplete, FinalIsLast
  <1> QED BY <1>3, <1>4

-----------------------------------------------------------------------------
\* A timer's thread
LEMMA TickKeeps ==
    ASSUME StatsInv, NEW t \in 1 .. MaxTimers,
           \/ Fire(t) \/ CancelledTimerEnds(t) \/ TickPrints(t) \/ TickPrintFails(t)
           \/ TickCreates(t) \/ TickSetsDaemon(t) \/ TickLaunches(t)
    PROVE  StatsInv'
  <1>1. DisplayInv /\ ChainInv /\ ReaderInv
    BY StatsParts
  <1>2. t \in Live
    BY DEF Live, Fire, CancelledTimerEnds, TickPrints, TickPrintFails, TickCreates,
           TickSetsDaemon, TickLaunches
  <1>3. UNCHANGED <<durations, warned, cancelled, overtaken, reader_on, main, late>>
    BY DEF data, Fire, CancelledTimerEnds, TickPrints, TickPrintFails, TickCreates,
           TickSetsDaemon, TickLaunches
  <1>4. CASE TickPrints(t) \/ TickPrintFails(t)
    <2>1. /\ PrintStats("tick") \/ PrintFails("tick")
          /\ timers[t] = "print" /\ timer' = timer
          /\ \E s \in {"assign", "dead"} : timers' = [timers EXCEPT ![t] = s]
      BY <1>4 DEF TickPrints, TickPrintFails
    <2>2. DisplayInv'
      BY <1>1, <1>3, <2>1, PrintKeepsDisplay DEF data
    <2>3. ChainInv'
      BY <1>1, <1>2, <1>3, <2>1, TimerMoves
    <2>4. Pending # {}
      BY <2>1 DEF Pending
    <2>5. Write("tick") \/ frames' = frames
      BY <2>1 DEF PrintStats, PrintFails, display
    <2>6. ReaderInv'
      BY <1>1, <1>3, <2>4, <2>5, TickKeepsReader, ReaderStays
    <2> QED BY <2>2, <2>3, <2>6, StatsPartsAfter
  <1>5. CASE \/ Fire(t) \/ CancelledTimerEnds(t)
             \/ TickCreates(t) \/ TickSetsDaemon(t) \/ TickLaunches(t)
    <2>1. UNCHANGED display
      BY <1>5 DEF Fire, CancelledTimerEnds, TickCreates, TickSetsDaemon, TickLaunches
    <2>2. DisplayInv' /\ ReaderInv'
      BY <1>1, <1>3, <2>1, DisplayStays, ReaderStays DEF display, data
    <2>3. CASE Fire(t)
      <3>1. /\ timers[t] = "waiting" /\ t \notin cancelled
            /\ timers' = [timers EXCEPT ![t] = "print"] /\ timer' = timer
        BY <2>3 DEF Fire
      <3>2. ChainInv'
        BY <1>1, <1>2, <1>3, <3>1, TimerMoves
      <3> QED BY <2>2, <3>2, StatsPartsAfter
    <2>4. CASE CancelledTimerEnds(t) \/ TickSetsDaemon(t)
      <3>1. timer' = timer /\ \E s \in {"launch", "dead"} : timers' = [timers EXCEPT ![t] = s]
        BY <2>4 DEF CancelledTimerEnds, TickSetsDaemon
      <3>2. ChainInv'
        BY <1>1, <1>2, <1>3, <3>1, TimerMoves
      <3> QED BY <2>2, <3>2, StatsPartsAfter
    <2>5. CASE TickCreates(t) \/ TickLaunches(t)
      <3>1. ChainInv'
        BY <1>1, <2>5, CreateKeepsChain, LaunchKeepsChain
      <3> QED BY <2>2, <3>1, StatsPartsAfter
    <2> QED BY <1>5, <2>3, <2>4, <2>5
  <1> QED BY <1>4, <1>5

\* The main thread
LEMMA MainKeeps ==
    ASSUME StatsInv,
           \/ Start \/ StartLaunches \/ StartDetector \/ StopReader
           \/ StopTests \/ StopCancels \/ StopClears \/ StopPrints \/ StopPrintFails
    PROVE  StatsInv'
  <1>1. DisplayInv /\ ChainInv /\ ReaderInv
    BY StatsParts
  <1>2. CASE StopPrints \/ StopPrintFails
    <2>1. /\ PrintStats("stop") \/ PrintFails("stop")
          /\ UNCHANGED <<data, timer, timers, cancelled, overtaken>>
          /\ main = "print" /\ main' \in {"stopped", "failed"}
      BY <1>2 DEF StopPrints, StopPrintFails, chain
    <2>2. DisplayInv'
      BY <1>1, <2>1, PrintKeepsDisplay
    <2>3. ChainInv'
      BY <1>1, <2>1, MainKeepsChain
    <2> QED BY <1>1, <1>2, <2>2, <2>3, FinalKeepsReader, StatsPartsAfter
  <1>3. CASE \/ Start \/ StartLaunches \/ StartDetector \/ StopReader
             \/ StopTests \/ StopCancels \/ StopClears
    <2>1. UNCHANGED <<display, data>>
      BY <1>3 DEF Start, StartLaunches, StartDetector, StopReader, StopTests, StopCancels, StopClears
    <2>2. UNCHANGED <<durations, frames>>
      BY <2>1 DEF display, data
    <2>3. DisplayInv' /\ ReaderInv'
      BY <1>1, <1>3, <2>1, <2>2, DisplayStays, MainKeepsReader
    <2>4. CASE StartDetector \/ StopReader \/ StopTests \/ StopClears
      <3>1. UNCHANGED <<timers, cancelled, overtaken>>
        BY <2>4 DEF StartDetector, StopReader, StopTests, StopClears, chain
      <3>2. CASE StartDetector \/ StopReader
        <4>1. /\ timer' = timer /\ main' \in {"detector", "running", "test", "unstopped"}
              /\ main \in {"start", "launch", "detector", "running"}
          BY <3>2 DEF StartDetector, StopReader, chain
        <4>2. ChainInv'
          BY <1>1, <3>1, <4>1, MainKeepsChain
        <4> QED BY <2>3, <4>2, StatsPartsAfter
      <3>3. CASE StopTests
        <4>1. timer' = timer /\ main = "test" /\ main' = (IF timer = None THEN "print" ELSE "cancel")
          BY <3>3 DEF StopTests, chain
        <4>2. ChainInv'
          BY <1>1, <3>1, <4>1, MainKeepsChain
        <4> QED BY <2>3, <4>2, StatsPartsAfter
      <3>4. CASE StopClears
        <4>1. timer' = None /\ main = "clear" /\ main' = "print"
          BY <3>4 DEF StopClears
        <4>2. ChainInv'
          BY <1>1, <3>1, <4>1, MainKeepsChain
        <4> QED BY <2>3, <4>2, StatsPartsAfter
      <3> QED BY <2>4, <3>2, <3>3, <3>4
    <2>5. CASE Start \/ StartLaunches \/ StopCancels
      <3>1. ChainInv'
        BY <1>1, <2>5, StartKeepsChain, CancelKeepsChain
      <3> QED BY <2>3, <3>1, StatsPartsAfter
    <2> QED BY <1>3, <2>4, <2>5
  <1> QED BY <1>2, <1>3

LEMMA StatsStep == StatsInv /\ [StatsNext]_statsVars => StatsInv'
  <1> SUFFICES ASSUME StatsInv, [StatsNext]_statsVars PROVE StatsInv'
    OBVIOUS
  <1>1. DisplayInv /\ ChainInv /\ ReaderInv
    BY StatsParts
  <1>2. ASSUME NEW d \in Durations, OnEvent(d) PROVE StatsInv'
    <2>1. UNCHANGED <<timer, timers, cancelled, overtaken, main>>
      BY <1>2 DEF OnEvent, chain
    <2>2. ChainInv'
      BY <1>1, <2>1, MainKeepsChain
    <2> QED BY <1>1, <1>2, <2>2, EventKeepsDisplay, EventKeepsReader, StatsPartsAfter
  <1>3. CASE OtherWrites
    <2>1. UNCHANGED <<timer, timers, cancelled, overtaken, main, durations, frames, reader_on, late>>
      BY <1>3 DEF OtherWrites, chain, data
    <2>2. DisplayInv' /\ ChainInv' /\ ReaderInv'
      BY <1>1, <1>3, <2>1, OtherKeepsDisplay, MainKeepsChain, ReaderStays
    <2> QED BY <2>2, StatsPartsAfter
  <1>4. CASE UNCHANGED statsVars
    <2>1. /\ UNCHANGED <<display, data>>
          /\ UNCHANGED <<timer, timers, cancelled, overtaken, main, durations, frames, reader_on, late>>
      BY <1>4 DEF statsVars, display, data, chain
    <2>2. DisplayInv' /\ ChainInv' /\ ReaderInv'
      BY <1>1, <2>1, DisplayStays, MainKeepsChain, ReaderStays
    <2> QED BY <2>2, StatsPartsAfter
  <1> QED BY <1>2, <1>3, <1>4, TickKeeps, MainKeeps DEF StatsNext

\* stats.py, whatever the interleaving of the reader, the timers, stop and the
\* other writers, and however many of them: the durations stay sorted, one chain
\* of timers lives, and terminal and frames are what the four properties below say.
THEOREM StatsInvariant == StatsSpec => []StatsInv
  BY StatsBegins, StatsStep, PTL DEF StatsSpec

\* _tick, _schedule and stop, line by line and without a lock: never a second chain
\* of timers, and none behind stop, unless stop cancelled while a tick was printing
\* or about to assign _timer.
THEOREM TimersFormOneChain == StatsSpec => []OneChain
  <1>1. StatsInv => OneChain
    BY DEF StatsInv
  <1> QED BY <1>1, StatsInvariant, PTL

\* _print_stats: every frame of every thread is true of the durations, for any
\* number of events and any durations.
THEOREM PrintedFramesAreTrue == StatsSpec => []FramesAreTrue
  <1>1. StatsInv => FramesAreTrue
    BY DEF StatsInv
  <1> QED BY <1>1, StatsInvariant, PTL

\* _print_console on a shared terminal: the newest frame is whole, and for each
\* line of another writer or of a failed flush one line too many stays.
THEOREM TerminalAccountsForLines == StatsSpec => []ScreenAccounts
  <1>1. StatsInv => ScreenAccounts
    BY DEF StatsInv
  <1> QED BY <1>1, StatsInvariant, PTL

\* stop's statistics count every event when the reader was joined in time.
THEOREM FinalCountsAll == StatsSpec => []FinalIsComplete
  <1>1. StatsInv => FinalIsComplete
    BY DEF StatsInv
  <1> QED BY <1>1, StatsInvariant, PTL

-----------------------------------------------------------------------------
(* Before a session: the doctor, and whom sampler and probes are told to      *)
(* watch.  PreflightInv is inductive; the moves of the target, the reads and  *)
(* the decisions of the two commands preserve it for different reasons.       *)

\* What the named assumptions say, in the form the proofs use
LEMMA TasksKnown ==
    /\ Gone \notin KnownTasks
    /\ \A table \in Tables : table \in [Numbers -> KnownTasks] /\ Numbered(table)
    /\ \A n \in Numbers : Newcomers[n] \subseteq KnownTasks
    /\ Pid \in Numbers
  <1>1. \A n \in Numbers : Newcomers[n] \subseteq KnownTasks
    BY DEF KnownTasks
  <1> QED BY <1>1, TablesAssumption DEF Numbers

\* The number in the path of each read
LEMMA PathsAre ==
    /\ Len(DoctorReads) = 4 /\ Len(CoreReads) = 5 /\ Len(BccReads) = 3
    /\ DoctorReads[1] = Pid /\ DoctorReads[2] = tid /\ DoctorReads[3] = Pid /\ DoctorReads[4] = tid
    /\ CoreReads[1] = Pid /\ CoreReads[2] = Pid
    /\ CoreReads[3] = tid /\ CoreReads[4] = tid /\ CoreReads[5] = tid
    /\ BccReads[1] = Pid /\ BccReads[2] = tid /\ BccReads[3] = Pid
  BY DEF DoctorReads, CoreReads, BccReads

LEMMA PathsAreNumbers ==
    ASSUME tid \in Numbers
    PROVE  /\ Paths \in Seq(Numbers)
           /\ DoctorReads \in Seq(Numbers) /\ DetectorReads \in Seq(Numbers)
           /\ <<Pid, Pid, tid>> \in Seq(Numbers)
  BY TasksKnown DEF Paths, DoctorReads, CoreReads, BccReads, DetectorReads

LEMMA PreflightBegins == PreflightInit => PreflightInv
  <1> SUFFICES ASSUME PreflightInit PROVE PreflightInv
    OBVIOUS
  <1>1. /\ procfs \in Tables /\ tid \in Numbers /\ seen = <<>> /\ reuses = 0 /\ changed = FALSE
        /\ wanted = procfs[tid] /\ env \in Environments /\ opts \in Options
        /\ phase = "doctor" /\ report = "none"
    BY DEF PreflightInit, IdentityInit
  <1>2. procfs \in [Numbers -> KnownTasks] /\ Numbered(procfs)
    BY <1>1, TasksKnown
  <1>3. PreflightTypeOK
    BY <1>1, <1>2, TablesAssumption DEF PreflightTypeOK
  <1>4. ThreadsHaveProcess
    BY <1>2, TasksKnown DEF ThreadsHaveProcess, Numbered
  <1>5. Snapshot
    BY <1>1, PathsAre DEF Snapshot, Paths
  <1>6. DoctorIsRight /\ ReadyMeansRunnable /\ AimedAtTable /\ ReusesNeeded /\ CoreSparesBystanders
    BY <1>1 DEF DoctorIsRight, ReadyMeansRunnable, AimedAtTable, ReusesNeeded, CoreSparesBystanders
  <1> QED BY <1>3, <1>4, <1>5, <1>6 DEF PreflightInv

-----------------------------------------------------------------------------
(* The target moves.                                                          *)

\* What an exit or a new task does to /proc
LEMMA MovesProc ==
    ASSUME PreflightInv, NEW n \in Numbers, TaskExits(n) \/ NumberReused(n)
    PROVE  /\ procfs' \in [Numbers -> KnownTasks \cup {Gone}]
           /\ ThreadsHaveProcess'
           /\ changed'
           /\ reuses' \in 0 .. MaxReuses
  <1>1. procfs \in [Numbers -> KnownTasks \cup {Gone}] /\ reuses \in 0 .. MaxReuses
    BY DEF PreflightInv, PreflightTypeOK
  <1>2. ThreadsHaveProcess
    BY DEF PreflightInv
  <1>3. CASE TaskExits(n)
    <2>1. procfs' \in [Numbers -> KnownTasks \cup {Gone}] /\ changed' /\ reuses' = reuses
      BY <1>1, <1>3 DEF TaskExits
    <2>2. ASSUME NEW m \in Numbers, procfs'[m] # Gone, procfs'[m].tgid \in Numbers
          PROVE  procfs'[procfs'[m].tgid] # Gone /\ Kin(procfs'[m], procfs'[procfs'[m].tgid])
      <3>1. procfs'[m] = procfs[m] /\ procfs[m].tgid # n
        BY <1>3, <2>2 DEF TaskExits
      <3>2. procfs[procfs[m].tgid] # Gone /\ Kin(procfs[m], procfs[procfs[m].tgid])
        BY <1>2, <2>2, <3>1 DEF ThreadsHaveProcess
      <3>3. procfs'[procfs[m].tgid] = procfs[procfs[m].tgid]
        BY <1>3, <2>2, <3>1, <3>2 DEF TaskExits, Kin
      <3> QED BY <3>1, <3>2, <3>3
    <2> QED BY <1>1, <2>1, <2>2 DEF ThreadsHaveProcess
  <1>4. CASE NumberReused(n)
    <2>1. PICK t \in Newcomers[n] :
              /\ t.tgid \in Numbers \ {n} => procfs[t.tgid] # Gone /\ Kin(t, procfs[t.tgid])
              /\ procfs' = [procfs EXCEPT ![n] = t]
      BY <1>4 DEF NumberReused
    <2>2. t \in KnownTasks /\ t # Gone
      BY TasksKnown
    <2>3. procfs[n] = Gone /\ reuses' = reuses + 1 /\ reuses < MaxReuses
      BY <1>4 DEF NumberReused
    <2>4. procfs' \in [Numbers -> KnownTasks \cup {Gone}]
      BY <1>1, <2>1, <2>2
    <2>5. ASSUME NEW m \in Numbers, procfs'[m] # Gone, procfs'[m].tgid \in Numbers
          PROVE  procfs'[procfs'[m].tgid] # Gone /\ Kin(procfs'[m], procfs'[procfs'[m].tgid])
      <3>1. CASE m = n
        BY <1>1, <2>1, <2>2, <2>5, <3>1 DEF Kin
      <3>2. CASE m # n
        <4>1. procfs'[m] = procfs[m]
          BY <1>1, <2>1, <3>2
        <4>2. procfs[procfs[m].tgid] # Gone /\ Kin(procfs[m], procfs[procfs[m].tgid])
          BY <1>2, <2>5, <4>1 DEF ThreadsHaveProcess
        <4> QED BY <1>1, <2>1, <2>3, <2>5, <4>1, <4>2
      <3> QED BY <3>1, <3>2
    <2>6. changed'
      <3>1. changed
        BY <2>3, TasksKnown DEF PreflightInv, Snapshot
      <3> QED BY <1>4, <3>1 DEF NumberReused
    <2>7. reuses' \in 0 .. MaxReuses
      BY <1>1, <2>3, TablesAssumption
    <2> QED BY <2>4, <2>5, <2>6, <2>7 DEF ThreadsHaveProcess
  <1> QED BY <1>3, <1>4

\* An exit makes nothing reachable that was not; a reuse is one more
LEMMA MovesNeeded ==
    ASSUME PreflightInv, NEW n \in Numbers, TaskExits(n) \/ NumberReused(n),
           phase' = phase, opts' = opts
    PROVE  ReusesNeeded'
  <1>1. /\ procfs \in [Numbers -> KnownTasks \cup {Gone}] /\ reuses \in Nat
        /\ tid \in Numbers /\ Pid \in Numbers
    BY TasksKnown DEF PreflightInv, PreflightTypeOK
  <1>2. seen' = seen /\ tid' = tid
    BY DEF TaskExits, NumberReused
  <1>3. \A k \in Nat : Slipped(k)' = Slipped(k)
    BY <1>2 DEF Slipped
  <1>4. Readable' = Readable
    BY <1>2 DEF Readable
  <1> SUFFICES ASSUME phase = "detector", opts.backend = "core", Readable
               PROVE  ReusesNeeded'
    BY <1>4 DEF ReusesNeeded
  <1>5. ReusesNeeded
    BY DEF PreflightInv
  <1>6. CASE TaskExits(n)
    <2>1. reuses' = reuses /\ \A m \in Numbers : procfs'[m] \in {Gone, procfs[m]}
      BY <1>1, <1>6 DEF TaskExits
    <2> QED
      BY <1>1, <1>2, <1>3, <1>5, <2>1 DEF ReusesNeeded, Elsewhere, JoinedPid
  <1>7. CASE NumberReused(n)
    <2>1. PICK t \in Newcomers[n] :
              /\ t.tgid \in Numbers \ {n} => procfs[t.tgid] # Gone /\ Kin(t, procfs[t.tgid])
              /\ procfs' = [procfs EXCEPT ![n] = t]
      BY <1>7 DEF NumberReused
    <2>2. /\ procfs[n] = Gone /\ reuses' = reuses + 1
          /\ procfs'[n] = t /\ \A m \in Numbers \ {n} : procfs'[m] = procfs[m]
      BY <1>1, <1>7, <2>1 DEF NumberReused
    <2>3. ASSUME JoinedPid(procfs[tid]), tid # Pid PROVE n # Pid
      BY <1>1, <2>2, <2>3 DEF JoinedPid, PreflightInv, ThreadsHaveProcess
    <2>4. ASSUME n = tid, tid # Pid, t.tgid = Pid
          PROVE  procfs[Pid] # Gone /\ t.ns = procfs[Pid].ns
      BY <1>1, <2>1, <2>4 DEF Kin
    <2>5. ASSUME Len(seen) >= 1, Elsewhere(procfs[Pid])'
          PROVE  reuses' >= 1 /\ (tid # Pid /\ JoinedPid(procfs[tid])' => reuses' >= 2)
      BY <1>1, <1>2, <1>5, <2>2, <2>3, <2>4, <2>5 DEF ReusesNeeded, Elsewhere, JoinedPid
    <2>6. ASSUME Slipped(2)
          PROVE  /\ reuses' >= 1
                 /\ reuses' = 1 /\ procfs'[Pid] # Gone => Elsewhere(procfs[Pid])'
                 /\ tid # Pid /\ JoinedPid(procfs[tid])' =>
                       reuses' >= 2 /\ (reuses' = 2 => Elsewhere(procfs[tid])')
      BY <1>1, <1>2, <1>5, <2>2, <2>3, <2>4, <2>6 DEF ReusesNeeded, Elsewhere, JoinedPid
    <2>7. ASSUME Slipped(3), tid # Pid PROVE reuses' >= 3
      BY <1>1, <1>5, <2>2, <2>7 DEF ReusesNeeded
    <2>8. ASSUME Slipped(4) PROVE reuses' >= 3
      BY <1>1, <1>5, <2>2, <2>8 DEF ReusesNeeded
    <2>9. ASSUME Slipped(5), seen[5].ns # seen[1].ns PROVE reuses' >= 3
      BY <1>1, <1>5, <2>2, <2>9 DEF ReusesNeeded
    <2> QED
      BY <1>1, <1>2, <1>3, <2>2, <2>5, <2>6, <2>7, <2>8, <2>9 DEF ReusesNeeded
  <1> QED BY <1>6, <1>7

LEMMA MovesKeep == PreflightInv /\ TargetChanges => PreflightInv'
  <1> SUFFICES ASSUME PreflightInv, TargetChanges PROVE PreflightInv'
    OBVIOUS
  <1>1. PICK n \in Numbers : TaskExits(n) \/ NumberReused(n)
    BY DEF TargetChanges, TargetMoves
  <1>2. /\ phase \notin {"refused", "watching"}
        /\ UNCHANGED <<env, opts, phase, report, sampler_target, filter, tid, seen, wanted>>
    BY <1>1 DEF TargetChanges, TaskExits, NumberReused
  <1>3. /\ procfs' \in [Numbers -> KnownTasks \cup {Gone}]
        /\ ThreadsHaveProcess' /\ changed' /\ reuses' \in 0 .. MaxReuses
    BY <1>1, MovesProc
  <1>4. PreflightTypeOK'
    BY <1>2, <1>3 DEF PreflightInv, PreflightTypeOK
  <1>5. Snapshot'
    <2>1. Paths' = Paths
      BY <1>2 DEF Paths, DoctorReads, DetectorReads, CoreReads, BccReads
    <2> QED BY <1>2, <1>3, <2>1 DEF PreflightInv, Snapshot
  <1>6. DoctorIsRight'
    <2>1. (Valid /\ Attachable)' = (Valid /\ Attachable) /\ Unchecked' = Unchecked
      BY <1>2 DEF Valid, BackendAvailable, Attachable, BccAttaches, CoreAttaches, TracepointsFound,
             ObjectLoads, HeadersProvided, Unchecked, BccUnchecked, CoreUnchecked
    <2> QED BY <1>2, <1>3, <2>1 DEF PreflightInv, DoctorIsRight
  <1>7. ReadyMeansRunnable' /\ AimedAtTable' /\ CoreSparesBystanders'
    BY <1>2, <1>3 DEF ReadyMeansRunnable, AimedAtTable, CoreSparesBystanders
  <1>8. ReusesNeeded'
    BY <1>1, <1>2, MovesNeeded
  <1> QED BY <1>3, <1>4, <1>5, <1>6, <1>7, <1>8 DEF PreflightInv

-----------------------------------------------------------------------------
(* A resolution reads one more file.                                          *)

\* What the command needs of its host does not change
LEMMA HostStays ==
    ASSUME UNCHANGED <<env, opts>>
    PROVE  (Valid /\ Attachable)' = (Valid /\ Attachable) /\ Unchecked' = Unchecked
  BY DEF Valid, BackendAvailable, Attachable, BccAttaches, CoreAttaches, TracepointsFound,
             ObjectLoads, HeadersProvided, Unchecked, BccUnchecked, CoreUnchecked

\* One more read by doctor, sampler or detector; Core's count of reuses comes below
LEMMA ReadsKeep ==
    ASSUME PreflightInv, NEW paths, Read(paths), phase \in {"doctor", "sampler", "detector"},
           paths[Len(seen) + 1] = Paths[Len(seen) + 1], Len(seen) < Len(Paths),
           UNCHANGED <<env, opts, phase, report, sampler_target, filter>>
    PROVE  /\ PreflightTypeOK' /\ ThreadsHaveProcess' /\ Snapshot' /\ DoctorIsRight'
           /\ ReadyMeansRunnable' /\ AimedAtTable' /\ CoreSparesBystanders'
           /\ Len(seen') = Len(seen) + 1
           /\ seen'[Len(seen) + 1] = procfs[Paths[Len(seen) + 1]]
           /\ \A i \in 1 .. Len(seen) : seen'[i] = seen[i]
  <1>1. PreflightTypeOK /\ ThreadsHaveProcess /\ Snapshot /\ DoctorIsRight /\ AimedAtTable
    BY DEF PreflightInv
  <1>2. /\ seen' = Append(seen, procfs[Paths[Len(seen) + 1]])
        /\ UNCHANGED <<procfs, tid, reuses, changed, wanted>>
    BY DEF Read
  <1>3. Paths \in Seq(Numbers) /\ Paths[Len(seen) + 1] \in Numbers
    BY <1>1, PathsAreNumbers DEF PreflightTypeOK
  <1>4. procfs[Paths[Len(seen) + 1]] \in KnownTasks \cup {Gone}
    BY <1>1, <1>3 DEF PreflightTypeOK
  <1>5. /\ seen' \in Seq(KnownTasks \cup {Gone})
        /\ Len(seen') = Len(seen) + 1
        /\ seen'[Len(seen) + 1] = procfs[Paths[Len(seen) + 1]]
        /\ \A i \in 1 .. Len(seen) : seen'[i] = seen[i]
    BY <1>1, <1>2, <1>4 DEF PreflightTypeOK
  <1>6. PreflightTypeOK' /\ ThreadsHaveProcess'
    BY <1>1, <1>2, <1>5 DEF PreflightTypeOK, ThreadsHaveProcess
  <1>7. Snapshot'
    <2>1. Paths' = Paths
      BY <1>2 DEF Paths, DoctorReads, DetectorReads, CoreReads, BccReads
    <2>2. Len(seen') <= Len(Paths) /\ Len(seen) \in Nat
      BY <1>1, <1>3, <1>5 DEF PreflightTypeOK
    <2>3. ASSUME ~ changed, NEW i \in 1 .. Len(seen') PROVE seen'[i] = procfs[Paths[i]]
      BY <1>1, <1>5, <2>2, <2>3 DEF Snapshot
    <2> QED BY <1>1, <1>2, <2>1, <2>2, <2>3 DEF Snapshot
  <1>8. DoctorIsRight'
    BY <1>1, <1>2, HostStays DEF DoctorIsRight, WellAimed
  <1>9. AimedAtTable'
    BY <1>1, <1>2 DEF AimedAtTable
  <1>10. ReadyMeansRunnable' /\ CoreSparesBystanders'
    BY DEF ReadyMeansRunnable, CoreSparesBystanders
  <1> QED BY <1>5, <1>6, <1>7, <1>8, <1>9, <1>10

LEMMA DoctorReadKeeps == PreflightInv /\ ReadForDoctor => PreflightInv'
  <1> SUFFICES ASSUME PreflightInv, ReadForDoctor PROVE PreflightInv'
    OBVIOUS
  <1>1. Read(DoctorReads) /\ Paths = DoctorReads /\ phase = "doctor"
    BY DEF ReadForDoctor, Paths
  <1>2. Len(seen) < Len(Paths)
    BY <1>1 DEF Read
  <1>3. ReusesNeeded'
    BY DEF ReadForDoctor, ReusesNeeded
  <1> QED BY <1>1, <1>2, <1>3, ReadsKeep DEF ReadForDoctor, PreflightInv

LEMMA SamplerReadKeeps == PreflightInv /\ ReadForSampler => PreflightInv'
  <1> SUFFICES ASSUME PreflightInv, ReadForSampler PROVE PreflightInv'
    OBVIOUS
  <1>1. Read(SamplerReads) /\ Paths = <<Pid, Pid, tid>> /\ phase = "sampler" /\ Len(seen) \in Nat
    BY DEF ReadForSampler, Paths, PreflightInv, PreflightTypeOK
  <1>2. Len(seen) < Len(SamplerReads)
    BY <1>1 DEF Read
  <1>3. SamplerReads = Paths
    <2>1. CASE seen = <<>>
      BY <1>1, <2>1 DEF SamplerReads
    <2>2. CASE seen # <<>>
      <3>1. Len(seen) # 0
        BY <2>2, EmptySeq DEF PreflightInv, PreflightTypeOK
      <3> QED BY <1>1, <1>2, <3>1 DEF SamplerReads
    <2> QED BY <2>1, <2>2
  <1>4. ReusesNeeded'
    BY DEF ReadForSampler, ReusesNeeded
  <1> QED BY <1>1, <1>2, <1>3, <1>4, ReadsKeep DEF ReadForSampler, PreflightInv

\* Core's reads: each takes over what is known of /proc at that moment
LEMMA CoreReadNeeds ==
    ASSUME PreflightInv, phase' = "detector", phase = "detector", opts' = opts, opts.backend = "core",
           Readable', UNCHANGED <<procfs, tid, reuses>>, Len(seen) < 5,
           Len(seen') = Len(seen) + 1,
           seen'[Len(seen) + 1] = procfs[CoreReads[Len(seen) + 1]],
           \A i \in 1 .. Len(seen) : seen'[i] = seen[i]
    PROVE  ReusesNeeded'
  <1>1. /\ Len(seen) \in Nat /\ reuses \in Nat /\ tid \in Numbers /\ Pid \in Numbers
        /\ ThreadsHaveProcess /\ ReusesNeeded
    BY TasksKnown DEF PreflightInv, PreflightTypeOK
  <1>2. Readable /\ \A i \in 1 .. Len(seen') : seen'[i] # Gone
    BY <1>1 DEF Readable
  <1>3. JoinedPid(procfs[tid]) /\ procfs[tid] # Gone => procfs[Pid] # Gone /\ procfs[tid].ns = procfs[Pid].ns
    BY <1>1 DEF JoinedPid, ThreadsHaveProcess, Kin
  <1>0. Len(seen) \in {0, 1, 2, 3, 4}
    <2>1. \A k \in Nat : k < 5 => k \in {0, 1, 2, 3, 4}
      OBVIOUS
    <2> QED BY <1>1, <2>1
  <1> USE DEF ReusesNeeded, Slipped, Elsewhere, JoinedPid
  <1>4. CASE Len(seen) = 0
    BY <1>1, <1>2, <1>3, <1>4, PathsAre
  <1>5. CASE Len(seen) = 1
    BY <1>1, <1>2, <1>3, <1>5, PathsAre
  <1>6. CASE Len(seen) = 2
    BY <1>1, <1>2, <1>3, <1>6, PathsAre
  <1>7. CASE Len(seen) = 3
    BY <1>1, <1>2, <1>3, <1>7, PathsAre
  <1>8. CASE Len(seen) = 4
    BY <1>1, <1>2, <1>3, <1>8, PathsAre
  <1> HIDE DEF ReusesNeeded, Slipped, Elsewhere, JoinedPid
  <1> QED BY <1>0, <1>4, <1>5, <1>6, <1>7, <1>8

LEMMA DetectorReadKeeps == PreflightInv /\ ReadForDetector => PreflightInv'
  <1> SUFFICES ASSUME PreflightInv, ReadForDetector PROVE PreflightInv'
    OBVIOUS
  <1>1. /\ Read(DetectorReads) /\ Paths = DetectorReads /\ phase = "detector"
        /\ UNCHANGED <<env, opts, phase, report, sampler_target, filter>>
    BY DEF ReadForDetector, Paths
  <1>2. Len(seen) < Len(Paths) /\ UNCHANGED <<procfs, tid, reuses>>
    BY <1>1 DEF Read
  <1>3. /\ Len(seen') = Len(seen) + 1
        /\ seen'[Len(seen) + 1] = procfs[DetectorReads[Len(seen) + 1]]
        /\ \A i \in 1 .. Len(seen) : seen'[i] = seen[i]
    BY <1>1, <1>2, ReadsKeep
  <1>4. ReusesNeeded'
    <2>1. CASE opts.backend = "core" /\ Readable'
      <3>1. DetectorReads = CoreReads /\ Len(seen) < 5
        BY <1>1, <1>2, <2>1, PathsAre DEF DetectorReads
      <3> QED BY <1>1, <1>2, <1>3, <2>1, <3>1, CoreReadNeeds
    <2>2. CASE ~ (opts.backend = "core" /\ Readable')
      BY <1>1, <2>2 DEF ReusesNeeded
    <2> QED BY <2>1, <2>2
  <1> QED BY <1>1, <1>2, <1>4, ReadsKeep DEF PreflightInv

-----------------------------------------------------------------------------
(* The commands decide.                                                       *)

\* What an untouched target looks like in the reads of a resolution
LEMMA ReadsAreTrue ==
    ASSUME PreflightInv, ~ changed
    PROVE  /\ procfs \in Tables /\ Numbered(procfs) /\ wanted = procfs[tid]
           /\ tid \in Numbers /\ Pid \in Numbers
           /\ \A n \in Numbers : procfs[n] \in KnownTasks /\ procfs[n] # Gone
           /\ Len(seen) \in Nat
           /\ \A i \in 1 .. Len(seen) : seen[i] = procfs[Paths[i]]
           /\ Readable
  <1>1. /\ procfs \in Tables /\ wanted = procfs[tid] /\ tid \in Numbers /\ Len(seen) \in Nat
        /\ \A i \in 1 .. Len(seen) : seen[i] = procfs[Paths[i]]
        /\ Len(seen) <= Len(Paths)
    BY DEF PreflightInv, PreflightTypeOK, Snapshot
  <1>2. /\ Numbered(procfs) /\ Pid \in Numbers
        /\ \A n \in Numbers : procfs[n] \in KnownTasks /\ procfs[n] # Gone
    BY <1>1, TasksKnown
  <1>3. \A i \in 1 .. Len(Paths) : Paths[i] \in Numbers
    BY <1>1, PathsAreNumbers
  <1>4. Len(Paths) \in Nat
    BY <1>1, PathsAreNumbers
  <1>5. \A i \in 1 .. Len(seen) : i \in 1 .. Len(Paths)
    BY <1>1, <1>4
  <1>6. Readable
    BY <1>1, <1>2, <1>3, <1>5 DEF Readable
  <1> QED BY <1>1, <1>2, <1>6

\* The checks the doctor requires cover what the command needs, the named
\* prerequisites apart
LEMMA HealthySuffices ==
    ASSUME env \in Environments, opts \in Options, Healthy
    PROVE  /\ (Valid /\ Attachable) \/ Unchecked
           /\ opts.targeted => DoctorAccepts
  <1> DEFINE Passes == HostPasses \cup BackendPasses \cup NamespacePasses
  <1>1. opts.backend \in {"core", "bcc"} /\ opts.stats \in BOOLEAN
    BY DEF Options
  <1>2. env.bcc \in {"importable", "broken", "absent"}
    BY EnvironmentsAssumption
  <1>3. "platform" \in Passes /\ "root" \in Passes /\ "tracepoints" \in Passes /\ "privileges" \in Passes
    BY DEF Healthy, Required
  <1>4. env.platform /\ env.root /\ env.privileges /\ TracepointsFound
    BY <1>3 DEF HostPasses, BackendPasses, NamespacePasses
  <1>5. opts.stats \/ env.austin
    <2>1. ~ opts.stats => "austin" \in Passes
      BY DEF Healthy, Required
    <2> QED BY <2>1 DEF HostPasses, BackendPasses, NamespacePasses
  <1>6. opts.targeted => DoctorAccepts
    <2>1. opts.targeted => "namespace" \in Passes
      BY DEF Healthy, Required
    <2> QED BY <2>1 DEF HostPasses, BackendPasses, NamespacePasses
  <1>7. CASE opts.backend = "core"
    <2>1. "pid_namespace_helper" \in Passes /\ "sidecar" \in Passes /\ "bpf_object" \in Passes
      BY <1>7 DEF Healthy, Required
    <2>2. env.pid_namespace_helper /\ env.sidecar /\ ObjectFound
      BY <2>1 DEF HostPasses, BackendPasses, NamespacePasses
    <2>3. ObjectLoads \/ CoreUnchecked
      <3>1. env.object_beside \subseteq {"given", "real"}
        BY EnvironmentsAssumption
      <3> QED BY <1>7, <2>2, <3>1 DEF ObjectFound, ObjectLoads, CoreUnchecked
    <2> QED
      BY <1>4, <1>5, <1>6, <1>7, <2>2, <2>3
         DEF Valid, BackendAvailable, Attachable, CoreAttaches, Unchecked
  <1>8. CASE opts.backend = "bcc"
    <2>1. "bcc" \in Passes
      BY <1>8 DEF Healthy, Required
    <2>2. env.bcc # "absent"
      BY <2>1 DEF HostPasses, BackendPasses, NamespacePasses
    <2> QED
      BY <1>2, <1>4, <1>5, <1>6, <1>8, <2>2
         DEF Valid, BackendAvailable, Attachable, BccAttaches, TracepointsFound, Unchecked, BccUnchecked
  <1> QED BY <1>1, <1>7, <1>8

LEMMA ReportKeeps == PreflightInv /\ Report => PreflightInv'
  <1> SUFFICES ASSUME PreflightInv, Report PROVE PreflightInv'
    OBVIOUS
  <1>1. /\ phase = "doctor" /\ phase' = "validate" /\ seen' = <<>> /\ reuses' = 0
        /\ UNCHANGED <<procfs, tid, changed, wanted, env, opts, sampler_target, filter>>
        /\ report' = IF Healthy THEN "ready" ELSE "not_ready"
        /\ opts.targeted => AllRead(DoctorReads)
    BY DEF Report
  <1>2. PreflightTypeOK' /\ ThreadsHaveProcess'
    BY <1>1, TablesAssumption DEF PreflightInv, PreflightTypeOK, ThreadsHaveProcess
  <1>3. Snapshot'
    <2>1. Len(Paths') \in Nat
      BY <1>1, PathsAre DEF Paths, DetectorReads, CoreReads, BccReads
    <2> QED BY <1>1, <2>1 DEF PreflightInv, Snapshot
  <1>4. DoctorIsRight'
    <2> SUFFICES ASSUME Healthy
                 PROVE  /\ (Valid /\ Attachable) \/ Unchecked
                        /\ opts.targeted /\ ~ changed => WellAimed
      BY <1>1, HostStays DEF DoctorIsRight, WellAimed
    <2>1. /\ (Valid /\ Attachable) \/ Unchecked
          /\ opts.targeted => DoctorAccepts
      BY HealthySuffices DEF PreflightInv, PreflightTypeOK
    <2>2. ASSUME opts.targeted, ~ changed PROVE WellAimed
      <3>1. Len(seen) = 4 /\ Paths = DoctorReads
        BY <1>1, <2>2, PathsAre DEF AllRead, Paths
      <3>2. seen[4] = wanted
        BY <2>2, <3>1, ReadsAreTrue, PathsAre
      <3> QED BY <2>1, <2>2, <3>2 DEF DoctorAccepts, WellAimed
    <2> QED BY <2>1, <2>2
  <1>5. ReadyMeansRunnable' /\ AimedAtTable' /\ ReusesNeeded' /\ CoreSparesBystanders'
    BY <1>1 DEF ReadyMeansRunnable, AimedAtTable, ReusesNeeded, CoreSparesBystanders
  <1> QED BY <1>2, <1>3, <1>4, <1>5 DEF PreflightInv

LEMMA ValidateKeeps == PreflightInv /\ Validate => PreflightInv'
  <1> SUFFICES ASSUME PreflightInv, Validate PROVE PreflightInv'
    OBVIOUS
  <1>1. /\ phase = "validate" /\ UNCHANGED <<procfs, tid, seen, reuses, changed, wanted>>
        /\ UNCHANGED <<env, opts, report, sampler_target, filter>>
        /\ phase' = IF ~ Valid THEN "refused" ELSE IF opts.stats THEN "detector" ELSE "sampler"
    BY DEF Validate, identity
  <1>2. seen = <<>>
    BY <1>1 DEF PreflightInv, Snapshot
  <1>3. PreflightTypeOK' /\ ThreadsHaveProcess'
    BY <1>1 DEF PreflightInv, PreflightTypeOK, ThreadsHaveProcess
  <1>4. Snapshot'
    <2>1. Len(Paths') \in Nat
      BY <1>1 DEF Paths, DetectorReads, CoreReads, BccReads
    <2> QED BY <1>1, <1>2, <2>1 DEF PreflightInv, Snapshot
  <1>5. DoctorIsRight'
    BY <1>1, HostStays DEF PreflightInv, DoctorIsRight, WellAimed
  <1>6. ReadyMeansRunnable'
    BY <1>1, HostStays DEF PreflightInv, DoctorIsRight, ReadyMeansRunnable
  <1>7. AimedAtTable' /\ CoreSparesBystanders'
    BY <1>1 DEF AimedAtTable, CoreSparesBystanders
  <1>8. ReusesNeeded'
    BY <1>1, <1>2 DEF ReusesNeeded, Slipped
  <1> QED BY <1>3, <1>4, <1>5, <1>6, <1>7, <1>8 DEF PreflightInv

LEMMA AimSamplerKeeps == PreflightInv /\ AimSampler => PreflightInv'
  <1> SUFFICES ASSUME PreflightInv, AimSampler PROVE PreflightInv'
    OBVIOUS
  <1>1. /\ phase = "sampler" /\ phase' = "detector" /\ seen' = <<>> /\ reuses' = 0
        /\ UNCHANGED <<procfs, tid, changed, wanted, env, opts, report, filter>>
        /\ AllRead(SamplerReads)
        /\ sampler_target' = [crossing |-> Crossing, pid |-> SamplerTarget.pid, tid |-> SamplerTarget.tid]
    BY DEF AimSampler
  <1>2. PreflightTypeOK' /\ ThreadsHaveProcess'
    BY <1>1, TablesAssumption DEF PreflightInv, PreflightTypeOK, ThreadsHaveProcess
  <1>3. Snapshot'
    <2>1. Len(Paths') \in Nat
      BY <1>1 DEF Paths, DetectorReads, CoreReads, BccReads
    <2> QED BY <1>1, <2>1 DEF PreflightInv, Snapshot
  <1>4. DoctorIsRight' /\ ReadyMeansRunnable' /\ CoreSparesBystanders'
    BY <1>1, HostStays
       DEF PreflightInv, DoctorIsRight, WellAimed, ReadyMeansRunnable, CoreSparesBystanders
  <1>5. AimedAtTable'
    <2> SUFFICES ASSUME ~ changed
                 PROVE  sampler_target' = IF procfs[Pid].mnt # OwnMnt
                            THEN [crossing |-> TRUE, pid |-> procfs[Pid].local, tid |-> wanted.local]
                            ELSE [crossing |-> FALSE, pid |-> Pid, tid |-> tid]
      BY <1>1 DEF AimedAtTable
    <2>1. /\ Paths = <<Pid, Pid, tid>> /\ Len(seen) = Len(SamplerReads)
          /\ Paths[1] = Pid /\ Paths[2] = Pid /\ Paths[3] = tid
      BY <1>1 DEF Paths, AllRead
    <2>2. Len(seen) >= 1 /\ (Crossing => Len(seen) = 3)
      BY <2>1 DEF SamplerReads
    <2>3. seen[1] = procfs[Pid] /\ procfs[Pid] # Gone /\ procfs[tid] # Gone /\ wanted = procfs[tid]
      BY <2>1, <2>2, ReadsAreTrue
    <2>4. Crossing = (procfs[Pid].mnt # OwnMnt)
      BY <2>3 DEF Crossing
    <2>5. Crossing => seen[2] = procfs[Pid] /\ seen[3] = procfs[tid]
      BY <2>1, <2>2, ReadsAreTrue
    <2>6. CASE Crossing
      BY <1>1, <2>3, <2>4, <2>5, <2>6 DEF SamplerTarget, LocalOr
    <2>7. CASE ~ Crossing
      BY <1>1, <2>4, <2>7 DEF SamplerTarget
    <2> QED BY <2>6, <2>7
  <1>6. ReusesNeeded'
    BY <1>1 DEF ReusesNeeded, Slipped
  <1> QED BY <1>2, <1>3, <1>4, <1>5, <1>6 DEF PreflightInv

\* Core refuses no target that stays and is aimed well
LEMMA CoreTakesTheTarget ==
    ASSUME PreflightInv, ~ changed, phase = "detector", opts.backend = "core", AllRead(DetectorReads)
    PROVE  /\ CoreAccepts = WellAimed
           /\ CoreFilter = [ns |-> procfs[Pid].ns, pid |-> procfs[Pid].local, tid |-> wanted.local]
  <1>1. Paths = CoreReads /\ Len(seen) = 5
    BY PathsAre DEF Paths, DetectorReads, AllRead
  <1>2. /\ seen[1] = procfs[Pid] /\ seen[2] = procfs[Pid]
        /\ seen[3] = wanted /\ seen[4] = wanted /\ seen[5] = wanted
    BY <1>1, ReadsAreTrue, PathsAre
  <1>3. wanted.tgid = Pid => wanted.ns = procfs[Pid].ns
    BY ReadsAreTrue DEF Numbered, Kin
  <1> QED BY <1>2, <1>3, ReadsAreTrue DEF CoreAccepts, WellAimed, CoreFilter

LEMMA BccTakesTheTarget ==
    ASSUME PreflightInv, ~ changed, phase = "detector", opts.backend = "bcc", AllRead(DetectorReads)
    PROVE  BccFilter = [ns |-> procfs[Pid].ns, pid |-> procfs[Pid].local, tid |-> wanted.local]
  <1>1. Paths = BccReads /\ Len(seen) = 3
    BY PathsAre DEF Paths, DetectorReads, AllRead
  <1>2. seen[1] = procfs[Pid] /\ seen[2] = wanted /\ seen[3] = procfs[Pid]
    BY <1>1, ReadsAreTrue, PathsAre
  <1> QED BY <1>2, ReadsAreTrue DEF BccFilter, BccNamespace, LocalOr

\* After at most two reuses, the second or the last read of an accepted target was
\* in the namespace of the filter, where bystanders have other numbers
LEMMA AcceptedSparesBystanders ==
    ASSUME PreflightInv, reuses <= 2, phase = "detector", opts.backend = "core",
           AllRead(DetectorReads), CoreAccepts,
           NEW b \in Bystanders,
           b.ns = CoreFilter.ns, b.ltgid = CoreFilter.pid, b.local = CoreFilter.tid
    PROVE  FALSE
  <1>1. Len(seen) = 5 /\ seen \in Seq(KnownTasks \cup {Gone}) /\ reuses \in 0 .. MaxReuses
    BY PathsAre DEF DetectorReads, AllRead, PreflightInv, PreflightTypeOK
  <1>2. /\ Readable /\ seen[3].tgid = Pid /\ seen[4].ns = seen[1].ns
        /\ b.ns = seen[1].ns /\ b.ltgid = seen[2].local /\ b.local = seen[5].local
    BY DEF CoreAccepts, CoreFilter
  <1>3. seen[2] \in KnownTasks /\ seen[5] \in KnownTasks
    <2>1. 2 \in 1 .. Len(seen) /\ 5 \in 1 .. Len(seen)
      BY <1>1
    <2>2. seen[2] \in KnownTasks \cup {Gone} /\ seen[5] \in KnownTasks \cup {Gone}
      BY <1>1, <2>1, ElementOfSeq
    <2> QED BY <1>2, <2>1, <2>2 DEF Readable
  <1>4. seen[2].ns # seen[1].ns /\ seen[5].ns # seen[1].ns
    BY <1>2, <1>3, BystandersAssumption
  <1>5. Slipped(5)
    BY <1>1, <1>2, <1>4 DEF Slipped
  <1>6. reuses >= 3
    BY <1>2, <1>4, <1>5 DEF PreflightInv, ReusesNeeded
  <1> QED BY <1>1, <1>6

LEMMA AimDetectorKeeps == PreflightInv /\ AimDetector => PreflightInv'
  <1> SUFFICES ASSUME PreflightInv, AimDetector PROVE PreflightInv'
    OBVIOUS
  <1>1. /\ phase = "detector" /\ seen' = <<>>
        /\ UNCHANGED <<procfs, tid, reuses, changed, wanted, env, opts, report, sampler_target>>
        /\ AllRead(DetectorReads)
        /\ opts.backend \in {"core", "bcc"}
    BY DEF AimDetector, PreflightInv, PreflightTypeOK, Options
  <1>2. \/ /\ Attachable /\ (opts.backend = "core" => CoreAccepts)
           /\ filter' = IF opts.backend = "bcc" THEN BccFilter ELSE CoreFilter
           /\ phase' = "watching"
        \/ /\ ~ (Attachable /\ (opts.backend = "core" => CoreAccepts))
           /\ phase' = "refused"
    BY DEF AimDetector
  <1>3. PreflightTypeOK' /\ ThreadsHaveProcess'
    BY <1>1, <1>2, TablesAssumption DEF PreflightInv, PreflightTypeOK, ThreadsHaveProcess
  <1>4. Snapshot'
    <2>1. Len(Paths') \in Nat
      BY <1>1, <1>2 DEF Paths, DetectorReads, CoreReads, BccReads
    <2> QED BY <1>1, <2>1 DEF PreflightInv, Snapshot
  <1>5. DoctorIsRight'
    BY <1>1, HostStays DEF PreflightInv, DoctorIsRight, WellAimed
  <1>6. ReadyMeansRunnable'
    <2> SUFFICES ASSUME phase' = "refused", report = "ready", opts.targeted, ~ changed PROVE Unchecked
      BY <1>1, HostStays DEF ReadyMeansRunnable
    <2>1. (Valid /\ Attachable) \/ Unchecked
      BY DEF PreflightInv, DoctorIsRight
    <2>2. opts.backend = "core" => CoreAccepts
      BY <1>1, CoreTakesTheTarget DEF PreflightInv, DoctorIsRight
    <2> QED BY <1>2, <2>1, <2>2
  <1>7. AimedAtTable'
    <2> SUFFICES ASSUME ~ changed PROVE AimedAtTable'
      BY <1>1 DEF AimedAtTable
    <2>1. AimedAtTable
      BY DEF PreflightInv
    <2>2. ASSUME phase' = "watching"
          PROVE  /\ filter' = [ns |-> procfs[Pid].ns, pid |-> procfs[Pid].local, tid |-> wanted.local]
                 /\ opts.backend = "core" => WellAimed
      BY <1>1, <1>2, <2>2, CoreTakesTheTarget, BccTakesTheTarget
    <2> QED BY <1>1, <2>1, <2>2 DEF AimedAtTable, WellAimed
  <1>8. ReusesNeeded'
    BY <1>1, <1>2 DEF ReusesNeeded
  <1>9. CoreSparesBystanders'
    <2> SUFFICES ASSUME phase' = "watching", opts.backend = "core", reuses <= 2,
                        NEW b \in Bystanders, b \in Watched'
                 PROVE  FALSE
      BY <1>1 DEF CoreSparesBystanders
    <2>1. CoreAccepts /\ filter' = CoreFilter
      BY <1>2
    <2>2. b.ns = CoreFilter.ns /\ b.ltgid = CoreFilter.pid /\ b.local = CoreFilter.tid
      BY <2>1 DEF Watched, Matches
    <2> QED BY <1>1, <2>1, <2>2, AcceptedSparesBystanders
  <1> QED BY <1>3, <1>4, <1>5, <1>6, <1>7, <1>8, <1>9 DEF PreflightInv

LEMMA PreflightStutters == PreflightInv /\ UNCHANGED preflightVars => PreflightInv'
  <1> SUFFICES ASSUME PreflightInv, UNCHANGED preflightVars PROVE PreflightInv'
    OBVIOUS
  <1>1. /\ UNCHANGED <<procfs, tid, seen, reuses, changed, wanted>>
        /\ UNCHANGED <<env, opts, phase, report, sampler_target, filter>>
    BY DEF preflightVars, identity
  <1>2. PreflightTypeOK' /\ ThreadsHaveProcess' /\ AimedAtTable'
    BY <1>1 DEF PreflightInv, PreflightTypeOK, ThreadsHaveProcess, AimedAtTable, WellAimed
  <1>3. Snapshot'
    BY <1>1 DEF PreflightInv, Snapshot, Paths, DoctorReads, DetectorReads, CoreReads, BccReads
  <1>4. DoctorIsRight' /\ ReadyMeansRunnable'
    BY <1>1, HostStays DEF PreflightInv, DoctorIsRight, ReadyMeansRunnable, WellAimed
  <1>5. ReusesNeeded'
    BY <1>1 DEF PreflightInv, ReusesNeeded, Readable, Slipped, Elsewhere, JoinedPid
  <1>6. CoreSparesBystanders'
    BY <1>1 DEF PreflightInv, CoreSparesBystanders, Watched, Matches, LiveTasks
  <1> QED BY <1>2, <1>3, <1>4, <1>5, <1>6 DEF PreflightInv

LEMMA PreflightStep == PreflightInv /\ [PreflightNext]_preflightVars => PreflightInv'
  BY DoctorReadKeeps, ReportKeeps, ValidateKeeps, SamplerReadKeeps, AimSamplerKeeps, DetectorReadKeeps,
     AimDetectorKeeps, MovesKeep, PreflightStutters DEF PreflightNext

\* Doctor, validation, sampler and detector read /proc one file at a time while
\* the target exits and its numbers are reused: for any tasks, hosts and number
\* of reuses, what they have read and decided fits together as PreflightInv says.
THEOREM PreflightInvariant == PreflightSpec => []PreflightInv
  BY PreflightBegins, PreflightStep, PTL DEF PreflightSpec

\* collect_diagnostics: on any host, a command called ready for its target is
\* refused only if the target has exited, or for a prerequisite of BCC that the
\* doctor does not look at.
THEOREM ReadyTargetsRun == PreflightSpec => []ReadyMeansRunnable
  <1>1. PreflightInv => ReadyMeansRunnable
    BY DEF PreflightInv
  <1> QED BY <1>1, PreflightInvariant, PTL

\* The filter of a target that stayed matches its thread only; a bystander has
\* other numbers
LEMMA FilterMatches ==
    ASSUME PreflightInv, phase = "watching", ~ changed, NEW t \in Watched
    PROVE  /\ \E m \in Numbers : t = procfs[m]
           /\ t.tgid = Pid /\ t.ns = procfs[Pid].ns /\ t.local = wanted.local
           /\ t.ns = wanted.ns => t = wanted
  <1>1. filter = [ns |-> procfs[Pid].ns, pid |-> procfs[Pid].local, tid |-> wanted.local]
    BY DEF PreflightInv, AimedAtTable
  <1>2. /\ t \in LiveTasks \cup Bystanders
        /\ t.ns = procfs[Pid].ns /\ t.ltgid = procfs[Pid].local /\ t.local = wanted.local
    BY <1>1 DEF Watched, Matches
  <1>3. t \notin Bystanders
    BY <1>2, ReadsAreTrue, BystandersAssumption
  <1>4. PICK m \in Numbers : t = procfs[m]
    BY <1>2, <1>3 DEF LiveTasks
  <1>5. t.tgid = Pid
    BY <1>2, <1>4, ReadsAreTrue DEF Numbered
  <1>6. t.ns = wanted.ns => t = wanted
    BY <1>2, <1>4, ReadsAreTrue DEF Numbered
  <1> QED BY <1>2, <1>4, <1>5, <1>6

LEMMA WatchedIsWanted ==
    ASSUME PreflightInv, phase = "watching", ~ changed, WellAimed
    PROVE  Watched = {wanted}
  <1>1. /\ wanted.ns = procfs[Pid].ns /\ wanted.ltgid = procfs[Pid].ltgid
        /\ procfs[Pid].tgid = Pid
    BY ReadsAreTrue DEF WellAimed, Numbered, Kin
  <1>2. procfs[Pid].local = procfs[Pid].ltgid
    BY <1>1, ReadsAreTrue DEF Numbered
  <1>3. filter = [ns |-> procfs[Pid].ns, pid |-> procfs[Pid].local, tid |-> wanted.local]
    BY DEF PreflightInv, AimedAtTable
  <1>4. wanted \in LiveTasks
    BY ReadsAreTrue DEF LiveTasks
  <1>5. wanted \in Watched
    BY <1>1, <1>2, <1>3, <1>4 DEF Watched, Matches
  <1>6. \A t \in Watched : t = wanted
    BY <1>1, FilterMatches
  <1> QED BY <1>5, <1>6

\* _build_command, BccDetector._start: the probes of either backend match the
\* thread the user meant and nobody else, as long as it has not exited.
THEOREM TargetIsWatched == PreflightSpec => []WatchesTheTarget
  <1>1. PreflightInv => WatchesTheTarget
    <2> SUFFICES ASSUME PreflightInv, phase = "watching", ~ changed, ~ WellAimed
                 PROVE  opts.backend = "bcc" /\ \A t \in Watched : t.tgid = Pid /\ t.ns # wanted.ns
      BY WatchedIsWanted DEF WatchesTheTarget
    <2>1. opts.backend = "bcc"
      BY DEF PreflightInv, PreflightTypeOK, Options, AimedAtTable
    <2>2. ASSUME NEW t \in Watched PROVE t.tgid = Pid /\ t.ns # wanted.ns
      BY FilterMatches DEF WellAimed
    <2> QED BY <2>1, <2>2
  <1> QED BY <1>1, PreflightInvariant, PTL

\* AustinSampler.start: the thread whose samples are kept is the one the probes
\* watch, for any mixture of namespaces.
THEOREM SamplerFollowsProbes == PreflightSpec => []SamplerAgrees
  <1>1. PreflightInv => SamplerAgrees
    <2> SUFFICES ASSUME PreflightInv, phase = "watching", ~ changed, WellAimed, ~ opts.stats
                 PROVE  IF sampler_target.crossing
                        THEN sampler_target.pid = wanted.ltgid /\ sampler_target.tid = wanted.local
                        ELSE sampler_target.pid = wanted.tgid /\ sampler_target.tid = tid
      <3>1. (CHOOSE t \in {wanted} : TRUE) = wanted
        OBVIOUS
      <3> QED BY <3>1, WatchedIsWanted DEF SamplerAgrees
    <2>1. wanted.ltgid = procfs[Pid].ltgid /\ procfs[Pid].tgid = Pid
      BY ReadsAreTrue DEF WellAimed, Numbered, Kin
    <2>2. wanted.ltgid = procfs[Pid].local
      BY <2>1, ReadsAreTrue DEF Numbered
    <2>3. sampler_target = IF procfs[Pid].mnt # OwnMnt
                           THEN [crossing |-> TRUE, pid |-> procfs[Pid].local, tid |-> wanted.local]
                           ELSE [crossing |-> FALSE, pid |-> Pid, tid |-> tid]
      BY DEF PreflightInv, AimedAtTable
    <2> QED BY <2>2, <2>3 DEF WellAimed
  <1> QED BY <1>1, PreflightInvariant, PTL

\* _build_command, _validate_target_tid: whatever exits between Core's five reads,
\* its probes match no bystander unless numbers are reused three times meanwhile.
THEOREM CoreIsSafeFromReuse == PreflightSpec => []CoreSparesBystanders
  <1>1. PreflightInv => CoreSparesBystanders
    BY DEF PreflightInv
  <1> QED BY <1>1, PreflightInvariant, PTL
=============================================================================
