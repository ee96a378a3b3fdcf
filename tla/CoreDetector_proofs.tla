------------------------- MODULE CoreDetector_proofs -------------------------
(* For any number of sessions, lines and any pipe: no sidecar outlives a call *)
(* of the detector; and, when join waits for the reader, start returns only   *)
(* after a handshake and stop is silent.                                      *)
EXTENDS CoreDetector, Accumulation_proofs

\* An update inside the range keeps a function's type
LEMMA UpdateTyped ==
    ASSUME NEW S, NEW T, NEW f \in [S -> T], NEW x, NEW v \in T
    PROVE  [f EXCEPT ![x] = v] \in [S -> T]
  OBVIOUS

\* _set_error keeps the types of what it assigns
LEMMA SetErrorTyped ==
    ASSUME TypeOK, NEW r, NEW next \in {"reading", "done"}, SetError(r, next)
    PROVE  /\ ready' \in BOOLEAN
           /\ startup_error' \in BOOLEAN
           /\ runtime_error' \in BOOLEAN
           /\ reader' \in [Sessions -> {"none", "starting", "reading", "handling", "waking", "done"}]
           /\ resume' \in [Sessions -> {"reading", "done"}]
  <1>1. ready' \in BOOLEAN /\ startup_error' \in BOOLEAN /\ runtime_error' \in BOOLEAN
    BY Zenon DEF TypeOK, SetError
  <1>2. reader \in [Sessions -> {"none", "starting", "reading", "handling", "waking", "done"}]
        /\ resume \in [Sessions -> {"reading", "done"}]
    BY DEF TypeOK
  <1>3. reader' \in [Sessions -> {"none", "starting", "reading", "handling", "waking", "done"}]
    BY <1>2, UpdateTyped DEF SetError
  <1>4. resume' \in [Sessions -> {"reading", "done"}]
    BY <1>2, UpdateTyped DEF SetError
  <1> QED
    BY <1>1, <1>3, <1>4

\* The initial state satisfies the invariant
LEMMA DetectorInit == Init => DetectorInv
  <1> SUFFICES ASSUME Init PROVE DetectorInv
    OBVIOUS
  <1> USE CoreBoundsAssumption DEF Init, Sessions
  <1>1. TypeOK
    <2>1. /\ ready \in BOOLEAN /\ stop_requested \in BOOLEAN
          /\ startup_error \in BOOLEAN /\ runtime_error \in BOOLEAN
      BY Zenon
    <2> QED
      BY <2>1 DEF TypeOK, Resting, Lines
  <1>2. HeldProcess /\ NoSidecarLeak
    BY DEF HeldProcess, NoSidecarLeak
  <1>3. ReaderPlace /\ Handshake
    BY DEF ReaderPlace, Handshake, StartedMeansReady
  <1>4. Blame
    BY DEF Blame, StopIsSilent
  <1> QED
    BY <1>1, <1>2, <1>3, <1>4 DEF DetectorInv

\* StartWithoutSidecar keeps the invariant
LEMMA StartWithoutSidecarKeeps ==
    ASSUME DetectorInv, StartWithoutSidecar
    PROVE  DetectorInv'
  <1> USE CoreBoundsAssumption DEF DetectorInv, TypeOK, Resting, Lines, HeldProcess, NoSidecarLeak,
          ReaderPlace, Sessions, client, flags, world, threads, StartWithoutSidecar
  <1>1. TypeOK'
    OBVIOUS
  <1>2. HeldProcess'
    OBVIOUS
  <1>3. NoSidecarLeak'
    OBVIOUS
  <1>4. ReaderPlace'
    OBVIOUS
  <1>5. Handshake'
    BY DEF Handshake, StartedMeansReady
  <1>6. Blame'
    BY DEF Blame, StopIsSilent
  <1> QED
    BY <1>1, <1>2, <1>3, <1>4, <1>5, <1>6

\* StartReset keeps the invariant
LEMMA StartResetKeeps ==
    ASSUME DetectorInv, StartReset
    PROVE  DetectorInv'
  <1> USE CoreBoundsAssumption DEF DetectorInv, TypeOK, Resting, Lines, HeldProcess, NoSidecarLeak,
          ReaderPlace, Sessions, client, flags, world, threads, StartReset
  <1>1. TypeOK'
    <2>1. /\ ready' \in BOOLEAN /\ stop_requested' \in BOOLEAN
          /\ startup_error' \in BOOLEAN /\ runtime_error' \in BOOLEAN
      BY Zenon
    <2> QED
      BY <2>1
  <1>2. HeldProcess'
    OBVIOUS
  <1>3. NoSidecarLeak'
    OBVIOUS
  <1>4. ReaderPlace'
    OBVIOUS
  <1>5. Handshake'
    BY DEF Handshake, StartedMeansReady
  <1>6. Blame'
    BY DEF Blame, StopIsSilent
  <1> QED
    BY <1>1, <1>2, <1>3, <1>4, <1>5, <1>6

\* SpawnFails keeps the invariant
LEMMA SpawnFailsKeeps ==
    ASSUME DetectorInv, SpawnFails
    PROVE  DetectorInv'
  <1> USE CoreBoundsAssumption DEF DetectorInv, TypeOK, Resting, Lines, HeldProcess, NoSidecarLeak,
          ReaderPlace, Sessions, client, flags, world, threads, SpawnFails
  <1>1. TypeOK'
    OBVIOUS
  <1>2. HeldProcess'
    OBVIOUS
  <1>3. NoSidecarLeak'
    OBVIOUS
  <1>4. ReaderPlace'
    OBVIOUS
  <1>5. Handshake'
    BY DEF Handshake, StartedMeansReady
  <1>6. Blame'
    BY DEF Blame, StopIsSilent
  <1> QED
    BY <1>1, <1>2, <1>3, <1>4, <1>5, <1>6

\* Spawn keeps the invariant
LEMMA SpawnKeeps ==
    ASSUME DetectorInv, Spawn
    PROVE  DetectorInv'
  <1> USE CoreBoundsAssumption DEF DetectorInv, TypeOK, Resting, Lines, HeldProcess, NoSidecarLeak,
          ReaderPlace, Sessions, client, flags, world, threads, Spawn
  <1>1. TypeOK'
    <2>1. session \in Sessions /\ process' \in 0 .. session'
      OBVIOUS
    <2>2. /\ sidecar' \in [Sessions -> {"none", "alive", "exited"}]
          /\ reader' \in [Sessions -> {"none", "starting", "reading", "handling", "waking", "done"}]
      BY <2>1
    <2> QED
      BY <2>1, <2>2
  <1>2. HeldProcess'
    <2>1. session > 0 /\ process' = session
      OBVIOUS
    <2>2. \A s \in Sessions : s > session =>
             sidecar'[s] = sidecar[s] /\ reader'[s] = reader[s] /\ signalled' = signalled
      OBVIOUS
    <2> QED
      BY <2>1, <2>2
  <1>3. NoSidecarLeak'
    OBVIOUS
  <1>4. ReaderPlace'
    <2>1. \A r \in Sessions : r # session => reader'[r] = reader[r]
      OBVIOUS
    <2>2. \A r \in Sessions : r # session => reader[r] \in {"none", "done"}
      OBVIOUS
    <2>3. reader'[session] = "starting" /\ ~ ready' /\ process' = session
      BY DEF Handshake
    <2> QED
      BY <2>1, <2>2, <2>3
  <1>5. Handshake'
    BY DEF Handshake, StartedMeansReady
  <1>6. Blame'
    BY DEF Blame, StopIsSilent
  <1> QED
    BY <1>1, <1>2, <1>3, <1>4, <1>5, <1>6

\* AwaitReady keeps the invariant
LEMMA AwaitReadyKeeps ==
    ASSUME DetectorInv, AwaitReady
    PROVE  DetectorInv'
  <1> USE CoreBoundsAssumption DEF DetectorInv, TypeOK, Resting, Lines, HeldProcess, NoSidecarLeak,
          ReaderPlace, Sessions, client, flags, world, threads, AwaitReady, BeginStop
  <1>1. TypeOK'
    <2>1. CASE startup_error
      <3>1. /\ ready' \in BOOLEAN /\ stop_requested' \in BOOLEAN
            /\ startup_error' \in BOOLEAN /\ runtime_error' \in BOOLEAN
        BY <2>1, Zenon
      <3> QED
        BY <2>1, <3>1
    <2>2. CASE ~ startup_error
      BY <2>2
    <2> QED
      BY <2>1, <2>2
  <1>2. HeldProcess'
    OBVIOUS
  <1>3. NoSidecarLeak'
    OBVIOUS
  <1>4. ReaderPlace'
    <2>1. CASE startup_error
      BY <2>1
    <2>2. CASE ~ startup_error
      BY <2>2
    <2> QED
      BY <2>1, <2>2
  <1>5. Handshake'
    BY DEF Handshake, StartedMeansReady
  <1>6. Blame'
    <2>1. CASE startup_error
      BY <2>1 DEF Blame, StopIsSilent
    <2>2. CASE ~ startup_error
      <3>1. /\ pc' = "running"
            /\ UNCHANGED <<stop_requested, session, pipe, faulty, signalled, sidecar, runtime_error>>
        BY <2>2
      <3> HIDE DEF AwaitReady, BeginStop
      <3> QED
        BY <3>1 DEF Blame, StopIsSilent
    <2> QED
      BY <2>1, <2>2
  <1> QED
    BY <1>1, <1>2, <1>3, <1>4, <1>5, <1>6

\* ReadyTimesOut keeps the invariant
LEMMA ReadyTimesOutKeeps ==
    ASSUME DetectorInv, ReadyTimesOut
    PROVE  DetectorInv'
  <1> USE CoreBoundsAssumption DEF DetectorInv, TypeOK, Resting, Lines, HeldProcess, NoSidecarLeak,
          ReaderPlace, Sessions, client, flags, world, threads, ReadyTimesOut, BeginStop
  <1>1. TypeOK'
    OBVIOUS
  <1>2. HeldProcess'
    OBVIOUS
  <1>3. NoSidecarLeak'
    OBVIOUS
  <1>4. ReaderPlace'
    OBVIOUS
  <1>5. Handshake'
    BY DEF Handshake, StartedMeansReady
  <1>6. Blame'
    BY DEF Blame, StopIsSilent
  <1> QED
    BY <1>1, <1>2, <1>3, <1>4, <1>5, <1>6

\* InterruptStart keeps the invariant
LEMMA InterruptStartKeeps ==
    ASSUME DetectorInv, InterruptStart
    PROVE  DetectorInv'
  <1> USE CoreBoundsAssumption DEF DetectorInv, TypeOK, Resting, Lines, HeldProcess, NoSidecarLeak,
          ReaderPlace, Sessions, client, flags, world, threads, InterruptStart, BeginStop
  <1>1. TypeOK'
    OBVIOUS
  <1>2. HeldProcess'
    OBVIOUS
  <1>3. NoSidecarLeak'
    OBVIOUS
  <1>4. ReaderPlace'
    OBVIOUS
  <1>5. Handshake'
    BY DEF Handshake, StartedMeansReady
  <1>6. Blame'
    BY DEF Blame, StopIsSilent
  <1> QED
    BY <1>1, <1>2, <1>3, <1>4, <1>5, <1>6

\* CheckHealthRaises keeps the invariant
LEMMA CheckHealthRaisesKeeps ==
    ASSUME DetectorInv, CheckHealthRaises
    PROVE  DetectorInv'
  <1> USE CoreBoundsAssumption DEF DetectorInv, TypeOK, Resting, Lines, HeldProcess, NoSidecarLeak,
          ReaderPlace, Sessions, client, flags, world, threads, CheckHealthRaises
  <1>1. TypeOK'
    OBVIOUS
  <1>2. HeldProcess'
    OBVIOUS
  <1>3. NoSidecarLeak'
    OBVIOUS
  <1>4. ReaderPlace'
    OBVIOUS
  <1>5. Handshake'
    BY DEF Handshake, StartedMeansReady
  <1>6. Blame'
    BY DEF Blame, StopIsSilent
  <1> QED
    BY <1>1, <1>2, <1>3, <1>4, <1>5, <1>6

\* Stop keeps the invariant
LEMMA StopKeeps ==
    ASSUME DetectorInv, Stop
    PROVE  DetectorInv'
  <1> USE CoreBoundsAssumption DEF DetectorInv, TypeOK, Resting, Lines, HeldProcess, NoSidecarLeak,
          ReaderPlace, Sessions, client, flags, world, threads, Stop, BeginStop
  <1>1. TypeOK'
    OBVIOUS
  <1>2. HeldProcess'
    OBVIOUS
  <1>3. NoSidecarLeak'
    OBVIOUS
  <1>4. ReaderPlace'
    OBVIOUS
  <1>5. Handshake'
    BY DEF Handshake, StartedMeansReady
  <1>6. Blame'
    BY DEF Blame, StopIsSilent
  <1> QED
    BY <1>1, <1>2, <1>3, <1>4, <1>5, <1>6

\* Terminate keeps the invariant
LEMMA TerminateKeeps ==
    ASSUME DetectorInv, Terminate
    PROVE  DetectorInv'
  <1> USE CoreBoundsAssumption DEF DetectorInv, TypeOK, Resting, Lines, HeldProcess, NoSidecarLeak,
          ReaderPlace, Sessions, client, flags, world, threads, Terminate
  <1>1. TypeOK'
    <2>1. UNCHANGED <<session, process, victim, after, reported, flags, sidecar, pipe, faulty>>
          /\ UNCHANGED threads
      OBVIOUS
    <2>2. pc' \in {"raised", "stopped", "waiting"}
      OBVIOUS
    <2>3. signalled' \in [Sessions -> BOOLEAN]
      <3>1. signalled' = signalled
            \/ signalled' = [signalled EXCEPT
                               ![victim] = signalled[victim] \/ sidecar[victim] = "alive"]
        BY Zenon DEF Terminate
      <3>2. signalled \in [Sessions -> BOOLEAN]
        OBVIOUS
      <3>3. (signalled[victim] \/ sidecar[victim] = "alive") \in BOOLEAN
        BY Zenon
      <3> HIDE DEF Terminate, TypeOK
      <3> QED
        BY <3>1, <3>2, <3>3, UpdateTyped
    <2> HIDE DEF Terminate
    <2> QED
      BY <2>1, <2>2, <2>3
  <1>2. HeldProcess'
    OBVIOUS
  <1>3. NoSidecarLeak'
    OBVIOUS
  <1>4. ReaderPlace'
    OBVIOUS
  <1>5. Handshake'
    BY DEF Handshake, StartedMeansReady
  <1>6. Blame'
    BY DEF Blame, StopIsSilent
  <1> QED
    BY <1>1, <1>2, <1>3, <1>4, <1>5, <1>6

\* Wait keeps the invariant
LEMMA WaitKeeps ==
    ASSUME DetectorInv, Wait
    PROVE  DetectorInv'
  <1> USE CoreBoundsAssumption DEF DetectorInv, TypeOK, Resting, Lines, HeldProcess, NoSidecarLeak,
          ReaderPlace, Sessions, client, flags, world, threads, Wait
  <1>1. TypeOK'
    OBVIOUS
  <1>2. HeldProcess'
    OBVIOUS
  <1>3. NoSidecarLeak'
    OBVIOUS
  <1>4. ReaderPlace'
    OBVIOUS
  <1>5. Handshake'
    BY DEF Handshake, StartedMeansReady
  <1>6. Blame'
    BY DEF Blame, StopIsSilent
  <1> QED
    BY <1>1, <1>2, <1>3, <1>4, <1>5, <1>6

\* Kill keeps the invariant
LEMMA KillKeeps ==
    ASSUME DetectorInv, Kill
    PROVE  DetectorInv'
  <1> USE CoreBoundsAssumption DEF DetectorInv, TypeOK, Resting, Lines, HeldProcess, NoSidecarLeak,
          ReaderPlace, Sessions, client, flags, world, threads, Kill
  <1>1. TypeOK'
    OBVIOUS
  <1>2. HeldProcess'
    OBVIOUS
  <1>3. NoSidecarLeak'
    OBVIOUS
  <1>4. ReaderPlace'
    OBVIOUS
  <1>5. Handshake'
    BY DEF Handshake, StartedMeansReady
  <1>6. Blame'
    BY DEF Blame, StopIsSilent
  <1> QED
    BY <1>1, <1>2, <1>3, <1>4, <1>5, <1>6

\* Join keeps the invariant
LEMMA JoinKeeps ==
    ASSUME DetectorInv, Join
    PROVE  DetectorInv'
  <1> USE CoreBoundsAssumption DEF DetectorInv, TypeOK, Resting, Lines, HeldProcess, NoSidecarLeak,
          ReaderPlace, Sessions, client, flags, world, threads, Join
  <1>1. TypeOK'
    OBVIOUS
  <1>2. HeldProcess'
    OBVIOUS
  <1>3. NoSidecarLeak'
    OBVIOUS
  <1>4. ReaderPlace'
    OBVIOUS
  <1>5. Handshake'
    BY DEF Handshake, StartedMeansReady
  <1>6. Blame'
    BY DEF Blame, StopIsSilent
  <1> QED
    BY <1>1, <1>2, <1>3, <1>4, <1>5, <1>6

\* Report keeps the invariant
LEMMA ReportKeeps ==
    ASSUME DetectorInv, Report
    PROVE  DetectorInv'
  <1> USE CoreBoundsAssumption DEF DetectorInv, TypeOK, Resting, Lines, HeldProcess, NoSidecarLeak,
          ReaderPlace, Sessions, client, flags, world, threads, Report
  <1>1. TypeOK'
    OBVIOUS
  <1>2. HeldProcess'
    OBVIOUS
  <1>3. NoSidecarLeak'
    OBVIOUS
  <1>4. ReaderPlace'
    OBVIOUS
  <1>5. Handshake'
    BY DEF Handshake, StartedMeansReady
  <1>6. Blame'
    BY DEF Blame, StopIsSilent
  <1> QED
    BY <1>1, <1>2, <1>3, <1>4, <1>5, <1>6

\* ReaderStart keeps the invariant
LEMMA ReaderStartKeeps ==
    ASSUME DetectorInv, NEW r \in Sessions, ReaderStart(r)
    PROVE  DetectorInv'
  <1> USE CoreBoundsAssumption DEF DetectorInv, TypeOK, Resting, Lines, HeldProcess, NoSidecarLeak,
          ReaderPlace, Sessions, client, flags, world, threads, ReaderStart, SetError
  <1>1. TypeOK'
    <2> HIDE DEF SetError
    <2>1. CASE process = 0
      <3>1. SetError(r, "done") /\ UNCHANGED source
        BY <2>1
      <3>2. /\ ready' \in BOOLEAN /\ startup_error' \in BOOLEAN /\ runtime_error' \in BOOLEAN
            /\ reader' \in [Sessions -> {"none", "starting", "reading", "handling", "waking", "done"}]
            /\ resume' \in [Sessions -> {"reading", "done"}]
        BY <3>1, SetErrorTyped
      <3> QED
        BY <2>1, <3>1, <3>2
    <2>2. CASE process # 0
      <3>1. /\ source' = [source EXCEPT ![r] = process]
            /\ reader' = [reader EXCEPT ![r] = "reading"]
            /\ UNCHANGED <<ready, startup_error, runtime_error, resume>>
        BY <2>2
      <3>2. process \in 0 .. MaxSessions /\ source \in [Sessions -> 0 .. MaxSessions]
        OBVIOUS
      <3>3. source' \in [Sessions -> 0 .. MaxSessions]
        BY <3>1, <3>2, UpdateTyped
      <3>4. reader' \in [Sessions -> {"none", "starting", "reading", "handling", "waking", "done"}]
        BY <3>1, UpdateTyped
      <3>5. UNCHANGED <<client, world, stop_requested, loss_counts, line, handshaken>>
        OBVIOUS
      <3> HIDE DEF ReaderStart
      <3> QED
        BY <3>1, <3>3, <3>4, <3>5
    <2> QED
      BY <2>1, <2>2
  <1>2. HeldProcess'
    <2>1. /\ r = session /\ pc # "spawning"
          /\ UNCHANGED <<pc, process, session, victim, sidecar, signalled>>
      OBVIOUS
    <2>2. \A q \in Sessions : q # r => reader'[q] = reader[q]
      OBVIOUS
    <2> HIDE DEF ReaderStart, SetError
    <2> QED
      BY <2>1, <2>2
  <1>3. NoSidecarLeak'
    OBVIOUS
  <1>4. ReaderPlace'
    <2>1. /\ r = session /\ ~ ready
          /\ r = process \/ (victim = r /\ pc \in {"terminating", "waiting", "joining"})
      OBVIOUS
    <2>2. \A q \in Sessions : q # r => reader[q] \in {"none", "done"}
      BY <2>1
    <2>3. /\ UNCHANGED <<session, process, victim, pc, line, faulty>>
          /\ \A q \in Sessions : q # r => reader'[q] = reader[q]
      OBVIOUS
    <2>4. \/ reader'[r] = "reading" /\ source'[r] = r
          \/ reader'[r] = "waking" /\ startup_error' /\ resume'[r] = "done"
      BY <2>1
    <2> HIDE DEF ReaderStart, SetError
    <2> QED
      BY <2>1, <2>2, <2>3, <2>4
  <1>5. Handshake'
    BY DEF Handshake, StartedMeansReady
  <1>6. Blame'
    <2>1. ~ ready
      OBVIOUS
    <2>2. runtime_error' = runtime_error
      BY <2>1
    <2> QED
      BY <2>2 DEF Blame, StopIsSilent
  <1> QED
    BY <1>1, <1>2, <1>3, <1>4, <1>5, <1>6

\* ReadLine keeps the invariant
LEMMA ReadLineKeeps ==
    ASSUME DetectorInv, NEW r \in Sessions, ReadLine(r)
    PROVE  DetectorInv'
  <1> USE CoreBoundsAssumption DEF DetectorInv, TypeOK, Resting, Lines, HeldProcess, NoSidecarLeak,
          ReaderPlace, Sessions, client, flags, world, threads, ReadLine
  <1>1. TypeOK'
    <2>1. source[r] \in Sessions /\ pipe[source[r]] \in Seq(Lines) /\ pipe[source[r]] # <<>>
      OBVIOUS
    <2>2. Head(pipe[source[r]]) \in Lines /\ Tail(pipe[source[r]]) \in Seq(Lines)
      BY <2>1, HeadTailProperties
    <2> HIDE DEF Lines
    <2> QED
      BY <2>1, <2>2
  <1>2. HeldProcess'
    OBVIOUS
  <1>3. NoSidecarLeak'
    OBVIOUS
  <1>4. ReaderPlace'
    <2>1. r = session /\ source[r] = r /\ pipe[r] \in Seq(Lines) /\ pipe[r] # <<>>
      OBVIOUS
    <2>2. Head(pipe[r]) = pipe[r][1] /\ 1 \in 1 .. Len(pipe[r])
      BY <2>1
    <2>3. line'[r] = "error" => faulty[r]
      BY <2>1, <2>2 DEF Blame
    <2>4. /\ reader' = [reader EXCEPT ![r] = "handling"]
          /\ UNCHANGED <<faulty, source, resume, session, process, victim, pc, ready, startup_error>>
          /\ \A q \in Sessions : q # r => line'[q] = line[q]
      OBVIOUS
    <2> QED
      BY <2>1, <2>3, <2>4
  <1>5. Handshake'
    BY DEF Handshake, StartedMeansReady
  <1>6. Blame'
    BY DEF Blame, StopIsSilent
  <1> QED
    BY <1>1, <1>2, <1>3, <1>4, <1>5, <1>6

\* HandleLine keeps the invariant
LEMMA HandleLineKeeps ==
    ASSUME DetectorInv, NEW r \in Sessions, HandleLine(r)
    PROVE  DetectorInv'
  <1> USE CoreBoundsAssumption DEF DetectorInv, TypeOK, Resting, Lines, HeldProcess, NoSidecarLeak,
          ReaderPlace, Sessions, client, flags, world, threads, HandleLine, HandleReady, HandleEvent, HandleLost, HandleBad, SetError
  <1>1. TypeOK'
    <2> HIDE DEF SetError
    <2>1. CASE HandleReady(r)
      <3>1. handshaken' \in [Sessions -> BOOLEAN] /\ ready' \in BOOLEAN
        <4>1. TRUE \in BOOLEAN /\ handshaken \in [Sessions -> BOOLEAN]
          BY Zenon
        <4>2. handshaken' = [handshaken EXCEPT ![source[r]] = TRUE] /\ ready' = TRUE
          BY <2>1
        <4> QED
          BY <4>1, <4>2, UpdateTyped
      <3> QED
        BY <2>1, <3>1
    <2>2. CASE HandleEvent(r)
      BY <2>2
    <2>3. CASE HandleLost(r)
      BY <2>3
    <2>4. CASE HandleBad(r)
      <3>1. SetError(r, "reading") /\ UNCHANGED <<loss_counts, handshaken>>
        BY <2>4
      <3>2. /\ ready' \in BOOLEAN /\ startup_error' \in BOOLEAN /\ runtime_error' \in BOOLEAN
            /\ reader' \in [Sessions -> {"none", "starting", "reading", "handling", "waking", "done"}]
            /\ resume' \in [Sessions -> {"reading", "done"}]
        BY <3>1, SetErrorTyped
      <3> HIDE DEF HandleReady, HandleEvent, HandleLost, HandleBad
      <3> QED
        BY <3>1, <3>2
    <2> HIDE DEF HandleReady, HandleEvent, HandleLost, HandleBad
    <2> QED
      BY <2>1, <2>2, <2>3, <2>4
  <1>2. HeldProcess'
    OBVIOUS
  <1>3. NoSidecarLeak'
    OBVIOUS
  <1>4. ReaderPlace'
    <2>1. /\ r = session /\ source[r] = r
          /\ r = process \/ (victim = r /\ pc \in {"terminating", "waiting", "joining"})
      OBVIOUS
    <2>2. \A q \in Sessions : q # r => reader[q] \in {"none", "done"}
      BY <2>1
    <2>3. /\ UNCHANGED <<session, process, victim, pc, source, line, faulty>>
          /\ \A q \in Sessions : q # r => reader'[q] = reader[q]
      OBVIOUS
    <2>4. \/ reader'[r] = "reading"
          \/ reader'[r] = "waking" /\ startup_error' /\ resume'[r] = "reading"
      OBVIOUS
    <2> HIDE DEF HandleLine, HandleReady, HandleEvent, HandleLost, HandleBad, SetError
    <2> QED
      BY <2>1, <2>2, <2>3, <2>4
  <1>5. Handshake'
    <2>1. /\ r = session /\ source[r] = r /\ pc # "spawning" /\ UNCHANGED <<pc, process>>
          /\ pc = "awaiting" => process = r
      OBVIOUS
    <2>2. /\ \A q \in Sessions : handshaken[q] => handshaken'[q]
          /\ ready' => ready \/ handshaken'[r]
          /\ startup_error => startup_error'
      BY <2>1
    <2>3. process \in Sessions \/ pc \notin {"awaiting", "running"}
      OBVIOUS
    <2> HIDE DEF HandleLine, HandleReady, HandleEvent, HandleLost, HandleBad, SetError
    <2> QED
      BY <2>1, <2>2, <2>3 DEF Handshake, StartedMeansReady
  <1>6. Blame'
    BY DEF Blame, StopIsSilent
  <1> QED
    BY <1>1, <1>2, <1>3, <1>4, <1>5, <1>6

\* Wake keeps the invariant
LEMMA WakeKeeps ==
    ASSUME DetectorInv, NEW r \in Sessions, Wake(r)
    PROVE  DetectorInv'
  <1> USE CoreBoundsAssumption DEF DetectorInv, TypeOK, Resting, Lines, HeldProcess, NoSidecarLeak,
          ReaderPlace, Sessions, client, flags, world, threads, Wake
  <1>1. TypeOK'
    OBVIOUS
  <1>2. HeldProcess'
    OBVIOUS
  <1>3. NoSidecarLeak'
    OBVIOUS
  <1>4. ReaderPlace'
    <2>1. /\ r = session /\ startup_error /\ (resume[r] = "reading" => source[r] = r)
          /\ r = process \/ (victim = r /\ pc \in {"terminating", "waiting", "joining"})
      OBVIOUS
    <2>2. /\ UNCHANGED <<session, process, victim, pc, source, line, faulty, startup_error, resume>>
          /\ reader'[r] = resume[r] /\ resume[r] \in {"reading", "done"}
          /\ \A q \in Sessions : q # r => reader'[q] = reader[q]
      OBVIOUS
    <2>3. \A q \in Sessions : q # r => reader[q] \in {"none", "done"}
      BY <2>1
    <2> HIDE DEF Wake
    <2> QED
      BY <2>1, <2>2, <2>3
  <1>5. Handshake'
    BY DEF Handshake, StartedMeansReady
  <1>6. Blame'
    BY DEF Blame, StopIsSilent
  <1> QED
    BY <1>1, <1>2, <1>3, <1>4, <1>5, <1>6

\* ReadEOF keeps the invariant
LEMMA ReadEOFKeeps ==
    ASSUME DetectorInv, NEW r \in Sessions, ReadEOF(r)
    PROVE  DetectorInv'
  <1> USE CoreBoundsAssumption DEF DetectorInv, TypeOK, Resting, Lines, HeldProcess, NoSidecarLeak,
          ReaderPlace, Sessions, client, flags, world, threads, ReadEOF, SetError
  <1>1. TypeOK'
    <2> HIDE DEF SetError
    <2>1. CASE stop_requested \/ startup_error \/ runtime_error
      <3>1. /\ reader' = [reader EXCEPT ![r] = "done"]
            /\ UNCHANGED <<client, flags, world, source, line, resume, handshaken, delivered>>
        BY <2>1
      <3>2. reader' \in [Sessions -> {"none", "starting", "reading", "handling", "waking", "done"}]
        BY <3>1, UpdateTyped
      <3> HIDE DEF ReadEOF
      <3> QED
        BY <3>1, <3>2
    <2>2. CASE ~ (stop_requested \/ startup_error \/ runtime_error)
      <3>1. SetError(r, "done")
        BY <2>2
      <3>2. /\ ready' \in BOOLEAN /\ startup_error' \in BOOLEAN /\ runtime_error' \in BOOLEAN
            /\ reader' \in [Sessions -> {"none", "starting", "reading", "handling", "waking", "done"}]
            /\ resume' \in [Sessions -> {"reading", "done"}]
        BY <3>1, SetErrorTyped
      <3> QED
        BY <2>2, <3>1, <3>2
    <2> QED
      BY <2>1, <2>2
  <1>2. HeldProcess'
    <2>1. r = session /\ reader[r] = "reading" /\ pc # "spawning"
      OBVIOUS
    <2>2. \A q \in Sessions : q # r => reader'[q] = reader[q]
      OBVIOUS
    <2> QED
      BY <2>1, <2>2
  <1>3. NoSidecarLeak'
    OBVIOUS
  <1>4. ReaderPlace'
    OBVIOUS
  <1>5. Handshake'
    BY DEF Handshake, StartedMeansReady
  <1>6. Blame'
    BY DEF Blame, StopIsSilent
  <1> QED
    BY <1>1, <1>2, <1>3, <1>4, <1>5, <1>6

\* Write keeps the invariant
LEMMA WriteKeeps ==
    ASSUME DetectorInv, NEW s \in Sessions, NEW l \in Lines, Write(s, l)
    PROVE  DetectorInv'
  <1> USE CoreBoundsAssumption DEF DetectorInv, TypeOK, Resting, Lines, HeldProcess, NoSidecarLeak,
          ReaderPlace, Sessions, client, flags, world, threads, Write
  <1>1. TypeOK'
    <2>1. UNCHANGED <<client, flags, sidecar, signalled, threads>>
      OBVIOUS
    <2>2. faulty' \in [Sessions -> BOOLEAN]
      OBVIOUS
    <2>3. pipe' \in [Sessions -> Seq(Lines)]
      <3>1. pipe \in [Sessions -> Seq(Lines)] /\ Append(pipe[s], l) \in Seq(Lines)
        OBVIOUS
      <3>2. pipe' = [pipe EXCEPT ![s] = Append(pipe[s], l)]
        OBVIOUS
      <3> HIDE DEF Write, TypeOK
      <3> QED
        BY <3>1, <3>2, UpdateTyped
    <2> HIDE DEF Write
    <2> QED
      BY <2>1, <2>2, <2>3
  <1>2. HeldProcess'
    OBVIOUS
  <1>3. NoSidecarLeak'
    OBVIOUS
  <1>4. ReaderPlace'
    OBVIOUS
  <1>5. Handshake'
    BY DEF Handshake, StartedMeansReady
  <1>6. Blame'
    <2>1. /\ \A x \in Sessions : faulty[x] => faulty'[x]
          /\ l = "error" => faulty'[s]
      <3>1. /\ faulty \in [Sessions -> BOOLEAN]
            /\ faulty' = [faulty EXCEPT ![s] = faulty[s] \/ l = "error"]
        OBVIOUS
      <3> HIDE DEF Write, TypeOK
      <3> QED
        BY <3>1
    <2>2. \A x \in Sessions : \A i \in 1 .. Len(pipe'[x]) : pipe'[x][i] = "error" => faulty'[x]
      <3> TAKE x \in Sessions
      <3> TAKE i \in 1 .. Len(pipe'[x])
      <3>1. CASE x # s
        BY <2>1, <3>1 DEF Blame
      <3>2. CASE x = s
        <4>1. /\ pipe'[s] = Append(pipe[s], l) /\ Len(pipe'[s]) = Len(pipe[s]) + 1
              /\ pipe'[s][Len(pipe[s]) + 1] = l
              /\ \A j \in 1 .. Len(pipe[s]) : pipe'[s][j] = pipe[s][j]
          OBVIOUS
        <4> HIDE DEF Write
        <4>2. CASE i = Len(pipe[s]) + 1
          BY <2>1, <3>2, <4>1, <4>2
        <4>3. CASE i \in 1 .. Len(pipe[s])
          <5>1. pipe[s][i] = "error" => faulty[s]
            BY <4>3 DEF Blame
          <5> QED
            BY <2>1, <3>2, <4>1, <4>3, <5>1
        <4>4. Len(pipe[s]) \in Nat
          OBVIOUS
        <4> QED
          BY <3>2, <4>1, <4>2, <4>3, <4>4
      <3> QED
        BY <3>1, <3>2
    <2>3. /\ UNCHANGED <<pc, stop_requested, session, sidecar, signalled, runtime_error>>
      OBVIOUS
    <2> HIDE DEF Write
    <2>4. StopIsSilent'
      BY <2>1, <2>3 DEF Blame, StopIsSilent
    <2>5. \A x \in Sessions : x = session' /\ ~ stop_requested' =>
             ~ signalled'[x] /\ (sidecar'[x] = "exited" => faulty'[x])
      BY <2>1, <2>3 DEF Blame
    <2>6. pc' \in {"terminating", "waiting", "joining"} => stop_requested'
      BY <2>3 DEF Blame
    <2> QED
      BY <2>2, <2>4, <2>5, <2>6 DEF Blame
  <1> QED
    BY <1>1, <1>2, <1>3, <1>4, <1>5, <1>6

\* Exit keeps the invariant
LEMMA ExitKeeps ==
    ASSUME DetectorInv, NEW s \in Sessions, Exit(s)
    PROVE  DetectorInv'
  <1> USE CoreBoundsAssumption DEF DetectorInv, TypeOK, Resting, Lines, HeldProcess, NoSidecarLeak,
          ReaderPlace, Sessions, client, flags, world, threads, Exit
  <1>1. TypeOK'
    OBVIOUS
  <1>2. HeldProcess'
    OBVIOUS
  <1>3. NoSidecarLeak'
    OBVIOUS
  <1>4. ReaderPlace'
    OBVIOUS
  <1>5. Handshake'
    BY DEF Handshake, StartedMeansReady
  <1>6. Blame'
    <2>1. /\ \A x \in Sessions : faulty[x] => faulty'[x]
          /\ ~ signalled[s] => faulty'[s]
          /\ \A x \in Sessions : x # s => sidecar'[x] = sidecar[x]
      OBVIOUS
    <2>2. UNCHANGED <<pc, stop_requested, session, signalled, runtime_error, pipe>>
      OBVIOUS
    <2> HIDE DEF Exit
    <2> QED
      BY <2>1, <2>2 DEF Blame, StopIsSilent
  <1> QED
    BY <1>1, <1>2, <1>3, <1>4, <1>5, <1>6

\* A step keeps the invariant when join waits for the reader
LEMMA DetectorStep ==
    ASSUME ~ JoinMayTimeOut, DetectorInv, [Next]_vars
    PROVE  DetectorInv'
  <1>1. CASE ClientStep
    <2>1. ~ JoinTimesOut
      BY DEF JoinTimesOut
    <2> QED
      BY <1>1, <2>1, StartWithoutSidecarKeeps, StartResetKeeps, SpawnFailsKeeps, SpawnKeeps,
         AwaitReadyKeeps, ReadyTimesOutKeeps, InterruptStartKeeps, CheckHealthRaisesKeeps,
         StopKeeps, TerminateKeeps, WaitKeeps, KillKeeps, JoinKeeps, ReportKeeps, Zenon
         DEF ClientStep
  <1>2. ASSUME NEW s \in Sessions, ReaderStep(s) PROVE DetectorInv'
    BY <1>2, ReaderStartKeeps, ReadLineKeeps, HandleLineKeeps, WakeKeeps, ReadEOFKeeps, Zenon
       DEF ReaderStep
  <1>3. ASSUME NEW s \in Sessions, SidecarStep(s) PROVE DetectorInv'
    BY <1>3, WriteKeeps, ExitKeeps, Zenon DEF SidecarStep
  <1>4. CASE UNCHANGED vars
    BY <1>4 DEF vars, client, flags, world, threads, DetectorInv, TypeOK, HeldProcess,
       NoSidecarLeak, ReaderPlace, Handshake, StartedMeansReady, Blame, StopIsSilent
  <1> QED
    BY <1>1, <1>2, <1>3, <1>4 DEF Next

\* The detector's inductive invariant, when join waits for the reader thread.
THEOREM DetectorInvariant ==
    ASSUME ~ JoinMayTimeOut PROVE Spec => []DetectorInv
  <1>1. Init => DetectorInv
    BY DetectorInit
  <1>2. DetectorInv /\ [Next]_vars => DetectorInv'
    BY DetectorStep
  <1> QED
    BY <1>1, <1>2, PTL DEF Spec

\* start returns normally only after a matching ready was handled.
THEOREM StartIsHandshaken ==
    ASSUME ~ JoinMayTimeOut PROVE Spec => []StartedMeansReady
  <1>1. DetectorInv => StartedMeansReady
    BY DEF DetectorInv, Handshake
  <1> QED
    BY <1>1, DetectorInvariant, PTL

\* A runtime error has a culprit: the end of file that stop causes is no error.
THEOREM StopSuppressesEOF ==
    ASSUME ~ JoinMayTimeOut PROVE Spec => []StopIsSilent
  <1>1. DetectorInv => StopIsSilent
    BY DEF DetectorInv, Blame
  <1> QED
    BY <1>1, DetectorInvariant, PTL

-----------------------------------------------------------------------------
(* No sidecar is leaked, also when join gives up on the reader.  The argument *)
(* needs only the client's variables and the processes.                       *)

\* The client's own variables, and which process it holds at each point
LeakInv ==
    /\ pc \in Resting \cup {"spawning", "awaiting", "terminating", "waiting", "joining"}
    /\ after \in {"raised", "stopped"}
    /\ session \in 0 .. MaxSessions
    /\ process \in 0 .. session
    /\ victim \in 0 .. session
    /\ sidecar \in [Sessions -> {"none", "alive", "exited"}]
    /\ pc \notin {"awaiting", "running", "raised"} => process = 0
    /\ pc \in {"spawning", "awaiting", "running"} => session > 0
    /\ pc \in {"waiting", "joining"} => victim # 0
    /\ \A s \in Sessions : s > session \/ (pc = "spawning" /\ s = session) =>
          sidecar[s] = "none"
    /\ NoSidecarLeak

\* The calls that only move the client between the points of start and stop
LEMMA QuietClientKeepsLeakInv ==
    ASSUME LeakInv,
           \/ StartWithoutSidecar \/ StartReset \/ SpawnFails \/ CheckHealthRaises
           \/ Wait \/ Join \/ JoinTimesOut \/ Report
    PROVE  LeakInv'
  <1> USE CoreBoundsAssumption DEF LeakInv, NoSidecarLeak, Resting, Sessions, world
  <1>1. CASE StartWithoutSidecar
    BY <1>1 DEF StartWithoutSidecar
  <1>2. CASE StartReset
    BY <1>2 DEF StartReset
  <1>3. CASE SpawnFails
    BY <1>3 DEF SpawnFails
  <1>4. CASE CheckHealthRaises
    BY <1>4 DEF CheckHealthRaises
  <1>5. CASE Wait
    BY <1>5 DEF Wait
  <1>6. CASE Join
    BY <1>6 DEF Join
  <1>7. CASE JoinTimesOut
    BY <1>7 DEF JoinTimesOut
  <1>8. CASE Report
    BY <1>8 DEF Report
  <1> QED
    BY <1>1, <1>2, <1>3, <1>4, <1>5, <1>6, <1>7, <1>8

\* The calls that take a process over, launch one, signal one or kill one
LEMMA HandoverKeepsLeakInv ==
    ASSUME LeakInv,
           \/ Spawn \/ AwaitReady \/ ReadyTimesOut \/ InterruptStart
           \/ Stop \/ Terminate \/ Kill
    PROVE  LeakInv'
  <1> USE CoreBoundsAssumption DEF LeakInv, NoSidecarLeak, Resting, Sessions, world
  <1>1. CASE Spawn
    BY <1>1 DEF Spawn
  <1>2. CASE AwaitReady
    <2>1. /\ pc = "awaiting" /\ UNCHANGED <<session, sidecar>>
          /\ \/ UNCHANGED <<process, victim, after>> /\ pc' = "running"
             \/ process' = 0 /\ victim' = process /\ pc' = "terminating" /\ after' = "raised"
      BY <1>2 DEF AwaitReady, BeginStop
    <2> QED
      BY <2>1
  <1>3. CASE ReadyTimesOut
    BY <1>3 DEF ReadyTimesOut, BeginStop
  <1>4. CASE InterruptStart
    BY <1>4 DEF InterruptStart, BeginStop
  <1>5. CASE Stop
    BY <1>5 DEF Stop, BeginStop
  <1>6. CASE Terminate
    BY <1>6 DEF Terminate
  <1>7. CASE Kill
    BY <1>7 DEF Kill
  <1> QED
    BY <1>1, <1>2, <1>3, <1>4, <1>5, <1>6, <1>7

\* Whichever way start fails, is interrupted or stop returns, no sidecar
\* outlives the call, whether or not join gives up on the reader thread.
THEOREM NoSidecarIsLeaked == Spec => []NoSidecarLeak
  <1>1. Init => LeakInv
    BY CoreBoundsAssumption DEF Init, LeakInv, NoSidecarLeak, Resting, Sessions
  <1>2. LeakInv /\ [Next]_vars => LeakInv'
    <2> SUFFICES ASSUME LeakInv, [Next]_vars PROVE LeakInv'
      OBVIOUS
    <2>1. CASE ClientStep
      BY <2>1, QuietClientKeepsLeakInv, HandoverKeepsLeakInv, Zenon DEF ClientStep
    <2>2. ASSUME NEW r \in Sessions, ReaderStep(r) PROVE LeakInv'
      <3>1. UNCHANGED <<client, sidecar>>
        BY <2>2 DEF ReaderStep, ReaderStart, ReadLine, HandleLine, Wake, ReadEOF, world
      <3> QED
        BY <3>1 DEF LeakInv, NoSidecarLeak, client
    <2>3. ASSUME NEW s \in Sessions, SidecarStep(s) PROVE LeakInv'
      <3>1. CASE Exit(s)
        BY <3>1, CoreBoundsAssumption DEF Exit, LeakInv, NoSidecarLeak, client, Sessions
      <3>2. CASE \E l \in Lines : Write(s, l)
        BY <3>2 DEF Write, LeakInv, NoSidecarLeak, client
      <3> QED
        BY <2>3, <3>1, <3>2 DEF SidecarStep
    <2>4. CASE UNCHANGED vars
      BY <2>4 DEF vars, client, world, LeakInv, NoSidecarLeak
    <2> QED
      BY <2>1, <2>2, <2>3, <2>4 DEF Next
  <1>3. LeakInv => NoSidecarLeak
    BY DEF LeakInv
  <1> QED
    BY <1>1, <1>2, <1>3, PTL DEF Spec

-----------------------------------------------------------------------------
(* Counting lines.                                                            *)

\* The marks of a sequence of lines are as many numbers
LEMMA MarksTyped ==
    ASSUME NEW l, NEW s \in Seq(Lines)
    PROVE  /\ Marks(l, s) \in Seq(Int) /\ Len(Marks(l, s)) = Len(s)
           /\ \A i \in 1 .. Len(s) : Marks(l, s)[i] = IF s[i] = l THEN 1 ELSE 0
  <1>1. \A i \in 1 .. Len(s) : (IF s[i] = l THEN 1 ELSE 0) \in Int
    OBVIOUS
  <1>2. Len(s) \in Nat
    OBVIOUS
  <1> QED BY <1>1, <1>2 DEF Marks

\* Nothing to count
LEMMA CountEmpty == ASSUME NEW l PROVE Count(l, <<>>) = 0
  <1>1. Marks(l, <<>>) = <<>>
    BY DEF Marks
  <1> QED BY <1>1, TotalEmpty DEF Count

\* A line at the end counts if it is an l
LEMMA CountAppend ==
    ASSUME NEW l, NEW s \in Seq(Lines), NEW x \in Lines
    PROVE  Count(l, Append(s, x)) = Count(l, s) + (IF x = l THEN 1 ELSE 0)
  <1> DEFINE t == Append(s, x)
  <1>1. t \in Seq(Lines) /\ Len(t) = Len(s) + 1 /\ t[Len(s) + 1] = x
        /\ \A i \in 1 .. Len(s) : t[i] = s[i]
    OBVIOUS
  <1> HIDE DEF t
  <1>2. /\ Marks(l, s) \in Seq(Int) /\ Len(Marks(l, s)) = Len(s)
        /\ \A i \in 1 .. Len(s) : Marks(l, s)[i] = IF s[i] = l THEN 1 ELSE 0
    BY MarksTyped
  <1>3. /\ Marks(l, t) \in Seq(Int) /\ Len(Marks(l, t)) = Len(s) + 1
        /\ \A i \in 1 .. Len(s) + 1 : Marks(l, t)[i] = IF t[i] = l THEN 1 ELSE 0
    BY <1>1, MarksTyped
  <1>4. Len(s) \in Nat
    OBVIOUS
  <1>5. ASSUME NEW i \in 1 .. Len(s) PROVE Marks(l, t)[i] = Marks(l, s)[i]
    <2>1. t[i] = s[i] /\ i \in 1 .. Len(s) + 1
      BY <1>1, <1>4
    <2>2. Marks(l, t)[i] = IF s[i] = l THEN 1 ELSE 0
      BY <1>3, <2>1
    <2>3. Marks(l, s)[i] = IF s[i] = l THEN 1 ELSE 0
      BY <1>2
    <2> QED BY <2>2, <2>3
  <1>6. Marks(l, t)[Len(s) + 1] = IF x = l THEN 1 ELSE 0
    BY <1>1, <1>3, <1>4
  <1>7. Total(Marks(l, t)) = Total(Marks(l, s)) + Marks(l, t)[Len(s) + 1]
    BY <1>2, <1>3, <1>5, TotalLonger
  <1> QED BY <1>6, <1>7 DEF Count, t

\* The first line counts if it is an l
LEMMA CountTail ==
    ASSUME NEW l, NEW s \in Seq(Lines), s # <<>>
    PROVE  Count(l, Tail(s)) = Count(l, s) - (IF Head(s) = l THEN 1 ELSE 0)
  <1> DEFINE t == Tail(s)
  <1>1. /\ t \in Seq(Lines) /\ Len(t) \in Nat /\ Len(s) = Len(t) + 1
        /\ \A i \in 1 .. Len(t) : t[i] = s[i + 1]
        /\ Head(s) = s[1]
    OBVIOUS
  <1> HIDE DEF t
  <1>2. /\ Marks(l, s) \in Seq(Int) /\ Len(Marks(l, s)) = Len(t) + 1
        /\ \A i \in 1 .. Len(t) + 1 : Marks(l, s)[i] = IF s[i] = l THEN 1 ELSE 0
    <2>1. /\ Marks(l, s) \in Seq(Int) /\ Len(Marks(l, s)) = Len(s)
          /\ \A i \in 1 .. Len(s) : Marks(l, s)[i] = IF s[i] = l THEN 1 ELSE 0
      BY MarksTyped
    <2> QED BY <1>1, <2>1
  <1>3. /\ Marks(l, t) \in Seq(Int) /\ Len(Marks(l, t)) = Len(t)
        /\ \A i \in 1 .. Len(t) : Marks(l, t)[i] = IF t[i] = l THEN 1 ELSE 0
    BY <1>1, MarksTyped
  <1>4. ASSUME NEW i \in 1 .. Len(t) PROVE Marks(l, t)[i] = Marks(l, s)[i + 1]
    <2>1. i + 1 \in 1 .. Len(t) + 1
      BY <1>1
    <2> QED BY <1>1, <1>2, <1>3, <2>1
  <1>5. Marks(l, s)[1] = IF Head(s) = l THEN 1 ELSE 0
    BY <1>1, <1>2
  <1>6. Total(Marks(l, t)) = Total(Marks(l, s)) - Marks(l, s)[1]
    BY <1>2, <1>3, <1>4, TotalShorter
  <1> QED BY <1>5, <1>6 DEF Count, t

\* A count is a number
LEMMA CountTyped ==
    ASSUME NEW l, NEW s \in Seq(Lines)
    PROVE  Count(l, s) \in Int
  <1>1. PICK f : Sums(f, Marks(l, s), Len(Marks(l, s))) /\ Total(Marks(l, s)) = f[Len(Marks(l, s))]
    BY MarksTyped, TotalHasSums
  <1> QED BY <1>1, MarksTyped DEF Sums, Count

-----------------------------------------------------------------------------
(* Where the lines of a sidecar go.                                           *)

\* A thread that reads or handles belongs to the current session and reads its
\* own sidecar
LEMMA ActiveReader ==
    ASSUME DetectorInv, NEW r \in Sessions, reader[r] \in {"reading", "handling"}
    PROVE  r = session /\ source[r] = r /\ pc # "spawning" /\ session > 0
  <1>1. r = session /\ source[r] = r
    BY DEF DetectorInv, ReaderPlace
  <1>2. pc # "spawning"
    BY <1>1 DEF DetectorInv, HeldProcess
  <1>3. session > 0
    BY <1>1, CoreBoundsAssumption DEF Sessions
  <1> QED BY <1>1, <1>2, <1>3

\* A live sidecar is that of the current session
LEMMA LiveSidecar ==
    ASSUME DetectorInv, NEW s \in Sessions, sidecar[s] = "alive"
    PROVE  s <= session /\ ~ (pc = "spawning" /\ s = session)
  BY CoreBoundsAssumption DEF DetectorInv, TypeOK, HeldProcess, Sessions

\* A step that touches no line keeps Untouched
LEMMA UntouchedKept ==
    ASSUME Untouched, UNCHANGED <<session, written, delivered, pipe, faulty>>,
           pc' = "spawning" => pc = "spawning"
    PROVE  Untouched'
  BY DEF Untouched

\* Untouched holds initially, and every step keeps it
LEMMA UntouchedInit == Init => Untouched
  BY DEF Init, Untouched, Lines

LEMMA UntouchedStep ==
    ASSUME DetectorInv, Untouched, [Next]_vars
    PROVE  Untouched'
  <1> USE DEF client, flags, world, threads
  <1>1. CASE StartReset
    <2>1. session' = session + 1 /\ session \in Nat /\ UNCHANGED <<written, delivered, pipe, faulty>>
      BY <1>1, CoreBoundsAssumption DEF StartReset, DetectorInv, TypeOK
    <2>2. \A s \in Sessions : s >= session + 1 => s > session
      BY <2>1, CoreBoundsAssumption DEF Sessions
    <2>3. \A s \in Sessions : s > session' \/ (pc' = "spawning" /\ s = session') => s > session
      BY <2>1, CoreBoundsAssumption DEF Sessions
    <2> QED BY <2>1, <2>3 DEF Untouched
  <1>2. CASE ClientStep /\ ~ StartReset
    <2>1. UNCHANGED <<session, written, delivered, pipe, faulty>>
          /\ (pc' = "spawning" => pc = "spawning")
      BY <1>2 DEF ClientStep, StartWithoutSidecar, SpawnFails, Spawn, AwaitReady, ReadyTimesOut,
         InterruptStart, CheckHealthRaises, Stop, Terminate, Wait, Kill, Join, JoinTimesOut,
         Report, BeginStop, DetectorInv, TypeOK
    <2> QED BY <2>1, UntouchedKept
  <1>3. ASSUME NEW r \in Sessions, ReaderStep(r) PROVE Untouched'
    <2>1. CASE ReaderStart(r) \/ Wake(r) \/ ReadEOF(r)
      BY <2>1, UntouchedKept DEF ReaderStart, Wake, ReadEOF
    <2>2. CASE ReadLine(r)
      <3>1. r = session /\ source[r] = r /\ pc # "spawning"
        BY <2>2, ActiveReader DEF ReadLine
      <3>2. \A s \in Sessions : s # r => pipe'[s] = pipe[s]
        BY <2>2, <3>1 DEF ReadLine, DetectorInv, TypeOK
      <3>3. session \in Nat /\ UNCHANGED <<session, pc, written, delivered, faulty>>
        BY <2>2, CoreBoundsAssumption DEF ReadLine, DetectorInv, TypeOK
      <3> QED BY <3>1, <3>2, <3>3 DEF Untouched, Sessions
    <2>3. CASE HandleLine(r)
      <3>1. r = session /\ source[r] = r /\ pc # "spawning" /\ session \in Nat
        BY <2>3, ActiveReader DEF HandleLine, DetectorInv, TypeOK
      <3>2. UNCHANGED <<session, pc, written, pipe, faulty>>
        BY <2>3 DEF HandleLine
      <3>3. CASE UNCHANGED delivered
        BY <3>2, <3>3, UntouchedKept
      <3>4. CASE HandleEvent(r)
        <4> DEFINE d == delivered[r] + (IF line[r] = "event" THEN 1 ELSE 0)
        <4>1. delivered \in [Sessions -> Nat] /\ d \in Nat
          BY DEF Untouched
        <4>2. delivered' = [delivered EXCEPT ![r] = d]
          BY <3>1, <3>4 DEF HandleEvent
        <4> HIDE DEF d
        <4>3. delivered' \in [Sessions -> Nat]
          BY <4>1, <4>2, UpdateTyped
        <4>4. \A s \in Sessions : s # r => delivered'[s] = delivered[s]
          BY <4>1, <4>2
        <4> QED BY <3>1, <3>2, <4>3, <4>4 DEF Untouched, Sessions
      <3> QED BY <2>3, <3>3, <3>4 DEF HandleLine, HandleReady, HandleLost, HandleBad
    <2> QED BY <1>3, <2>1, <2>2, <2>3 DEF ReaderStep
  <1>4. ASSUME NEW s \in Sessions, SidecarStep(s) PROVE Untouched'
    <2>1. /\ s <= session /\ ~ (pc = "spawning" /\ s = session)
          /\ session \in Nat /\ UNCHANGED <<session, pc, delivered>>
      BY <1>4, LiveSidecar DEF SidecarStep, Exit, Write, DetectorInv, TypeOK
    <2>2. CASE Exit(s)
      <3>1. \A x \in Sessions : x # s => faulty'[x] = faulty[x]
        BY <2>2 DEF Exit, DetectorInv, TypeOK
      <3>2. UNCHANGED <<written, pipe>>
        BY <2>2 DEF Exit
      <3> QED BY <2>1, <3>1, <3>2 DEF Untouched, Sessions
    <2>3. ASSUME NEW l \in Lines, Write(s, l) PROVE Untouched'
      <3>1. \A x \in Sessions : x # s =>
               faulty'[x] = faulty[x] /\ written'[x] = written[x] /\ pipe'[x] = pipe[x]
        BY <2>3 DEF Write, DetectorInv, TypeOK, Untouched
      <3>2. written' \in [Sessions -> Seq(Lines)]
        <4>1. written \in [Sessions -> Seq(Lines)] /\ Append(written[s], l) \in Seq(Lines)
          BY <2>3 DEF Untouched
        <4>2. written' = [written EXCEPT ![s] = Append(written[s], l)]
          BY <2>3 DEF Write
        <4> QED BY <4>1, <4>2, UpdateTyped
      <3> QED BY <2>1, <3>1, <3>2 DEF Untouched, Sessions
    <2> QED BY <1>4, <2>2, <2>3 DEF SidecarStep
  <1>5. CASE UNCHANGED vars
    BY <1>5, UntouchedKept DEF vars
  <1> QED BY <1>1, <1>2, <1>3, <1>4, <1>5 DEF Next

\* A step that moves no line of the current session keeps the balance
LEMMA BalanceKept ==
    ASSUME Balance, UNCHANGED <<session, loss_counts>>,
           session > 0 =>
               /\ written'[session] = written[session] /\ pipe'[session] = pipe[session]
               /\ delivered'[session] = delivered[session]
               /\ \/ reader[session] # "handling" /\ reader'[session] # "handling"
                  \/ reader'[session] = reader[session] /\ line'[session] = line[session]
    PROVE  Balance'
  BY DEF Balance, InHand

\* The balance holds initially, and every step keeps it
LEMMA BalanceInit == Init => Balance
  BY DEF Init, Balance

LEMMA BalanceStep ==
    ASSUME DetectorInv, Untouched, Balance, [Next]_vars
    PROVE  Balance'
  <1> USE DEF client, flags, world, threads
  <1>0. session \in Nat /\ (session > 0 => session \in Sessions)
    BY CoreBoundsAssumption DEF DetectorInv, TypeOK, Sessions
  <1>1. CASE StartReset
    <2>1. session' = session + 1 /\ session + 1 \in Sessions /\ session + 1 > session
          /\ UNCHANGED <<written, delivered, pipe, reader>> /\ loss_counts' = 0
      BY <1>0, <1>1, CoreBoundsAssumption DEF StartReset, Sessions
    <2>2. /\ written[session + 1] = <<>> /\ pipe[session + 1] = <<>> /\ delivered[session + 1] = 0
          /\ reader[session + 1] = "none"
      BY <2>1 DEF Untouched, DetectorInv, HeldProcess
    <2>3. Count("lost", <<>>) = 0 /\ Count("event", <<>>) = 0
      BY CountEmpty
    <2> QED BY <2>1, <2>2, <2>3 DEF Balance, InHand
  <1>2. CASE Spawn
    <2>1. session \in Sessions /\ reader[session] = "none"
      BY <1>2, CoreBoundsAssumption DEF Spawn, DetectorInv, HeldProcess, TypeOK, Sessions
    <2>2. reader'[session] = "starting"
          /\ UNCHANGED <<session, loss_counts, written, pipe, delivered, line>>
      BY <1>2, <2>1 DEF Spawn, DetectorInv, TypeOK
    <2> QED BY <2>1, <2>2, BalanceKept
  <1>3. CASE ClientStep /\ ~ StartReset /\ ~ Spawn
    <2>1. UNCHANGED <<session, loss_counts, written, pipe, delivered, reader, line>>
      BY <1>3 DEF ClientStep, StartWithoutSidecar, SpawnFails, AwaitReady, ReadyTimesOut,
         InterruptStart, CheckHealthRaises, Stop, Terminate, Wait, Kill, Join, JoinTimesOut,
         Report, BeginStop
    <2> QED BY <2>1, BalanceKept
  <1>4. ASSUME NEW r \in Sessions, ReaderStep(r) PROVE Balance'
    <2>1. r = session
      BY <1>4 DEF ReaderStep, ReaderStart, ReadLine, HandleLine, Wake, ReadEOF, DetectorInv,
         ReaderPlace
    <2>2. CASE ReaderStart(r) \/ Wake(r) \/ ReadEOF(r)
      <3>1. UNCHANGED <<session, loss_counts, written, pipe, delivered, line>>
        BY <2>2 DEF ReaderStart, Wake, ReadEOF
      <3>2. reader[r] # "handling" /\ reader'[r] # "handling"
        BY <2>2 DEF ReaderStart, Wake, ReadEOF, SetError, DetectorInv, TypeOK
      <3> QED BY <2>1, <3>1, <3>2, BalanceKept
    <2>3. CASE ReadLine(r)
      <3>1. source[r] = r /\ session > 0
        BY <2>3, ActiveReader DEF ReadLine
      <3>2. pipe[r] \in Seq(Lines) /\ pipe[r] # <<>>
        BY <2>3, <3>1 DEF ReadLine, DetectorInv, TypeOK
      <3>3. /\ pipe'[r] = Tail(pipe[r]) /\ line'[r] = Head(pipe[r])
            /\ reader[r] = "reading" /\ reader'[r] = "handling"
            /\ UNCHANGED <<session, loss_counts, written, delivered>>
        BY <2>3, <3>1 DEF ReadLine, DetectorInv, TypeOK
      <3>4. ASSUME NEW l PROVE /\ InHand(l) = 0
                               /\ InHand(l)' = IF Head(pipe[r]) = l THEN 1 ELSE 0
        BY <2>1, <3>3 DEF InHand
      <3>5. ASSUME NEW l PROVE /\ Count(l, Tail(pipe[r])) \in Int /\ Count(l, pipe[r]) \in Int
                               /\ Count(l, Tail(pipe[r])) + (IF Head(pipe[r]) = l THEN 1 ELSE 0)
                                    = Count(l, pipe[r])
        <4>1. Tail(pipe[r]) \in Seq(Lines)
          BY <3>2
        <4>2. Count(l, Tail(pipe[r])) \in Int /\ Count(l, pipe[r]) \in Int
          BY <3>2, <4>1, CountTyped
        <4>3. Count(l, Tail(pipe[r])) = Count(l, pipe[r]) - (IF Head(pipe[r]) = l THEN 1 ELSE 0)
          BY <3>2, CountTail
        <4> QED BY <4>2, <4>3
      <3>6. loss_counts \in Nat /\ delivered[r] \in Nat
        BY DEF DetectorInv, TypeOK, Untouched
      <3>7. Count("lost", written'[r]) = loss_counts' + InHand("lost")' + Count("lost", pipe'[r])
        <4>1. Count("lost", written[r]) = loss_counts + 0 + Count("lost", pipe[r])
          BY <2>1, <3>1, <3>4 DEF Balance
        <4> QED BY <3>3, <3>4, <3>5, <3>6, <4>1
      <3>8. Count("event", written'[r]) =
                delivered'[r] + InHand("event")' + Count("event", pipe'[r])
        <4>1. Count("event", written[r]) = delivered[r] + 0 + Count("event", pipe[r])
          BY <2>1, <3>1, <3>4 DEF Balance
        <4> QED BY <3>3, <3>4, <3>5, <3>6, <4>1
      <3> QED BY <2>1, <3>3, <3>7, <3>8 DEF Balance
    <2>4. CASE HandleLine(r)
      <3>1. source[r] = r /\ session > 0
        BY <2>4, ActiveReader DEF HandleLine
      <3>2. /\ reader[r] = "handling" /\ UNCHANGED <<session, written, pipe, line>>
        BY <2>4 DEF HandleLine
      <3>3. reader'[r] # "handling"
        BY <2>4 DEF HandleLine, HandleReady, HandleEvent, HandleLost, HandleBad, SetError,
           DetectorInv, TypeOK
      <3>4. ASSUME NEW l PROVE InHand(l) = (IF line[r] = l THEN 1 ELSE 0) /\ InHand(l)' = 0
        BY <2>1, <3>2, <3>3 DEF InHand
      <3>5. loss_counts \in Nat /\ delivered \in [Sessions -> Nat] /\ delivered[r] \in Nat
        BY DEF DetectorInv, TypeOK, Untouched
      <3>6. loss_counts' = loss_counts + IF line[r] = "lost" THEN 1 ELSE 0
        BY <2>4, <3>5 DEF HandleLine, HandleReady, HandleEvent, HandleLost, HandleBad
      <3>7. delivered'[r] = delivered[r] + IF line[r] = "event" THEN 1 ELSE 0
        BY <2>4, <3>1, <3>5 DEF HandleLine, HandleReady, HandleEvent, HandleLost, HandleBad
      <3>8. Count("lost", pipe[r]) \in Int /\ Count("event", pipe[r]) \in Int
        BY CountTyped DEF DetectorInv, TypeOK
      <3>9. Count("lost", written'[r]) = loss_counts' + InHand("lost")' + Count("lost", pipe'[r])
        <4>1. Count("lost", written[r]) = loss_counts + InHand("lost") + Count("lost", pipe[r])
          BY <2>1, <3>1 DEF Balance
        <4> QED BY <3>2, <3>4, <3>5, <3>6, <3>8, <4>1
      <3>10. Count("event", written'[r]) =
                delivered'[r] + InHand("event")' + Count("event", pipe'[r])
        <4>1. Count("event", written[r]) = delivered[r] + InHand("event") + Count("event", pipe[r])
          BY <2>1, <3>1 DEF Balance
        <4> QED BY <3>2, <3>4, <3>5, <3>7, <3>8, <4>1
      <3> QED BY <2>1, <3>2, <3>9, <3>10 DEF Balance
    <2> QED BY <1>4, <2>2, <2>3, <2>4 DEF ReaderStep
  <1>5. ASSUME NEW s \in Sessions, SidecarStep(s) PROVE Balance'
    <2>1. CASE Exit(s)
      BY <2>1, BalanceKept DEF Exit
    <2>2. ASSUME NEW l \in Lines, Write(s, l) PROVE Balance'
      <3>1. UNCHANGED <<session, loss_counts, delivered, reader, line>>
        BY <2>2 DEF Write
      <3>2. CASE s # session
        <4>1. session > 0 => written'[session] = written[session] /\ pipe'[session] = pipe[session]
          BY <1>0, <2>2, <3>2 DEF Write, DetectorInv, TypeOK, Untouched
        <4> QED BY <3>1, <4>1, BalanceKept
      <3>3. CASE s = session
        <4>1. session > 0
          BY <3>3, CoreBoundsAssumption DEF Sessions
        <4>2. pipe[s] \in Seq(Lines) /\ written[s] \in Seq(Lines)
          BY DEF DetectorInv, TypeOK, Untouched
        <4>3. pipe'[s] = Append(pipe[s], l) /\ written'[s] = Append(written[s], l)
          BY <2>2 DEF Write, DetectorInv, TypeOK, Untouched
        <4>4. ASSUME NEW x
              PROVE  /\ Count(x, pipe'[s]) = Count(x, pipe[s]) + (IF l = x THEN 1 ELSE 0)
                     /\ Count(x, written'[s]) = Count(x, written[s]) + (IF l = x THEN 1 ELSE 0)
                     /\ Count(x, pipe[s]) \in Int
                     /\ InHand(x)' = InHand(x) /\ InHand(x) \in Nat
          <5>1. /\ Count(x, pipe'[s]) = Count(x, pipe[s]) + (IF l = x THEN 1 ELSE 0)
                /\ Count(x, written'[s]) = Count(x, written[s]) + (IF l = x THEN 1 ELSE 0)
            BY <4>2, <4>3, CountAppend
          <5>2. Count(x, pipe[s]) \in Int
            BY <4>2, CountTyped
          <5>3. InHand(x)' = InHand(x) /\ InHand(x) \in Nat
            BY <3>1 DEF InHand
          <5> QED BY <5>1, <5>2, <5>3
        <4>5. loss_counts \in Nat /\ delivered[s] \in Nat
          BY DEF DetectorInv, TypeOK, Untouched
        <4>6. Count("lost", written'[s]) = loss_counts' + InHand("lost")' + Count("lost", pipe'[s])
          <5>1. Count("lost", written[s]) = loss_counts + InHand("lost") + Count("lost", pipe[s])
            BY <3>3, <4>1 DEF Balance
          <5> QED BY <3>1, <4>4, <4>5, <5>1
        <4>7. Count("event", written'[s]) =
                  delivered'[s] + InHand("event")' + Count("event", pipe'[s])
          <5>1. Count("event", written[s]) = delivered[s] + InHand("event") + Count("event", pipe[s])
            BY <3>3, <4>1 DEF Balance
          <5> QED BY <3>1, <4>4, <4>5, <5>1
        <4> QED BY <3>1, <3>3, <4>6, <4>7 DEF Balance
      <3> QED BY <3>2, <3>3
    <2> QED BY <1>5, <2>1, <2>2 DEF SidecarStep
  <1>6. CASE UNCHANGED vars
    BY <1>6, BalanceKept DEF vars
  <1> QED BY <1>1, <1>2, <1>3, <1>4, <1>5, <1>6 DEF Next

\* No thread is at work when the client reports
LEMMA QuietReport ==
    ASSUME DetectorInv, NEW r \in Sessions, reader[r] \notin {"none", "done"}
    PROVE  r = session /\ pc # "reported"
  <1>1. r = session /\ (r = process \/ pc \in {"terminating", "waiting", "joining"})
    BY DEF DetectorInv, ReaderPlace
  <1>2. r # 0
    BY CoreBoundsAssumption DEF Sessions
  <1> QED BY <1>1, <1>2 DEF DetectorInv, HeldProcess

\* A step that moves no thread keeps Drained, if it only ends sidecars
LEMMA DrainedKept ==
    ASSUME Drained, UNCHANGED <<reader, resume, handshaken, pipe, loss_counts>>,
           pc' = "reported" => \/ pc = "reported" /\ reported' = reported
                               \/ reported' = loss_counts,
           \A r \in Sessions : sidecar[r] = "exited" => sidecar'[r] = "exited"
    PROVE  Drained'
  BY DEF Drained

\* Drained holds initially, and every step keeps it
LEMMA DrainedInit == Init => Drained
  BY DEF Init, Drained

LEMMA DrainedStep ==
    ASSUME DetectorInv, Drained, [Next]_vars
    PROVE  Drained'
  <1> USE DEF client, flags, world, threads
  <1>1. CASE StartReset
    BY <1>1 DEF StartReset, Drained
  <1>2. CASE Spawn
    <2>1. session \in Sessions /\ reader[session] = "none" /\ sidecar[session] = "none"
      BY <1>2, CoreBoundsAssumption DEF Spawn, DetectorInv, HeldProcess, TypeOK, Sessions
    <2>2. /\ reader'[session] = "starting" /\ pc' # "reported"
          /\ \A r \in Sessions : r # session => reader'[r] = reader[r] /\ sidecar'[r] = sidecar[r]
          /\ UNCHANGED <<resume, handshaken, pipe>>
      BY <1>2, <2>1 DEF Spawn, DetectorInv, TypeOK
    <2> QED BY <2>1, <2>2 DEF Drained
  <1>3. CASE Kill
    <2>1. \A r \in Sessions : sidecar[r] = "exited" => sidecar'[r] = "exited"
      BY <1>3 DEF Kill, DetectorInv, TypeOK
    <2> QED BY <1>3, <2>1, DrainedKept DEF Kill
  <1>4. CASE ClientStep /\ ~ StartReset /\ ~ Spawn /\ ~ Kill
    <2>1. UNCHANGED <<reader, resume, handshaken, pipe, sidecar, loss_counts>>
          /\ (pc' = "reported" => \/ pc = "reported" /\ reported' = reported
                                  \/ reported' = loss_counts)
      BY <1>4 DEF ClientStep, StartWithoutSidecar, SpawnFails, AwaitReady, ReadyTimesOut,
         InterruptStart, CheckHealthRaises, Stop, Terminate, Wait, Join, JoinTimesOut,
         Report, BeginStop, DetectorInv, TypeOK
    <2> QED BY <2>1, DrainedKept
  <1>5. ASSUME NEW r \in Sessions, ReaderStep(r) PROVE Drained'
    <2>1. r = session /\ pc' = pc /\ pc # "reported"
      BY <1>5, QuietReport DEF ReaderStep, ReaderStart, ReadLine, HandleLine, Wake, ReadEOF
    <2>2. /\ \A q \in Sessions : q # r => reader'[q] = reader[q] /\ resume'[q] = resume[q]
          /\ UNCHANGED sidecar
      BY <1>5 DEF ReaderStep, ReaderStart, ReadLine, HandleLine, Wake, ReadEOF, SetError,
         HandleReady, HandleEvent, HandleLost, HandleBad, DetectorInv, TypeOK
    <2>3. CASE ReaderStart(r)
      BY <2>1, <2>2, <2>3 DEF ReaderStart, Drained
    <2>4. CASE ReadLine(r)
      <3>1. source[r] = r
        BY <2>4, ActiveReader DEF ReadLine
      <3>2. /\ \A q \in Sessions : q # r => pipe'[q] = pipe[q]
            /\ reader'[r] = "handling" /\ UNCHANGED handshaken
        BY <2>4, <3>1 DEF ReadLine, DetectorInv, TypeOK
      <3> QED BY <2>1, <2>2, <3>2 DEF Drained
    <2>5. CASE HandleLine(r)
      <3>1. source[r] = r
        BY <2>5, ActiveReader DEF HandleLine
      <3>2. /\ \A q \in Sessions : q # r => handshaken'[q] = handshaken[q]
            /\ reader'[r] = "reading" \/ (reader'[r] = "waking" /\ resume'[r] = "reading")
            /\ UNCHANGED pipe
        BY <2>5, <3>1 DEF HandleLine, HandleReady, HandleEvent, HandleLost, HandleBad, SetError,
           DetectorInv, TypeOK
      <3> QED BY <2>1, <2>2, <3>2 DEF Drained
    <2>6. CASE Wake(r)
      <3>1. /\ reader[r] = "waking" /\ reader'[r] = resume[r] /\ resume[r] \in {"reading", "done"}
            /\ UNCHANGED <<pipe, handshaken>>
        BY <2>6 DEF Wake, DetectorInv, TypeOK
      <3> QED BY <2>1, <2>2, <3>1 DEF Drained
    <2>7. CASE ReadEOF(r)
      <3>1. pipe[r] = <<>> /\ sidecar[r] = "exited"
        BY <2>7, ActiveReader DEF ReadEOF
      <3>2. /\ reader'[r] \in {"done", "waking"} /\ UNCHANGED <<pipe, handshaken>>
        BY <2>7 DEF ReadEOF, SetError, DetectorInv, TypeOK
      <3> QED BY <2>1, <2>2, <3>1, <3>2 DEF Drained
    <2> QED BY <1>5, <2>3, <2>4, <2>5, <2>6, <2>7 DEF ReaderStep
  <1>6. ASSUME NEW s \in Sessions, SidecarStep(s) PROVE Drained'
    <2>1. CASE Exit(s)
      <3>1. \A r \in Sessions : sidecar[r] = "exited" => sidecar'[r] = "exited"
        BY <2>1 DEF Exit, DetectorInv, TypeOK
      <3> QED BY <2>1, <3>1, DrainedKept DEF Exit
    <2>2. ASSUME NEW l \in Lines, Write(s, l) PROVE Drained'
      <3>1. /\ sidecar[s] = "alive" /\ \A q \in Sessions : q # s => pipe'[q] = pipe[q]
            /\ UNCHANGED <<pc, reported, loss_counts, sidecar, reader, resume, handshaken>>
        BY <2>2 DEF Write, DetectorInv, TypeOK
      <3> QED BY <3>1 DEF Drained
    <2> QED BY <1>6, <2>1, <2>2 DEF SidecarStep
  <1>7. CASE UNCHANGED vars
    BY <1>7, DrainedKept DEF vars
  <1> QED BY <1>1, <1>2, <1>3, <1>4, <1>5, <1>6, <1>7 DEF Next

\* The ledger of the lines is an invariant when join waits for the reader.
THEOREM LedgerInvariant ==
    ASSUME ~ JoinMayTimeOut PROVE Spec => []LedgerInv
  <1>1. Init => LedgerInv
    BY DetectorInit, UntouchedInit, BalanceInit, DrainedInit DEF LedgerInv
  <1>2. LedgerInv /\ [Next]_vars => LedgerInv'
    BY DetectorStep, UntouchedStep, BalanceStep, DrainedStep DEF LedgerInv
  <1> QED BY <1>1, <1>2, PTL DEF Spec

\* Every loss record and every event a sidecar wrote is in the summary of its
\* session, however many lines it wrote, when join waits for the reader.
THEOREM EveryLossIsReported ==
    ASSUME ~ JoinMayTimeOut PROVE Spec => []LossesReachSummary
  <1>1. LedgerInv => LossesReachSummary
    <2> SUFFICES ASSUME LedgerInv, pc = "reported", session > 0, handshaken[session]
                 PROVE  /\ reported = Count("lost", written[session])
                        /\ delivered[session] = Count("event", written[session])
      BY DEF LossesReachSummary
    <2>1. session \in Sessions
      BY CoreBoundsAssumption DEF LedgerInv, DetectorInv, TypeOK, Sessions
    <2>2. reader[session] \in {"none", "done"}
      BY <2>1, QuietReport DEF LedgerInv
    <2>3. reported = loss_counts /\ pipe[session] = <<>>
      BY <2>1, <2>2 DEF LedgerInv, Drained
    <2>4. InHand("lost") = 0 /\ InHand("event") = 0
      BY <2>2 DEF InHand
    <2>5. Count("lost", <<>>) = 0 /\ Count("event", <<>>) = 0
      BY CountEmpty
    <2>6. loss_counts \in Nat /\ delivered[session] \in Nat
      BY <2>1 DEF LedgerInv, DetectorInv, TypeOK, Untouched
    <2> QED BY <2>3, <2>4, <2>5, <2>6 DEF LedgerInv, Balance
  <1> QED BY <1>1, LedgerInvariant, PTL

-----------------------------------------------------------------------------
(* The Detector protocol.                                                     *)

\* The client's steps are steps of the protocol or leave it alone
LEMMA ClientContract ==
    ASSUME LedgerInv, ClientStep, ~ JoinMayTimeOut
    PROVE  [Contract!Next]_(Contract!vars)
  <1> USE DEF client, flags, world, threads
  <1>0. session \in Nat /\ (session > 0 => session \in Sessions)
    BY CoreBoundsAssumption DEF LedgerInv, DetectorInv, TypeOK, Sessions
  <1>1. CASE StartReset
    <2>1. Status = "off" /\ Status' = "starting"
      BY <1>1 DEF StartReset, Status, LedgerInv, DetectorInv, HeldProcess
    <2>2. session' = session + 1 /\ session + 1 \in Sessions /\ session + 1 > session
          /\ UNCHANGED <<delivered, faulty>> /\ loss_counts' = 0
      BY <1>0, <1>1, CoreBoundsAssumption DEF StartReset, Sessions
    <2>3. delivered[session + 1] = 0 /\ ~ faulty[session + 1]
      BY <2>2 DEF LedgerInv, Untouched
    <2>4. Delivered' = 0 /\ Failed' = FALSE
      BY <1>0, <2>2, <2>3 DEF Delivered, Failed
    <2>5. Contract!Start
      BY <2>1, <2>2, <2>4 DEF Contract!Start
    <2> QED BY <2>5 DEF Contract!Next
  <1> SUFFICES ASSUME ~ StartReset PROVE [Contract!Next]_(Contract!vars)
    BY <1>1
  <1>2. UNCHANGED <<session, delivered, loss_counts, faulty>>
    BY DEF ClientStep, StartWithoutSidecar, SpawnFails, Spawn, AwaitReady, ReadyTimesOut,
       InterruptStart, CheckHealthRaises, Stop, Terminate, Wait, Kill, Join, JoinTimesOut,
       Report, BeginStop
  <1>3. UNCHANGED <<Delivered, loss_counts, Failed>>
    BY <1>2 DEF Delivered, Failed
  <1>4. CASE StartWithoutSidecar \/ Spawn \/ Wait \/ Kill \/ Report
    <2>1. Status' = Status
      BY <1>4 DEF StartWithoutSidecar, Spawn, Wait, Kill, Report, Status, LedgerInv, DetectorInv,
         HeldProcess
    <2> QED BY <1>3, <2>1 DEF Contract!vars
  <1>5. CASE SpawnFails
    <2>1. Status = "starting" /\ Status' = "off"
      BY <1>5 DEF SpawnFails, Status, LedgerInv, DetectorInv, HeldProcess
    <2>2. Contract!StartReturns
      BY <1>3, <2>1 DEF Contract!StartReturns
    <2> QED BY <2>2 DEF Contract!Next
  <1>6. CASE AwaitReady /\ ~ startup_error
    <2>1. Status = "starting" /\ Status' = "on"
      BY <1>6 DEF AwaitReady, Status
    <2>2. Contract!StartReturns
      BY <1>3, <2>1 DEF Contract!StartReturns
    <2> QED BY <2>2 DEF Contract!Next
  <1>7. CASE (AwaitReady /\ startup_error) \/ ReadyTimesOut \/ InterruptStart \/ Stop
    <2>1. Status' = "stopping"
      BY <1>7 DEF AwaitReady, ReadyTimesOut, InterruptStart, Stop, BeginStop, Status
    <2>2. Contract!Stop
      BY <1>3, <2>1 DEF Contract!Stop
    <2> QED BY <2>2 DEF Contract!Next
  <1>8. CASE CheckHealthRaises
    <2>1. process = session /\ session > 0
      BY <1>8 DEF CheckHealthRaises, LedgerInv, DetectorInv, HeldProcess
    <2>2. Status = "on" /\ Status' = "condemned"
      BY <1>0, <1>8, <2>1 DEF CheckHealthRaises, Status
    <2>3. Failed
      BY <1>0, <1>8, <2>1 DEF CheckHealthRaises, Failed, LedgerInv, DetectorInv, Blame, StopIsSilent
    <2>4. Contract!CheckHealth
      BY <1>3, <2>2, <2>3 DEF Contract!CheckHealth
    <2> QED BY <2>4 DEF Contract!Next
  <1>9. CASE Terminate \/ Join
    <2>1. Status = "stopping" /\ process = 0 /\ after \in {"raised", "stopped"}
      BY <1>9 DEF Terminate, Join, Status, LedgerInv, DetectorInv, HeldProcess, TypeOK
    <2>2. process' = process /\ (pc' = "waiting" \/ pc' = after)
      BY <1>9 DEF Terminate, Join
    <2>3. CASE pc' = "waiting"
      BY <1>3, <2>1, <2>3 DEF Contract!vars, Status
    <2>4. CASE pc' = after
      <3>1. Status' = "off"
        BY <2>1, <2>2, <2>4 DEF Status
      <3>2. Contract!StopReturns
        BY <1>3, <2>1, <3>1 DEF Contract!StopReturns
      <3> QED BY <3>2 DEF Contract!Next
    <2> QED BY <2>2, <2>3, <2>4
  <1>10. ~ JoinTimesOut
    BY DEF JoinTimesOut
  <1> QED BY <1>4, <1>5, <1>6, <1>7, <1>8, <1>9, <1>10 DEF ClientStep

\* So are the steps of the reader thread
LEMMA ReaderContract ==
    ASSUME LedgerInv, NEW r \in Sessions, ReaderStep(r)
    PROVE  [Contract!Next]_(Contract!vars)
  <1> USE DEF client, flags, world, threads
  <1>1. reader[r] \notin {"none", "done"}
    BY DEF ReaderStep, ReaderStart, ReadLine, HandleLine, Wake, ReadEOF
  <1>2. r = session /\ (r = process \/ pc \in {"terminating", "waiting", "joining"})
    BY <1>1 DEF LedgerInv, DetectorInv, ReaderPlace
  <1>3. session > 0 /\ session \in Nat
    BY <1>2, CoreBoundsAssumption DEF Sessions
  <1>4. Status # "off"
    BY <1>2, <1>3 DEF Status
  <1>5. UNCHANGED <<pc, process, session, faulty>>
    BY DEF ReaderStep, ReaderStart, ReadLine, HandleLine, Wake, ReadEOF
  <1>6. UNCHANGED <<Status, Failed>>
    BY <1>5 DEF Status, Failed
  <1>7. CASE ReaderStart(r) \/ ReadLine(r) \/ Wake(r) \/ ReadEOF(r)
    <2>1. UNCHANGED <<Delivered, loss_counts>>
      BY <1>7 DEF ReaderStart, ReadLine, Wake, ReadEOF, Delivered
    <2> QED BY <1>6, <2>1 DEF Contract!vars
  <1>8. CASE HandleLine(r)
    <2>1. source[r] = r
      BY <1>8, ActiveReader DEF HandleLine, LedgerInv
    <2>2. delivered \in [Sessions -> Nat] /\ loss_counts \in Nat
      BY DEF LedgerInv, Untouched, DetectorInv, TypeOK
    <2>3. CASE line[r] = "event"
      <3>1. delivered'[r] = delivered[r] + 1 /\ loss_counts' = loss_counts
        BY <1>8, <2>1, <2>2, <2>3
           DEF HandleLine, HandleReady, HandleEvent, HandleLost, HandleBad
      <3>2. Delivered' = Delivered + 1
        BY <1>2, <1>3, <1>5, <3>1 DEF Delivered
      <3>3. Contract!Deliver
        BY <1>4, <1>6, <3>1, <3>2 DEF Contract!Deliver
      <3> QED BY <3>3 DEF Contract!Next
    <2>4. CASE line[r] # "event"
      <3>1. delivered'[r] = delivered[r]
        BY <1>8, <2>1, <2>2, <2>4
           DEF HandleLine, HandleReady, HandleEvent, HandleLost, HandleBad
      <3>2. Delivered' = Delivered
        BY <1>2, <1>3, <1>5, <3>1 DEF Delivered
      <3>3. loss_counts' = loss_counts \/ loss_counts' = loss_counts + 1
        BY <1>8 DEF HandleLine, HandleReady, HandleEvent, HandleLost, HandleBad
      <3>4. CASE loss_counts' = loss_counts
        BY <1>6, <3>2, <3>4 DEF Contract!vars
      <3>5. CASE loss_counts' = loss_counts + 1
        <4>1. loss_counts' \in Nat /\ loss_counts' > loss_counts
          BY <2>2, <3>5
        <4>2. Contract!Lose
          BY <1>4, <1>6, <3>2, <4>1 DEF Contract!Lose
        <4> QED BY <4>2 DEF Contract!Next
      <3> QED BY <3>3, <3>4, <3>5
    <2> QED BY <2>3, <2>4
  <1> QED BY <1>7, <1>8 DEF ReaderStep

\* And those of a sidecar
LEMMA SidecarContract ==
    ASSUME LedgerInv, NEW s \in Sessions, SidecarStep(s)
    PROVE  [Contract!Next]_(Contract!vars)
  <1> USE DEF client, flags, world, threads
  <1>1. sidecar[s] = "alive" /\ UNCHANGED <<pc, process, session, delivered, loss_counts>>
    BY DEF SidecarStep, Exit, Write
  <1>2. UNCHANGED <<Status, Delivered, loss_counts>>
    BY <1>1 DEF Status, Delivered
  <1>3. \A x \in Sessions : x # s => faulty'[x] = faulty[x]
    BY DEF SidecarStep, Exit, Write, LedgerInv, DetectorInv, TypeOK
  <1>4. faulty'[s] \in BOOLEAN /\ (faulty[s] => faulty'[s])
    BY DEF SidecarStep, Exit, Write, LedgerInv, DetectorInv, TypeOK
  <1>5. session \in Nat /\ (session > 0 => session \in Sessions)
    BY CoreBoundsAssumption DEF LedgerInv, DetectorInv, TypeOK, Sessions
  <1>6. faulty[s] \in BOOLEAN
    BY DEF LedgerInv, DetectorInv, TypeOK
  <1>7. CASE s # session \/ faulty'[s] = faulty[s]
    <2>1. UNCHANGED Failed
      BY <1>1, <1>3, <1>5, <1>7 DEF Failed
    <2> QED BY <1>2, <2>1 DEF Contract!vars
  <1>8. CASE s = session /\ faulty'[s] # faulty[s]
    <2>1. session > 0 /\ faulty'[s] = TRUE
      BY <1>4, <1>6, <1>8, CoreBoundsAssumption DEF Sessions
    <2>2. Failed' = TRUE
      BY <1>1, <1>8, <2>1 DEF Failed
    <2>3. Status # "off"
      <3>1. process = s \/ pc \in {"terminating", "waiting"}
        BY <1>1 DEF LedgerInv, DetectorInv, NoSidecarLeak
      <3> QED BY <1>8, <2>1, <3>1 DEF Status
    <2>4. Contract!Fail
      BY <1>2, <2>2, <2>3 DEF Contract!Fail
    <2> QED BY <2>4 DEF Contract!Next
  <1> QED BY <1>7, <1>8

\* CoreDetector implements the Detector protocol the session is written
\* against, when join waits for the reader.
THEOREM CoreImplementsDetector ==
    ASSUME ~ JoinMayTimeOut PROVE Spec => ImplementsDetector
  <1>1. Init => Contract!Init
    BY DEF Init, Contract!Init, Status, Delivered, Failed
  <1>2. LedgerInv /\ [Next]_vars => [Contract!Next]_(Contract!vars)
    <2> SUFFICES ASSUME LedgerInv, [Next]_vars PROVE [Contract!Next]_(Contract!vars)
      OBVIOUS
    <2>1. CASE UNCHANGED vars
      BY <2>1 DEF vars, client, flags, world, threads, Contract!vars, Status, Delivered, Failed
    <2> QED BY <2>1, ClientContract, ReaderContract, SidecarContract DEF Next
  <1> QED BY <1>1, <1>2, LedgerInvariant, PTL DEF Spec, ImplementsDetector, Contract!Spec
=============================================================================
