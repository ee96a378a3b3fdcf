------------------------- MODULE BccDetector_proofs -------------------------
(* For any number of starts and records: the polling thread of BccDetector    *)
(* never outlives its BPF object, wherever a signal interrupts start; the     *)
(* loss counters are those of one run; the Detector protocol is implemented.  *)
EXTENDS BccDetector, Accumulation_proofs

\* The initial state satisfies the invariant
LEMMA BccInit == Init => BccInv
  <1> SUFFICES ASSUME Init PROVE BccInv
    OBVIOUS
  <1> USE DEF Init, Starting, Stopping
  <1>1. Sample \in Records
    BY DEF Records
  <1>2. perf \in Seq(Records) /\ record \in Records
    BY <1>1
  <1>3. TypeOK
    <2>1. {handler, stop_event, bpf, poll_error, failed} \subseteq BOOLEAN
      BY Zenon
    <2>2. starts \in 0 .. MaxStarts /\ loss_counts \in Nat /\ delivered \in Nat
      BY BccAssumption
    <2> QED
      BY <1>2, <2>1, <2>2 DEF TypeOK
  <1>4. Places /\ Blame
    BY DEF Places, Blame
  <1>5. PollerHasBpf /\ ReleasedAtRest
    BY DEF PollerHasBpf, ReleasedAtRest
  <1> QED
    BY <1>3, <1>4, <1>5 DEF BccInv

\* Every step keeps the invariant
LEMMA BccStep == BccInv /\ [Next]_vars => BccInv'
  <1> SUFFICES ASSUME BccInv, [Next]_vars PROVE BccInv'
    OBVIOUS
  <1> USE BccAssumption DEF BccInv, TypeOK, Places, Blame, PollerHasBpf, ReleasedAtRest, Starting, Stopping,
       client, fields, polling, ghosts
  <1>0. <<>> \in Seq(Records)
    OBVIOUS
  <1>1. CASE Start
    <2>1. {handler', stop_event', bpf', poll_error', failed'} \subseteq BOOLEAN
      BY <1>1, Zenon DEF Start
    <2>2. TypeOK'
      BY <1>1, <2>1 DEF Start
    <2>3. Places' /\ PollerHasBpf' /\ ReleasedAtRest'
      BY <1>1 DEF Start
    <2>4. Blame'
      BY <1>1 DEF Start
    <2> QED BY <2>2, <2>3, <2>4
  <1>2. CASE OpenBpf BY <1>2 DEF OpenBpf
  <1>3. CASE CreateThread BY <1>3 DEF CreateThread
  <1>4. CASE LaunchThread BY <1>4 DEF LaunchThread
  <1>5. CASE StartReturns BY <1>5 DEF StartReturns
  <1>6. CASE StartRaises BY <1>0, <1>6 DEF StartRaises, Unwind
  <1>7. CASE CheckHealth BY <1>7 DEF CheckHealth
  <1>8. CASE Stop BY <1>8 DEF Stop
  <1>9. CASE StopReturns BY <1>0, <1>9 DEF StopReturns, Unwind
  <1>10. CASE StopRaises BY <1>0, <1>10 DEF StopRaises, Unwind
  <1>11. CASE PollerRuns BY <1>11 DEF PollerRuns
  <1>12. CASE CheckStop BY <1>12 DEF CheckStop
  <1>13. CASE TakeRecord BY <1>13 DEF TakeRecord
  <1>14. CASE HandleRecord BY <1>14 DEF HandleRecord, Records, Sample, Lost
  <1>15. CASE PollReturns BY <1>15 DEF PollReturns
  <1>16. CASE PollRaises BY <1>16 DEF PollRaises
  <1>17. CASE RecordError BY <1>17 DEF RecordError
  <1>18. CASE KernelWrites BY <1>18 DEF KernelWrites
  <1>19. CASE UNCHANGED vars BY <1>19 DEF vars
  <1> QED BY <1>1, <1>2, <1>3, <1>4, <1>5, <1>6, <1>7, <1>8, <1>9, <1>10, <1>11, <1>12, <1>13,
             <1>14, <1>15, <1>16, <1>17, <1>18, <1>19 DEF Next, StartStep, PollerStep

\* BccInv is an invariant of the detector, for any number of starts and records.
THEOREM BccInvariant == Spec => []BccInv
  BY BccInit, BccStep, PTL DEF Spec

\* The polling thread never uses a BPF object that stop or a failing start has
\* cleared.
THEOREM PollerKeepsBpf == Spec => []PollerHasBpf
  <1>1. BccInv => PollerHasBpf
    BY DEF BccInv
  <1> QED BY <1>1, BccInvariant, PTL

\* A detector at rest holds no BPF object and no thread, and a poller that is
\* left has been told to stop.
THEOREM RestHoldsNothing == Spec => []ReleasedAtRest
  <1>1. BccInv => ReleasedAtRest
    BY DEF BccInv
  <1> QED BY <1>1, BccInvariant, PTL

-----------------------------------------------------------------------------
(* The records and the losses of a run.                                       *)

\* Records are well-formed
LEMMA RecordTypes ==
    ASSUME NEW r \in Records
    PROVE  r.lost \in BOOLEAN /\ r.count \in Nat
  <1>1. CASE r = Sample
    BY <1>1 DEF Sample
  <1>2. CASE \E n \in LostCounts : r = Lost(n)
    BY <1>2, BccAssumption DEF Lost
  <1> QED BY <1>1, <1>2 DEF Records

\* One more handled record adds its count
LEMMA CountsAppend ==
    ASSUME NEW s \in Seq(Records), NEW r \in Records
    PROVE  Total(Counts(Append(s, r))) = Total(Counts(s)) + (IF r.lost THEN r.count ELSE 0)
  <1> DEFINE t == Append(s, r)
  <1>1. t \in Seq(Records) /\ Len(t) = Len(s) + 1 /\ t[Len(s) + 1] = r
        /\ \A i \in 1 .. Len(s) : t[i] = s[i]
    OBVIOUS
  <1> HIDE DEF t
  <1>2. ASSUME NEW q \in Seq(Records)
        PROVE  /\ Counts(q) \in Seq(Int) /\ Len(Counts(q)) = Len(q)
               /\ \A i \in 1 .. Len(q) : Counts(q)[i] = IF q[i].lost THEN q[i].count ELSE 0
    <2>1. \A i \in 1 .. Len(q) : (IF q[i].lost THEN q[i].count ELSE 0) \in Int
      BY RecordTypes
    <2>2. Len(q) \in Nat
      OBVIOUS
    <2> QED BY <2>1, <2>2 DEF Counts
  <1>3. Counts(s) \in Seq(Int) /\ Len(Counts(s)) = Len(s)
        /\ \A i \in 1 .. Len(s) : Counts(s)[i] = IF s[i].lost THEN s[i].count ELSE 0
    BY <1>2
  <1>4. Counts(t) \in Seq(Int) /\ Len(Counts(t)) = Len(s) + 1
        /\ \A i \in 1 .. Len(s) + 1 : Counts(t)[i] = IF t[i].lost THEN t[i].count ELSE 0
    <2>1. Counts(t) \in Seq(Int) /\ Len(Counts(t)) = Len(t)
          /\ \A i \in 1 .. Len(t) : Counts(t)[i] = IF t[i].lost THEN t[i].count ELSE 0
      BY <1>1, <1>2
    <2> QED BY <1>1, <2>1
  <1>5. Len(s) \in Nat
    OBVIOUS
  <1>6. ASSUME NEW i \in 1 .. Len(s) PROVE Counts(t)[i] = Counts(s)[i]
    <2>1. t[i] = s[i] /\ i \in 1 .. Len(s) + 1
      BY <1>1, <1>5
    <2>2. Counts(t)[i] = IF s[i].lost THEN s[i].count ELSE 0
      BY <1>4, <2>1
    <2>3. Counts(s)[i] = IF s[i].lost THEN s[i].count ELSE 0
      BY <1>3
    <2> QED BY <2>2, <2>3
  <1>7. Counts(t)[Len(s) + 1] = IF r.lost THEN r.count ELSE 0
    BY <1>1, <1>4, <1>5
  <1>8. Total(Counts(t)) = Total(Counts(s)) + Counts(t)[Len(s) + 1]
    BY <1>3, <1>4, <1>6, TotalLonger
  <1> QED BY <1>7, <1>8 DEF t

\* Flow and the losses hold initially
LEMMA FlowInit == Init => Flow /\ LossesAreThisRuns
  <1> SUFFICES ASSUME Init PROVE Flow /\ LossesAreThisRuns
    OBVIOUS
  <1>1. Flow
    BY DEF Init, Flow
  <1>2. Counts(<<>>) = <<>>
    BY DEF Counts
  <1>3. LossesAreThisRuns
    BY <1>2, TotalEmpty DEF Init, LossesAreThisRuns
  <1> QED BY <1>1, <1>3

\* An action that leaves the records alone, and the buffer unless it drops it
LEMMA FlowKept ==
    ASSUME BccInv, Flow, UNCHANGED <<written, handled, record>>,
           pc' = "compiling" => pc = "compiling",
           bpf' => bpf /\ UNCHANGED perf /\ (poller' = "handling" <=> poller = "handling")
    PROVE  Flow'
  BY DEF Flow, InHand

\* Every step keeps the records in their order
LEMMA FlowStep == BccInv /\ Flow /\ [Next]_vars => Flow'
  <1> SUFFICES ASSUME BccInv, Flow, [Next]_vars PROVE Flow'
    OBVIOUS
  <1> USE DEF client, fields, polling, ghosts, Starting
  <1>1. CASE Start
    BY <1>1 DEF Start, Flow, BccInv, Places
  <1>2. CASE OpenBpf
    <2>1. written = <<>> /\ handled \in Seq(Records) /\ Len(handled) <= 0 /\ poller # "handling"
      BY <1>2 DEF OpenBpf, Flow, BccInv, PollerHasBpf, Places
    <2> QED BY <1>2, <2>1 DEF OpenBpf, Flow, InHand
  <1>3. CASE CreateThread
    BY <1>3, FlowKept DEF CreateThread
  <1>4. CASE LaunchThread
    <2>1. poller # "handling"
      BY <1>4 DEF LaunchThread, BccInv, Places
    <2> QED BY <1>4, <2>1, FlowKept DEF LaunchThread
  <1>5. CASE StartReturns
    BY <1>5, FlowKept DEF StartReturns
  <1>6. CASE StartRaises
    BY <1>6, FlowKept DEF StartRaises, Unwind
  <1>7. CASE CheckHealth
    BY <1>7, FlowKept DEF CheckHealth
  <1>8. CASE Stop
    BY <1>8, FlowKept DEF Stop
  <1>9. CASE StopReturns
    BY <1>9, FlowKept DEF StopReturns, Unwind
  <1>10. CASE StopRaises
    BY <1>10, FlowKept DEF StopRaises, Unwind
  <1>11. CASE PollerRuns
    BY <1>11, FlowKept DEF PollerRuns
  <1>12. CASE CheckStop
    BY <1>12, FlowKept DEF CheckStop
  <1>13. CASE TakeRecord
    <2>1. bpf /\ perf \in Seq(Records) /\ perf # <<>>
      BY <1>13 DEF TakeRecord, BccInv, TypeOK, PollerHasBpf
    <2>2. /\ record' = perf[1] /\ Len(perf') = Len(perf) - 1
          /\ \A i \in 1 .. Len(perf') : perf'[i] = perf[i + 1]
      BY <1>13, <2>1 DEF TakeRecord
    <2>3. InHand = 0 /\ InHand' = 1
      BY <1>13 DEF TakeRecord, InHand
    <2>4. UNCHANGED <<written, handled, pc, bpf>>
      BY <1>13 DEF TakeRecord
    <2>5. /\ Len(written) = Len(handled) + Len(perf)
          /\ \A i \in 1 .. Len(perf) : perf[i] = written[Len(handled) + i]
          /\ Len(handled) \in Nat /\ Len(perf) \in Nat /\ Len(perf) > 0
      BY <2>1, <2>3 DEF Flow
    <2>6. Len(written') = Len(handled') + InHand' + Len(perf')
      BY <2>2, <2>3, <2>4, <2>5
    <2>7. record' = written'[Len(handled') + 1]
      BY <2>2, <2>4, <2>5
    <2>8. ASSUME NEW i \in 1 .. Len(perf') PROVE perf'[i] = written'[Len(handled') + InHand' + i]
      <3>1. i + 1 \in 1 .. Len(perf) /\ Len(handled') + InHand' + i = Len(handled) + (i + 1)
        BY <2>2, <2>3, <2>4, <2>5
      <3>2. perf'[i] = perf[i + 1] /\ perf[i + 1] = written[Len(handled) + (i + 1)]
        BY <2>2, <2>5, <3>1
      <3> QED BY <2>4, <3>1, <3>2
    <2> QED BY <2>4, <2>6, <2>7, <2>8 DEF Flow
  <1>14. CASE HandleRecord
    <2>1. bpf /\ record \in Records
      BY <1>14 DEF HandleRecord, BccInv, TypeOK, PollerHasBpf
    <2>2. InHand = 1 /\ InHand' = 0
      BY <1>14 DEF HandleRecord, InHand
    <2>3. /\ handled' \in Seq(Records) /\ Len(handled') = Len(handled) + 1
          /\ handled'[Len(handled) + 1] = record
          /\ \A i \in 1 .. Len(handled) : handled'[i] = handled[i]
      BY <1>14, <2>1 DEF HandleRecord, Flow
    <2> QED BY <1>14, <2>1, <2>2, <2>3 DEF HandleRecord, Flow, BccInv, TypeOK
  <1>15. CASE PollReturns
    BY <1>15, FlowKept DEF PollReturns
  <1>16. CASE PollRaises
    BY <1>16, FlowKept DEF PollRaises
  <1>17. CASE RecordError
    BY <1>17, FlowKept DEF RecordError
  <1>18. CASE KernelWrites
    <2>1. PICK r \in Records : perf' = Append(perf, r) /\ written' = Append(written, r)
      BY <1>18 DEF KernelWrites
    <2>2. /\ perf \in Seq(Records) /\ written \in Seq(Records) /\ handled \in Seq(Records)
      BY DEF Flow, BccInv, TypeOK
    <2>3. /\ Len(perf') = Len(perf) + 1 /\ perf'[Len(perf) + 1] = r
          /\ \A i \in 1 .. Len(perf) : perf'[i] = perf[i]
      BY <2>1, <2>2
    <2>4. /\ written' \in Seq(Records) /\ Len(written') = Len(written) + 1
          /\ written'[Len(written) + 1] = r
          /\ \A i \in 1 .. Len(written) : written'[i] = written[i]
      BY <2>1, <2>2
    <2>5. bpf /\ pc # "compiling" /\ UNCHANGED <<pc, bpf, poller, record, handled>>
      BY <1>18 DEF KernelWrites, BccInv, Places
    <2>6. InHand \in {0, 1} /\ InHand' = InHand /\ (poller = "handling" => InHand = 1)
      BY <2>5 DEF InHand
    <2> HIDE DEF InHand
    <2>7. /\ Len(written) = Len(handled) + InHand + Len(perf) /\ Len(handled) <= Len(written)
          /\ Len(handled) \in Nat /\ Len(perf) \in Nat
      BY <2>2, <2>5 DEF Flow
    <2>8. \A i \in 1 .. Len(handled') : handled'[i] = written'[i]
      BY <2>4, <2>5, <2>7 DEF Flow
    <2>9. poller' = "handling" => record' = written'[Len(handled') + 1]
      <3> SUFFICES ASSUME poller = "handling" PROVE record = written'[Len(handled) + 1]
        BY <2>5
      <3>1. record = written[Len(handled) + 1] /\ Len(handled) + 1 \in 1 .. Len(written)
        BY <2>5, <2>6, <2>7 DEF Flow
      <3> QED BY <2>4, <3>1
    <2>10. ASSUME NEW i \in 1 .. Len(perf') PROVE perf'[i] = written'[Len(handled') + InHand' + i]
      <3>1. CASE i = Len(perf) + 1
        BY <2>3, <2>4, <2>5, <2>6, <2>7, <3>1
      <3>2. CASE i \in 1 .. Len(perf)
        <4>1. perf[i] = written[Len(handled) + InHand + i]
          BY <2>5, <3>2 DEF Flow
        <4>2. Len(handled) + InHand + i \in 1 .. Len(written)
          BY <2>6, <2>7, <3>2
        <4> QED BY <2>3, <2>4, <2>5, <2>6, <3>2, <4>1, <4>2
      <3> QED BY <2>3, <2>7, <3>1, <3>2
    <2> QED BY <2>2, <2>3, <2>4, <2>5, <2>6, <2>7, <2>8, <2>9, <2>10 DEF Flow
  <1>19. CASE UNCHANGED vars
    BY <1>19, FlowKept DEF vars
  <1> QED BY <1>1, <1>2, <1>3, <1>4, <1>5, <1>6, <1>7, <1>8, <1>9, <1>10, <1>11, <1>12, <1>13,
             <1>14, <1>15, <1>16, <1>17, <1>18, <1>19 DEF Next, StartStep, PollerStep

\* A handled record is counted once, and start begins at zero
LEMMA LossStep ==
    ASSUME BccInv, Flow, Flow', [Next]_vars, loss_counts = Total(Counts(handled))
    PROVE  loss_counts' = Total(Counts(handled'))
  <1> USE DEF client, fields, polling, ghosts
  <1>1. CASE Start
    <2>1. handled' = <<>> /\ loss_counts' = 0
      BY <1>1 DEF Start
    <2>2. Counts(<<>>) = <<>>
      BY DEF Counts
    <2> QED BY <2>1, <2>2, TotalEmpty
  <1>2. CASE HandleRecord
    <2>1. handled \in Seq(Records) /\ record \in Records /\ loss_counts \in Nat
      BY DEF Flow, BccInv, TypeOK
    <2>2. handled' = Append(handled, record)
          /\ loss_counts' = loss_counts + (IF record.lost THEN record.count ELSE 0)
      BY <1>2, <2>1 DEF HandleRecord
    <2> QED BY <2>1, <2>2, CountsAppend
  <1>3. CASE UNCHANGED <<handled, loss_counts>>
    BY <1>3
  <1>4. Start \/ HandleRecord \/ UNCHANGED <<handled, loss_counts>>
    BY DEF vars, Next, StartStep, PollerStep, OpenBpf, CreateThread, LaunchThread, StartReturns,
           StartRaises, CheckHealth, Stop, StopReturns, StopRaises, PollerRuns, CheckStop,
           TakeRecord, PollReturns, PollRaises, RecordError, KernelWrites
  <1> QED BY <1>1, <1>2, <1>3, <1>4

\* A sequence that agrees with the beginning of another one is a prefix of it
LEMMA AgreeingPrefix ==
    ASSUME NEW s \in Seq(Records), NEW h \in Seq(Records), Len(h) <= Len(s),
           \A i \in 1 .. Len(h) : h[i] = s[i]
    PROVE  h = SubSeq(s, 1, Len(h))
  <1>1. SubSeq(s, 1, Len(h)) = [i \in 1 .. Len(h) |-> s[i]]
    OBVIOUS
  <1>2. h = [i \in 1 .. Len(h) |-> h[i]]
    OBVIOUS
  <1> QED BY <1>1, <1>2

\* The detector's losses are those of the records of its present run, for any
\* number of starts and records.
THEOREM LossesOfThisRun == Spec => []LossesAreThisRuns
  <1>1. Init => LossInv
    BY BccInit, FlowInit DEF LossInv
  <1>2. LossInv /\ [Next]_vars => LossInv'
    <2> SUFFICES ASSUME LossInv, [Next]_vars PROVE LossInv'
      OBVIOUS
    <2>1. BccInv' /\ Flow'
      BY BccStep, FlowStep DEF LossInv
    <2>2. loss_counts' = Total(Counts(handled'))
      BY <2>1, LossStep DEF LossInv, LossesAreThisRuns
    <2>3. handled' = SubSeq(written', 1, Len(handled'))
      BY <2>1, AgreeingPrefix DEF Flow
    <2> QED BY <2>1, <2>2, <2>3 DEF LossInv, LossesAreThisRuns
  <1>3. LossInv => LossesAreThisRuns
    BY DEF LossInv
  <1> QED BY <1>1, <1>2, <1>3, PTL DEF Spec

-----------------------------------------------------------------------------
(* The Detector protocol.                                                     *)

\* Every step of the detector is a step of the protocol or leaves it alone
LEMMA ContractStep ==
    ASSUME BccInv, [Next]_vars
    PROVE  [Contract!Next]_(Contract!vars)
  <1> USE DEF client, fields, polling, ghosts
  <1>1. CASE Start
    <2>1. Status = "off" /\ Status' = "starting"
      BY <1>1 DEF Start, Status, Stopping, Starting, BccInv, TypeOK
    <2>2. Contract!Start
      BY <1>1, <2>1 DEF Start, Contract!Start
    <2> QED BY <2>2 DEF Contract!Next
  <1>2. CASE OpenBpf \/ CreateThread \/ LaunchThread
    <2>1. Status' = Status
      BY <1>2 DEF OpenBpf, CreateThread, LaunchThread, Status, Stopping, Starting
    <2>2. UNCHANGED Contract!vars
      BY <1>2, <2>1 DEF OpenBpf, CreateThread, LaunchThread, Contract!vars
    <2> QED BY <2>2
  <1>3. CASE StartReturns
    <2>1. Status = "starting" /\ Status' = "on"
      BY <1>3 DEF StartReturns, Status, Stopping, Starting
    <2>2. Contract!StartReturns
      BY <1>3, <2>1 DEF StartReturns, Contract!StartReturns
    <2> QED BY <2>2 DEF Contract!Next
  <1>4. CASE StartRaises
    <2>1. Status = "starting" /\ Status' = "off"
      BY <1>4 DEF StartRaises, Unwind, Status, Stopping, Starting
    <2>2. Contract!StartReturns
      BY <1>4, <2>1 DEF StartRaises, Contract!StartReturns
    <2> QED BY <2>2 DEF Contract!Next
  <1>5. CASE CheckHealth
    <2>1. Status = "on" /\ Status' = "condemned"
      BY <1>5 DEF CheckHealth, Status, Stopping, Starting, BccInv, TypeOK
    <2>2. failed
      BY <1>5 DEF CheckHealth, BccInv, Blame, Places
    <2>3. Contract!CheckHealth
      BY <1>5, <2>1, <2>2 DEF CheckHealth, Contract!CheckHealth
    <2> QED BY <2>3 DEF Contract!Next
  <1>6. CASE Stop
    <2>1. Status' = "stopping"
      BY <1>6 DEF Stop, Status, Stopping
    <2>2. Contract!Stop
      BY <1>6, <2>1 DEF Stop, Contract!Stop
    <2> QED BY <2>2 DEF Contract!Next
  <1>7. CASE StopReturns \/ StopRaises
    <2>1. Status = "stopping"
      BY <1>7 DEF StopReturns, StopRaises, Status, Stopping
    <2>2. Status' = "off"
      BY <1>7 DEF StopReturns, StopRaises, Unwind, Status, Stopping, Starting
    <2>3. Contract!StopReturns
      BY <1>7, <2>1, <2>2 DEF StopReturns, StopRaises, Contract!StopReturns
    <2> QED BY <2>3 DEF Contract!Next
  <1>8. CASE HandleRecord
    <2>1. Status # "off" /\ Status' = Status
      BY <1>8 DEF HandleRecord, Status, Stopping, Starting, BccInv, Places
    <2>2. CASE ~ record.lost
      <3>1. Contract!Deliver
        BY <1>8, <2>1, <2>2 DEF HandleRecord, Contract!Deliver
      <3> QED BY <3>1 DEF Contract!Next
    <2>3. CASE record.lost
      <3>1. record.count \in Nat /\ loss_counts \in Nat
        BY RecordTypes DEF BccInv, TypeOK
      <3>2. loss_counts' = loss_counts + record.count /\ UNCHANGED <<delivered, failed>>
        BY <1>8, <2>3 DEF HandleRecord
      <3>3. CASE record.count = 0
        BY <2>1, <3>1, <3>2, <3>3 DEF Contract!vars
      <3>4. CASE record.count # 0
        <4>1. loss_counts' \in Nat /\ loss_counts' > loss_counts
          BY <3>1, <3>2, <3>4
        <4>2. Contract!Lose
          BY <2>1, <3>2, <4>1 DEF Contract!Lose
        <4> QED BY <4>2 DEF Contract!Next
      <3> QED BY <3>3, <3>4
    <2> QED BY <2>2, <2>3
  <1>9. CASE PollRaises
    <2>1. Status # "off" /\ Status' = Status
      BY <1>9 DEF PollRaises, Status, Stopping, Starting, BccInv, Places
    <2>2. CASE stop_event
      <3>1. failed' = failed /\ UNCHANGED <<delivered, loss_counts>>
        BY <1>9, <2>2 DEF PollRaises, BccInv, TypeOK
      <3> QED BY <2>1, <3>1 DEF Contract!vars
    <2>3. CASE ~ stop_event
      <3>1. failed' = TRUE
        BY <1>9, <2>3 DEF PollRaises
      <3>2. Contract!Fail
        BY <1>9, <2>1, <3>1 DEF PollRaises, Contract!Fail
      <3> QED BY <3>2 DEF Contract!Next
    <2> QED BY <2>2, <2>3
  <1>10. CASE PollerRuns \/ CheckStop \/ TakeRecord \/ PollReturns \/ RecordError \/ KernelWrites
    <2>1. Status' = Status
      BY <1>10 DEF PollerRuns, CheckStop, TakeRecord, PollReturns, RecordError, KernelWrites,
                   Status, Stopping
    <2>2. UNCHANGED Contract!vars
      BY <1>10, <2>1 DEF PollerRuns, CheckStop, TakeRecord, PollReturns, RecordError,
                         KernelWrites, Contract!vars
    <2> QED BY <2>2
  <1>11. CASE UNCHANGED vars
    BY <1>11 DEF vars, Contract!vars, Status, Stopping
  <1> QED BY <1>1, <1>2, <1>3, <1>4, <1>5, <1>6, <1>7, <1>8, <1>9, <1>10, <1>11
          DEF Next, StartStep, PollerStep

\* BccDetector implements the Detector protocol the session is written against.
THEOREM BccImplementsDetector == Spec => ImplementsDetector
  <1>1. Init => Contract!Init
    BY DEF Init, Contract!Init, Status, Stopping, Starting
  <1>2. BccInv /\ [Next]_vars => [Contract!Next]_(Contract!vars)
    BY ContractStep
  <1> QED BY <1>1, <1>2, BccInvariant, PTL DEF Spec, ImplementsDetector, Contract!Spec
=============================================================================
